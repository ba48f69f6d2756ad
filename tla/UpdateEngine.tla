---------------------------- MODULE UpdateEngine ----------------------------
(***************************************************************************)
(* The update engine on one project checkout: planning (UpdatePlanner over *)
(* GitService and the posture classifier), the execution contract check,   *)
(* the file snapshot, the Git transaction (stash, fetch, pull, apply,      *)
(* drop), the runtime rebuild, verification, and on any exception the      *)
(* restore of the snapshot and the failed audit.  The callers are the      *)
(* `aipm update' command and the executor's compose_update_runtime port;   *)
(* nothing serialises the two, and the operator and the upstream keep      *)
(* changing the checkout and the remote.                                   *)
(*                                                                         *)
(* A file's content is the commit that last changed it plus the set of     *)
(* local edits in it.  What git itself does is modelled from the commands  *)
(* the provider issues.                                                    *)
(***************************************************************************)
EXTENDS Integers, Sequences, FiniteSets

CONSTANTS Files,        \* paths of the checkout
          Critical,     \* the paths named by ConflictAnalyzer.CRITICAL_FILES
          MaxCommit,    \* upstream history is 0 .. MaxCommit
          Touches,      \* Touches[k]: the files commit k writes
          Edits,        \* the local edits an operator may make
          Callers,      \* concurrent callers of execute_update
          Contracted,   \* the callers that come with an execution contract
          Projects,     \* the repository shapes and runtime modes explored
          ReadFailures, \* bound: the parts of a repository read that fail together
          Mishaps,      \* bound: the mishaps explored together
          MaxRounds     \* bound: updates per caller

Absent == -1
Torn == -2
Commits == 0 .. MaxCommit

ASSUME UpdateConstants ==
  /\ MaxCommit \in Nat /\ MaxRounds \in Nat
  /\ Touches \in [Commits -> SUBSET Files]
  /\ Critical \subseteq Files /\ Contracted \subseteq Callers
  /\ ReadFailures \subseteq SUBSET {"diff", "counts", "stash"}
  /\ Projects \subseteq {"tracking", "no_git", "detached", "ahead", "no_origin", "no_ref"}
                     \X {"custom", "compose", "systemd", "none"}

VARIABLES
  shape,       \* how the checkout relates to its origin
  mode,        \* which runtime the planner finds
  head,        \* the checked-out commit
  tracking,    \* origin/<branch>, as last fetched
  remote,      \* the tip of the remote branch
  tree,        \* the working tree
  stash,       \* the stash list, newest first
  conflicted,  \* unmerged paths of the index
  running,     \* the tree the services were last started from
  eng,         \* the state of each caller's execute_update
  made,        \* history: every edit the operator has made
  mishaps      \* history: what has happened that nothing in the code rules out

repo == <<shape, mode, head, tracking, remote, tree, stash, conflicted, running>>
vars == <<repo, eng, made, mishaps>>

(* ------------------------------- contents ------------------------------ *)

Version(f, c) ==
  LET writers == {k \in 0 .. c : f \in Touches[k]}
  IN IF writers = {} THEN Absent
     ELSE CHOOSE k \in writers : \A j \in writers : j <= k

AtCommit(c) == [f \in Files |-> [v |-> Version(f, c), e |-> {}]]

(* A mishap is one of
     "overlap"     an update takes its snapshot while another is at work;
     "under"       the operator edits or stashes while one is;
     "miscounted"  the count before the safety stash misses entries;
     "unseen"      the count after it does;
     "torn"        a restore is cut off inside a file. *)
Mishap(kind) == mishaps \cup {kind} \in Mishaps /\ mishaps' = mishaps \cup {kind}
Calm == UNCHANGED mishaps

Exists(x) == x.v # Absent \/ x.e # {}

Tracked(f) == Version(f, head) # Absent
Modified == {f \in Files : Tracked(f) /\ tree[f] # AtCommit(head)[f]}
Untracked == {f \in Files : ~Tracked(f) /\ Exists(tree[f])}
Dirty == Modified \cup Untracked \cup conflicted

(* ------------------------------- planning ------------------------------ *)

EmptyRepository ==
  [exists |-> FALSE, modified |-> {}, untracked |-> {}, conflicted |-> {}, ahead |-> FALSE,
   behind |-> 0, stashes |-> 0]

Behind == IF shape \in {"tracking", "ahead"} THEN tracking - head ELSE 0

\* The files, the commits and the stash are read by commands of their own, and
\* one that fails counts as having found nothing.
Snapshot(failed) ==
  [exists |-> TRUE, modified |-> IF "diff" \in failed THEN {} ELSE Modified,
   untracked |-> Untracked, conflicted |-> conflicted,
   ahead |-> shape = "ahead" /\ "counts" \notin failed,
   behind |-> IF "counts" \in failed THEN 0 ELSE Behind,
   stashes |-> IF "stash" \in failed THEN 0 ELSE Len(stash)]

\* A read that fails outside of them reports the empty repository, not the error.
Repositories ==
  {EmptyRepository} \cup
  IF shape = "no_git" THEN {} ELSE {Snapshot(failed) : failed \in ReadFailures \cup {{}}}

HasOrigin == shape \in {"tracking", "ahead", "detached", "no_ref"}

\* Read-only: HEAD against the tracking ref, with no fetch.
RemoteChangedFiles == UNION {Touches[k] : k \in head + 1 .. tracking}
IncomingUnknown == shape \in {"detached", "no_ref", "no_origin"}

classify(files) == [critical |-> files \cap Critical, normal |-> files \ Critical]

Posture(r) ==
  LET review == [review |-> TRUE, stash |-> FALSE]
      files == r.modified \cup r.untracked
  IN IF ~r.exists \/ r.conflicted # {} \/ shape = "detached" \/ classify(files).critical # {}
     THEN review
     ELSE [review |-> FALSE, stash |-> files # {}]

prepare_update(r, unreadable) ==
  IF ~r.exists
  THEN [review |-> TRUE, stash |-> FALSE, pull |-> FALSE]
  ELSE [review |-> \/ shape = "detached" \/ r.ahead
                   \/ HasOrigin /\ (unreadable \/ IncomingUnknown)
                   \/ HasOrigin /\ classify(RemoteChangedFiles).critical # {}
                   \/ Posture(r).review,
        stash |-> Posture(r).stash,
        pull |-> HasOrigin /\ r.behind > 0]

\* ok: the compose files parse, or every systemd unit is trusted and active.
RuntimePlannable(ok) == mode = "custom" \/ (mode \in {"compose", "systemd"} /\ ok)

plan_update(dry, r1, r2, unreadable, ok) ==
  LET git == IF shape = "no_git" THEN [review |-> FALSE, stash |-> FALSE, pull |-> FALSE]
             ELSE prepare_update(r1, unreadable)
      proceed == ~git.review /\ RuntimePlannable(ok)
  IN [dry |-> dry, proceed |-> proceed, approval |-> proceed /\ ~dry,
      stash |-> git.stash, pull |-> git.pull, fetch |-> r2.exists /\ HasOrigin,
      git |-> r2, head |-> head, tracking |-> tracking]

\* UpdatePlanIdentity: names and counts, never the contents of a file.
Digest(plan) == plan

None == [none |-> TRUE]

(* -------------------------------- callers ------------------------------ *)

Fresh(pc, round, contract) ==
  [pc |-> pc, round |-> round, plan |-> None, contract |-> contract,
   before |-> 0, stashed |-> FALSE, archive |-> None, outcome |-> "none"]

Init ==
  /\ \E p \in Projects : shape = p[1] /\ mode = p[2]
  /\ head = 0 /\ tracking = 0 /\ remote = 0
  /\ tree = AtCommit(0)
  /\ stash = <<>> /\ conflicted = {}
  /\ running = AtCommit(0)
  /\ eng = [c \in Callers |-> Fresh("idle", 0, None)]
  /\ made = {} /\ mishaps = {}

Set(c, e) == eng' = [eng EXCEPT ![c] = e]
Go(c, label) == Set(c, [eng[c] EXCEPT !.pc = label])

\* Every read may fail, that of the incoming changes too.
Plans(dry) ==
  {plan_update(dry, r1, r2, unreadable, ok) :
     r1 \in Repositories, r2 \in Repositories, unreadable \in BOOLEAN, ok \in BOOLEAN}

NewUpdate(c, contract) == Fresh("start", eng[c].round + 1, contract)

\* No lock covers both callers: the executor's lease is not taken by the
\* command, and UpdateFlightControl is not composed.
MayStart(c) == eng[c].pc \in {"idle", "done"} /\ eng[c].round < MaxRounds

\* From its snapshot to the end of its work or of its restore.
Inside(c) == eng[c].pc \notin {"idle", "start", "snapshot", "failed", "done"}

\* The control plane authorises the digest of the plan shown to the owner.
Authorize(c) ==
  /\ c \in Contracted /\ MayStart(c)
  /\ \E plan \in Plans(FALSE) : plan.proceed /\ Set(c, NewUpdate(c, Digest(plan)))
  /\ UNCHANGED <<repo, made, mishaps>>

Command(c) ==
  /\ c \notin Contracted /\ MayStart(c)
  /\ Set(c, NewUpdate(c, None))
  /\ UNCHANGED <<repo, made, mishaps>>

\* The caller gets its result or an error.  The audit record is written with
\* it, the call's local variables are gone.
Finish(c, outcome) ==
  Set(c, [Fresh("done", eng[c].round, None) EXCEPT !.outcome = outcome])

ContractRefuses(c, plan) == eng[c].contract # None /\ eng[c].contract # Digest(plan)

\* The plan is made and judged; what is used of it later is kept.
execute_update(c) ==
  /\ eng[c].pc = "start"
  /\ \E dry \in IF c \in Contracted THEN {FALSE} ELSE BOOLEAN,
        approve \in IF c \in Contracted THEN {TRUE} ELSE BOOLEAN :
       \E plan \in Plans(dry) :
         IF \/ ContractRefuses(c, plan) \/ plan.dry
            \/ ~plan.proceed \/ (plan.approval /\ ~approve)
         THEN Finish(c, "untouched")
         ELSE Set(c, [eng[c] EXCEPT !.pc = "snapshot", !.contract = None,
                        !.plan = [stash |-> plan.stash, fetch |-> plan.fetch, pull |-> plan.pull]])
  /\ UNCHANGED <<repo, made, mishaps>>

\* Any exception after the snapshot leads to the restore; before it there is
\* nothing to restore and only the failed audit is written.
Raise(c) == Go(c, IF eng[c].archive = None THEN "failed" ELSE "restore")

create_snapshot(c) ==
  /\ eng[c].pc = "snapshot"
  /\ \/ /\ Set(c, [eng[c] EXCEPT !.pc = IF eng[c].plan.stash THEN "count" ELSE "fetch",
                                 !.archive = tree])
        /\ IF \E d \in Callers : Inside(d) THEN Mishap("overlap") ELSE Calm
     \/ Raise(c) /\ Calm
  /\ UNCHANGED <<repo, made>>

(* ------------------------- the Git transaction ------------------------- *)

stash_count(c) ==
  /\ eng[c].pc = "count"
  /\ \/ \E r \in Repositories :
          /\ Set(c, [eng[c] EXCEPT !.pc = "push", !.before = r.stashes])
          /\ IF r.stashes = Len(stash) THEN Calm ELSE Mishap("miscounted")
     \/ Raise(c) /\ Calm
  /\ UNCHANGED <<repo, made>>

Own(c) == <<c, eng[c].round>>
Entry(owner) == [by |-> owner, base |-> head, files |-> [f \in Dirty |-> tree[f]]]

\* git stash push -u: nothing to save is a success; unmerged paths are an error.
StashPush(owner) ==
  /\ stash' = IF Dirty = {} THEN stash ELSE <<Entry(owner)>> \o stash
  /\ tree' = AtCommit(head)

push_stash(c) ==
  /\ eng[c].pc = "push"
  /\ \/ /\ conflicted = {} /\ shape # "no_git"
        /\ StashPush(Own(c)) /\ Go(c, "recount")
     \/ UNCHANGED <<tree, stash>> /\ Raise(c)
  /\ UNCHANGED <<shape, mode, head, tracking, remote, conflicted, running, made, mishaps>>

stash_recount(c) ==
  /\ eng[c].pc = "recount"
  /\ \/ \E r \in Repositories :
          /\ Set(c, [eng[c] EXCEPT !.pc = "fetch", !.before = 0,
                                   !.stashed = r.stashes > eng[c].before])
          /\ IF r.stashes = Len(stash) THEN Calm ELSE Mishap("unseen")
     \/ Raise(c) /\ Calm
  /\ UNCHANGED <<repo, made>>

fetch(c) ==
  /\ eng[c].pc = "fetch"
  /\ \/ ~eng[c].plan.fetch /\ UNCHANGED tracking /\ Go(c, "pull")
     \/ eng[c].plan.fetch /\ tracking' = remote /\ Go(c, "pull")
     \/ eng[c].plan.fetch /\ UNCHANGED tracking /\ Raise(c)
  /\ UNCHANGED <<shape, mode, head, remote, tree, stash, conflicted, running, made, mishaps>>

AfterPull(c) == IF eng[c].stashed THEN "apply" ELSE "runtime"

\* The provider refuses a dirty tree; git fetches again and fast-forwards to
\* the remote tip of that moment.
pull(c) ==
  /\ eng[c].pc = "pull"
  /\ \/ ~eng[c].plan.pull /\ Go(c, AfterPull(c)) /\ UNCHANGED <<head, tracking, tree>>
     \/ /\ eng[c].plan.pull /\ Dirty = {}
        /\ head' = remote /\ tracking' = remote /\ tree' = AtCommit(remote)
        /\ Go(c, AfterPull(c))
     \/ eng[c].plan.pull /\ Raise(c) /\ UNCHANGED <<head, tracking, tree>>
  /\ UNCHANGED <<shape, mode, remote, stash, conflicted, running, made, mishaps>>

\* git stash apply of the newest entry.  A tracked file whose base moved is
\* merged or left unmerged with both sides in it; an untracked file that now
\* exists is not overwritten; a locally modified target refuses the whole apply.
\* Apply(s, clash): s is the newest entry, clash the merges that conflict.
WasTracked(s, f) == Version(f, s.base) # Absent
Moved(s) == {f \in DOMAIN s.files : WasTracked(s, f) /\ Version(f, s.base) # Version(f, head)}
Blocked(s) == {f \in DOMAIN s.files : ~WasTracked(s, f) /\ Exists(tree[f])}
ApplyRefused(s) == \E f \in DOMAIN s.files : WasTracked(s, f) /\ f \in Modified
\* Mutant: the stashed file replaces the pulled one instead of merging.
AppliedWhole(s) ==
  [f \in Files |-> IF f \in DOMAIN s.files \ Blocked(s) THEN s.files[f] ELSE tree[f]]

Applied(s) ==
  [f \in Files |->
     IF f \in DOMAIN s.files \ Blocked(s)
     THEN [v |-> IF f \in Moved(s) THEN tree[f].v ELSE s.files[f].v, e |-> s.files[f].e]
     ELSE tree[f]]

\* Mutant: an apply that git could not complete is followed by the drop.
apply_stashThenDrop(c) ==
  /\ eng[c].pc = "apply" /\ stash # <<>>
  /\ tree' = Applied(Head(stash)) /\ Go(c, "drop")
  /\ UNCHANGED <<shape, mode, head, tracking, remote, stash, conflicted, running, made, mishaps>>

apply_stash(c) ==
  /\ eng[c].pc = "apply"
  /\ \/ /\ stash # <<>> /\ ~ApplyRefused(Head(stash)) /\ conflicted = {}
        /\ \E clash \in SUBSET Moved(Head(stash)) :
             /\ tree' = Applied(Head(stash))
             /\ conflicted' = clash
             /\ IF clash \cup Blocked(Head(stash)) = {} THEN Go(c, "drop") ELSE Raise(c)
     \/ UNCHANGED <<tree, conflicted>> /\ Raise(c)
  /\ UNCHANGED <<shape, mode, head, tracking, remote, stash, running, made, mishaps>>

drop_stash(c) ==
  /\ eng[c].pc = "drop"
  /\ \/ stash # <<>> /\ stash' = Tail(stash) /\ Go(c, "runtime")
     \/ UNCHANGED stash /\ Raise(c)
  /\ UNCHANGED <<shape, mode, head, tracking, remote, tree, conflicted, running, made, mishaps>>

(* ---------------- runtime, verification, restore, audit ---------------- *)

\* start_services.py, else compose up; a systemd project has neither.
execute_runtime(c) ==
  /\ eng[c].pc = "runtime"
  /\ \/ mode \in {"custom", "compose"} /\ running' = tree /\ Go(c, "verify")
     \/ mode \in {"custom", "compose"} /\ running' = tree /\ Raise(c)
     \/ UNCHANGED running /\ Raise(c)
  /\ UNCHANGED <<shape, mode, head, tracking, remote, tree, stash, conflicted, made, mishaps>>

\* Only an unmerged path is a CRITICAL finding; an analyzer that fails is a
\* warning; a stack that did not come up is HIGH and verifies with warnings.
CriticalFindings(r) == r.exists /\ r.conflicted # {}

verify_update(c) ==
  /\ eng[c].pc = "verify"
  /\ \E r \in Repositories : IF CriticalFindings(r) THEN Raise(c) ELSE Go(c, "audit")
  /\ UNCHANGED <<repo, made, mishaps>>

\* A success audit that cannot be written is an exception like any other.
write_success(c) ==
  /\ eng[c].pc = "audit"
  /\ Finish(c, "success") \/ Raise(c)
  /\ UNCHANGED <<repo, made, mishaps>>

\* File by file, over whatever is there, as far as it gets; the file it fails
\* in is left with a part of its content.  Files the archive lacks stay, and
\* HEAD, the index and the stash are out of scope.
Restored(c, done) == [f \in Files |-> IF f \in done THEN eng[c].archive[f] ELSE tree[f]]

restore(c) ==
  /\ eng[c].pc = "restore"
  /\ LET archived == {f \in Files : Exists(eng[c].archive[f])} IN
     \E done \in SUBSET archived :
       \/ tree' = Restored(c, done) /\ Calm
       \/ /\ \E f \in archived \ done : \E left \in SUBSET eng[c].archive[f].e :
               tree' = [Restored(c, done) EXCEPT ![f] = [v |-> Torn, e |-> left]]
          /\ Mishap("torn")
  /\ Go(c, "failed")
  /\ UNCHANGED <<shape, mode, head, tracking, remote, stash, conflicted, running, made>>

\* With the failed audit, or with the error that kept it from being written.
write_failed(c) ==
  /\ eng[c].pc = "failed"
  /\ Finish(c, "failed")
  /\ UNCHANGED <<repo, made, mishaps>>

(* --------------------- the operator and the upstream ------------------- *)

Touch == IF \E c \in Callers : Inside(c) THEN Mishap("under") ELSE Calm

OperatorEdit(f, x) ==
  /\ Touch /\ x \in Edits \ made
  /\ tree' = [tree EXCEPT ![f].e = @ \cup {x}]
  /\ made' = made \cup {x}
  /\ UNCHANGED <<shape, mode, head, tracking, remote, stash, conflicted, running, eng>>

OperatorStash ==
  /\ Touch /\ Dirty # {} /\ conflicted = {} /\ shape # "no_git"
  /\ StashPush(<<"operator", 0>>)
  /\ UNCHANGED <<shape, mode, head, tracking, remote, conflicted, running, eng, made>>

OperatorResolves ==
  /\ conflicted # {} /\ conflicted' = {}
  /\ UNCHANGED <<shape, mode, head, tracking, remote, tree, stash, running, eng, made, mishaps>>

\* With "tracking" known from an earlier fetch the next plan sees it.
OperatorFetch ==
  /\ shape \in {"tracking", "ahead"} /\ tracking # remote /\ tracking' = remote
  /\ UNCHANGED <<shape, mode, head, remote, tree, stash, conflicted, running, eng, made, mishaps>>

UpstreamPush ==
  /\ shape \in {"tracking", "ahead"} /\ remote < MaxCommit /\ remote' = remote + 1
  /\ UNCHANGED <<shape, mode, head, tracking, tree, stash, conflicted, running, eng, made, mishaps>>

Engine(c) ==
  \/ Authorize(c) \/ Command(c) \/ execute_update(c) \/ create_snapshot(c)
  \/ stash_count(c) \/ push_stash(c) \/ stash_recount(c) \/ fetch(c) \/ pull(c)
  \/ apply_stash(c) \/ drop_stash(c) \/ execute_runtime(c) \/ verify_update(c)
  \/ write_success(c) \/ restore(c) \/ write_failed(c)

Next ==
  \/ \E c \in Callers : Engine(c)
  \/ \E f \in Files, x \in Edits : OperatorEdit(f, x)
  \/ OperatorStash \/ OperatorResolves \/ OperatorFetch \/ UpstreamPush

Spec == Init /\ [][Next]_vars

(* ------------------------------ properties ----------------------------- *)

EditedIn(files, x) == \E f \in DOMAIN files : x \in files[f].e

EditsKept ==
  \A x \in made : EditedIn(tree, x) \/ \E i \in DOMAIN stash : EditedIn(stash[i].files, x)

\* An edit of the operator is lost only by an overlap of two updates, by a
\* change under an update, by a first stash count that fails or by a restore
\* that is cut off in a file.  Whatever else happens it is in the working tree
\* or in a stash entry: any step of execute_update fails, every other read
\* reports nothing, updates plan side by side, the upstream moves (README
\* "Safety behavior": the workflow does not silently overwrite local work).
EditsSurvive == mishaps \subseteq {"unseen"} => EditsKept

\* As long as no mishap has happened, a first update reported as a success is
\* whole: its safety stash is back in the working tree, and what it leaves
\* running is the checked-out commit with the operator's edits, no tracked
\* file older or newer than HEAD.
SuccessIsComplete ==
  [][\A c \in Callers :
       /\ eng[c].pc = "audit" /\ eng'[c].outcome = "success" /\ mishaps = {}
       /\ \A d \in Callers : d # c => eng[d].round = 0
       /\ eng[c].round = 1
       => /\ \A i \in DOMAIN stash : stash[i].by # Own(c)
          /\ running = tree
          /\ \A f \in Files : Tracked(f) => tree[f].v = Version(f, head)]_vars

(* --------------- claims that the code does not keep -------------------- *)

\* The claim "Only a stash this transaction actually created is ever applied or
\* dropped" (services/update/git_transaction.py:17).
OwnStashDropped ==
  [][\A c \in Callers : eng[c].pc = "drop" /\ stash' # stash => Head(stash).by = Own(c)]_vars

\* The claim "Critical Git changes [...] block execution" (README.md:110): the
\* commits an update pulls touch no critical file, whenever they were pushed.
CriticalNeverPulled ==
  [][\A c \in Callers :
       eng[c].pc = "pull" => \A k \in head + 1 .. head' : Touches[k] \cap Critical = {}]_vars
=============================================================================
