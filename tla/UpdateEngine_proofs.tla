------------------------- MODULE UpdateEngine_proofs -------------------------
(* Proofs for UpdateEngine: an edit of the operator is lost only by one of   *)
(* the four mishaps that EditsSurvive names, whatever files, history, edits, *)
(* callers and number of updates, and whatever step of them fails.  And, at  *)
(* the end, for ExecutorBoundary, behind which the engine runs: its safety   *)
(* properties hold for any number of actions, workers and connections.       *)
EXTENDS UpdateEngine, ExecutorBoundary, NaturalsInduction, WellFoundedInduction, TLAPS

-----------------------------------------------------------------------------
(* The inductive invariant.                                                  *)

\* No mishap that costs an edit has happened.
Harmless == mishaps \subseteq {"unseen"}

Contents == [v : {Absent} \cup Commits, e : SUBSET Edits]
Trees == [Files -> Contents]
Owners == (Callers \cup {"operator"}) \X Nat
Entries == [by : Owners, base : Commits, files : UNION {[S -> Contents] : S \in SUBSET Files}]

Quiet == {"idle", "done"}
Early == {"start", "snapshot"}
Late == {"runtime", "verify", "audit"}
Guarded == {"count", "push", "recount", "fetch", "pull", "apply", "drop", "restore"} \cup Late

Fields == {"pc", "round", "plan", "contract", "before", "stashed", "archive", "outcome"}

IsEngine(e) ==
  /\ e = [x \in Fields |-> e[x]]
  /\ e.pc \in Quiet \cup Early \cup Guarded \cup {"failed"}
  /\ e.round \in Nat

TypeOK ==
  /\ {head, tracking, remote} \subseteq Commits /\ head <= remote
  /\ tree \in Trees
  /\ stash \in Seq(Entries)
  /\ eng = [c \in Callers |-> eng[c]]
  /\ \A c \in Callers : IsEngine(eng[c])
  /\ made \subseteq Edits

\* Updates are at work one at a time.
OneActive == \A c, d \in Callers : c # d => ~Inside(c) \/ ~Inside(d)

\* No stash entry is of an update to come, or of a commit to come.
StashPast ==
  \A i \in DOMAIN stash :
    /\ stash[i].base <= head
    /\ \A c \in Callers : stash[i].by[1] = c => stash[i].by[2] <= eng[c].round

\* Until the first update has ended the checkout holds HEAD's versions, and an
\* entry those of the commit it was taken from.
First == \A c \in Callers : eng[c].round <= 1 /\ eng[c].pc \notin {"restore", "failed", "done"}

VersionsKept ==
  First => /\ \A f \in Files : tree[f].v = Version(f, head)
           /\ \A i \in DOMAIN stash : \A f \in DOMAIN stash[i].files :
                stash[i].files[f].v = Version(f, stash[i].base)

NoOwnEntry(c) == \A i \in DOMAIN stash : stash[i].by # Own(c)

\* The newest entry is the update's only one, and the archive has its edits.
OwnEntryOnTop(c) ==
  /\ stash # <<>> /\ stash[1].by = Own(c)
  /\ \A i \in DOMAIN stash : i # 1 => stash[i].by # Own(c)
  /\ eng[c].archive # None =>
       \A f \in DOMAIN stash[1].files : stash[1].files[f].e \subseteq eng[c].archive[f].e

\* What an update has in hand at each of its steps.
StashSound(c) ==
  LET e == eng[c] IN
  /\ e.pc \in Early \cup {"count", "push"} => NoOwnEntry(c)
  /\ e.pc = "push" => e.before = Len(stash)
  /\ e.pc = "recount" => \/ Len(stash) = e.before /\ NoOwnEntry(c)
                         \/ Len(stash) > e.before /\ OwnEntryOnTop(c)
  /\ e.pc \in {"fetch", "pull"} =>
       IF e.stashed THEN OwnEntryOnTop(c) ELSE (mishaps = {} => NoOwnEntry(c))
  /\ e.pc \in Late => (mishaps = {} => NoOwnEntry(c))
  /\ e.pc \in {"apply", "drop"} => OwnEntryOnTop(c)
  /\ e.pc = "drop" => \A f \in DOMAIN stash[1].files : stash[1].files[f].e \subseteq tree[f].e

ArchiveSound(c) ==
  LET e == eng[c] IN
  /\ e.pc \in Early => e.archive = None /\ ~e.stashed
  /\ e.pc = "restore" => e.archive # None
  /\ e.pc \in Guarded /\ e.archive # None =>
       e.archive \in Trees /\ \A f \in Files : tree[f].e \subseteq e.archive[f].e

CallerSound(c) ==
  /\ eng[c].pc = "idle" <=> eng[c].round = 0
  /\ StashSound(c) /\ ArchiveSound(c)
  /\ eng[c].pc \in {"verify", "audit"} => running = tree

CallersSound == \A c \in Callers : CallerSound(c)

IInv ==
  /\ TypeOK /\ OneActive /\ StashPast /\ VersionsKept /\ CallersSound
  /\ EditsKept

-----------------------------------------------------------------------------
(* Versions and contents.                                                    *)

\* Of the commits up to one that wrote a file there is a last.
LEMMA LastWriter ==
    ASSUME NEW n \in Nat, NEW S, S \subseteq 0 .. n, S # {}
    PROVE  \E k \in S : \A j \in S : j <= k
  <1> DEFINE D == {n - k : k \in S}
             R == {p \in Nat \X Nat : p[1] < p[2]}
  <1>a. \A k \in S : k \in 0 .. n
    OBVIOUS
  <1>b. \A k \in 0 .. n : k \in Nat /\ n - k \in Nat
    OBVIOUS
  <1>1. D \subseteq Nat /\ D # {}
    BY <1>a, <1>b
  <1>2. IsWellFoundedOn(R, Nat)
    BY NatLessThanWellFounded DEF OpToRel
  <1>3. PICK d \in D : \A e \in D : <<e, d>> \notin R
    <2> HIDE DEF D, R
    <2> QED
      BY <1>1, <1>2, WFMin
  <1>4. \A e \in D : ~(e < d)
    BY <1>1, <1>3
  <1>5. PICK k \in S : d = n - k
    OBVIOUS
  <1>6. ASSUME NEW j \in S
        PROVE  j <= k
    <2>1. n - j \in D
      OBVIOUS
    <2>2. ~(n - j < n - k)
      BY <1>4, <1>5, <2>1
    <2>3. j \in Nat /\ k \in Nat
      BY <1>a, <1>b
    <2> QED
      BY <2>2, <2>3
  <1> QED
    BY <1>5, <1>6

\* A file's version is the commit that wrote it last, if any did.
LEMMA VersionType ==
    ASSUME NEW f, NEW c \in Commits
    PROVE  /\ Version(f, c) \in {Absent} \cup Commits
           /\ Version(f, c) = Absent <=> {k \in 0 .. c : f \in Touches[k]} = {}
  <1> DEFINE S == {k \in 0 .. c : f \in Touches[k]}
  <1>1. c \in Nat /\ S \subseteq 0 .. c /\ 0 .. c \subseteq Commits
    BY UpdateConstants DEF Commits
  <1>2. Version(f, c) = IF S = {} THEN Absent ELSE CHOOSE k \in S : \A j \in S : j <= k
    BY DEF Version
  <1> HIDE DEF S
  <1>3. CASE S = {}
    BY <1>2, <1>3 DEF S
  <1>4. CASE S # {}
    <2>1. \E k \in S : \A j \in S : j <= k
      BY <1>1, <1>4, LastWriter
    <2>2. Version(f, c) \in S
      BY <1>2, <1>4, <2>1
    <2>3. Version(f, c) \in 0 .. c
      BY <1>1, <2>2
    <2>4. Version(f, c) # Absent
      BY <1>1, <2>3 DEF Absent
    <2> QED
      BY <1>1, <1>4, <2>3, <2>4 DEF S
  <1> QED
    BY <1>3, <1>4

\* A file that was tracked stays tracked.
LEMMA TrackedStays ==
    ASSUME NEW f, NEW b \in Commits, NEW c \in Commits, b <= c, Version(f, b) # Absent
    PROVE  Version(f, c) # Absent
  <1>1. PICK k \in 0 .. b : f \in Touches[k]
    BY VersionType
  <1>2. k \in 0 .. c
    BY UpdateConstants DEF Commits
  <1> QED
    BY <1>1, <1>2, VersionType

\* A clean checkout.
LEMMA CheckedOut ==
    ASSUME NEW c \in Commits
    PROVE  /\ AtCommit(c) \in Trees
           /\ \A f \in Files : AtCommit(c)[f].e = {} /\ AtCommit(c)[f].v = Version(f, c)
  BY VersionType DEF AtCommit, Trees, Contents

\* A file with an edit in it is one that git reports as changed.
LEMMA EditedIsDirty ==
    ASSUME TypeOK, NEW f \in Files, tree[f].e # {}
    PROVE  f \in Dirty
  <1>1. AtCommit(head)[f].e = {}
    BY CheckedOut DEF TypeOK
  <1> QED
    BY <1>1 DEF Dirty, Modified, Untracked, Exists

\* What the stash saves is everything that was edited.
LEMMA StashedEntry ==
    ASSUME TypeOK, conflicted = {}, NEW owner \in Owners
    PROVE  /\ Entry(owner) \in Entries /\ Dirty \subseteq Files
           /\ Entry(owner).by = owner /\ Entry(owner).base = head
           /\ DOMAIN Entry(owner).files = Dirty
           /\ \A f \in Dirty : Entry(owner).files[f] = tree[f]
  <1> DEFINE files == [f \in Dirty |-> tree[f]]
  <1>1. Dirty \subseteq Files
    BY DEF Dirty, Modified, Untracked
  <1>2. files \in [Dirty -> Contents]
    BY <1>1 DEF TypeOK, Trees
  <1>3. files \in UNION {[S -> Contents] : S \in SUBSET Files}
    BY <1>1, <1>2
  <1>4. DOMAIN files = Dirty /\ \A f \in Dirty : files[f] = tree[f]
    OBVIOUS
  <1>5. Entry(owner) = [by |-> owner, base |-> head, files |-> files]
    BY DEF Entry
  <1>6. head \in Commits
    BY DEF TypeOK
  <1> HIDE DEF files
  <1> QED
    BY <1>1, <1>3, <1>4, <1>5, <1>6 DEF Entries

\* The files of an entry.
LEMMA EntryFiles ==
    ASSUME TypeOK, NEW i \in DOMAIN stash
    PROVE  /\ stash[i] \in Entries /\ stash[i].base \in Commits /\ DOMAIN stash[i].files \subseteq Files
           /\ \A f \in DOMAIN stash[i].files : stash[i].files[f] \in Contents
           /\ stash[i].by \in Owners
  <1>1. stash[i] \in Entries
    BY DEF TypeOK
  <1>2. PICK S \in SUBSET Files : stash[i].files \in [S -> Contents]
    BY <1>1 DEF Entries
  <1> QED
    BY <1>1, <1>2 DEF Entries

-----------------------------------------------------------------------------
(* Steps of one update.                                                      *)

\* The step is one of c's update.
StepOf(c) ==
  /\ eng' = [d \in Callers |-> eng'[d]]
  /\ \A d \in Callers : IsEngine(eng'[d])
  /\ \A d \in Callers \ {c} : eng'[d] = eng[d]

\* No other update is at work.
Alone(c) == \A d \in Callers \ {c} : ~Inside(d)

\* An update is at work from its snapshot on.
LEMMA InsideIsGuarded ==
    ASSUME IInv, NEW c \in Callers
    PROVE  Inside(c) <=> eng[c].pc \in Guarded
  BY DEF IInv, TypeOK, IsEngine, Inside, Quiet, Early, Guarded, Late

\* The record of an update is replaced.
LEMMA SetStep ==
    ASSUME IInv, NEW c \in Callers, NEW e, IsEngine(e), Set(c, e)
    PROVE  StepOf(c) /\ eng'[c] = e
  <1>1. eng = [d \in Callers |-> eng[d]] /\ \A d \in Callers : IsEngine(eng[d])
    BY DEF IInv, TypeOK
  <1>2. eng' = [eng EXCEPT ![c] = e]
    BY DEF Set
  <1>3. eng'[c] = e /\ \A d \in Callers \ {c} : eng'[d] = eng[d]
    BY <1>1, <1>2
  <1>4. eng' = [d \in Callers |-> eng'[d]]
    BY <1>1, <1>2
  <1> QED
    BY <1>1, <1>3, <1>4 DEF StepOf

\* An update that is at work is the only one.
LEMMA RunsAlone ==
    ASSUME IInv, NEW c \in Callers, eng[c].pc \in Guarded
    PROVE  Alone(c)
  BY InsideIsGuarded DEF IInv, OneActive, Alone

\* An update moves on.
LEMMA GoStep ==
    ASSUME IInv, NEW c \in Callers, eng[c].pc \notin Quiet, NEW label, Go(c, label),
           label \in Quiet \cup Early \cup Guarded \cup {"failed"}
    PROVE  /\ StepOf(c) /\ eng'[c].pc = label /\ eng'[c].round = eng[c].round
           /\ eng'[c].plan = eng[c].plan /\ eng'[c].before = eng[c].before
           /\ eng'[c].stashed = eng[c].stashed /\ eng'[c].archive = eng[c].archive
  <1> DEFINE e == [eng[c] EXCEPT !.pc = label]
  <1>1. IsEngine(eng[c])
    BY DEF IInv, TypeOK
  <1>2. /\ e.pc = label /\ e.round = eng[c].round /\ e.plan = eng[c].plan
        /\ e.before = eng[c].before /\ e.stashed = eng[c].stashed /\ e.archive = eng[c].archive
        /\ e = [x \in Fields |-> e[x]]
    BY <1>1 DEF IsEngine, Fields
  <1>3. Set(c, e)
    BY DEF Go
  <1> HIDE DEF e
  <1>4. IsEngine(e)
    BY <1>1, <1>2 DEF IsEngine
  <1>5. StepOf(c) /\ eng'[c] = e
    BY <1>3, <1>4, SetStep
  <1> QED
    BY <1>2, <1>5

\* An update ends.
LEMMA FinishStep ==
    ASSUME IInv, NEW c \in Callers, NEW outcome, Finish(c, outcome)
    PROVE  StepOf(c) /\ eng'[c].pc = "done" /\ eng'[c].round = eng[c].round
  <1> DEFINE q == Fresh("done", eng[c].round, None)
             e == [q EXCEPT !.outcome = outcome]
  <1>1. eng[c].round \in Nat
    BY DEF IInv, TypeOK, IsEngine
  <1>2. IsEngine(q) /\ q.pc = "done" /\ q.round = eng[c].round
    BY <1>1 DEF Fresh, IsEngine, Fields, Quiet
  <1>3. Set(c, e)
    BY DEF Finish
  <1> HIDE DEF q
  <1>4. e.pc = q.pc /\ e.round = q.round /\ e = [x \in Fields |-> e[x]]
    BY <1>2 DEF IsEngine, Fields
  <1> HIDE DEF e
  <1>5. IsEngine(e)
    BY <1>2, <1>4 DEF IsEngine
  <1> QED
    BY <1>2, <1>3, <1>4, <1>5, SetStep

\* The others are not disturbed by a step that leaves alone what they know, nor,
\* when none of them is at work, by one that leaves them their entries.
LEMMA OthersSound ==
    ASSUME IInv, NEW c \in Callers, StepOf(c), CallerSound(c)', mishaps \subseteq mishaps',
           \/ Alone(c) /\ \A d \in Callers \ {c} : NoOwnEntry(d) => NoOwnEntry(d)'
           \/ UNCHANGED <<tree, stash, running>> /\ eng'[c].pc \notin Guarded
    PROVE  CallersSound' /\ OneActive'
  <1>1. ASSUME NEW d \in Callers, d # c
        PROVE  CallerSound(d)'
    <2>1. eng'[d] = eng[d] /\ CallerSound(d)
      BY <1>1 DEF StepOf, IInv, CallersSound
    <2>2. CASE Alone(c) /\ (NoOwnEntry(d) => NoOwnEntry(d)')
      <3>1. eng[d].pc \notin Guarded
        BY <1>1, <2>2, InsideIsGuarded DEF Alone
      <3> QED
        BY <2>1, <2>2, <3>1
           DEF CallerSound, StashSound, ArchiveSound, Early, Late, Guarded
    <2>3. CASE UNCHANGED <<tree, stash, running>>
      <3>1. (NoOwnEntry(d)' <=> NoOwnEntry(d)) /\ (OwnEntryOnTop(d)' <=> OwnEntryOnTop(d))
        BY <2>1, <2>3 DEF NoOwnEntry, OwnEntryOnTop, Own
      <3>2. StashSound(d)'
        BY <2>1, <2>3, <3>1 DEF CallerSound, StashSound
      <3>3. ArchiveSound(d)'
        BY <2>1, <2>3 DEF CallerSound, ArchiveSound
      <3> QED
        BY <2>1, <2>3, <3>2, <3>3 DEF CallerSound
    <2> QED
      BY <1>1, <2>2, <2>3
  <1>2. OneActive'
    <2>1. \A d \in Callers \ {c} : Inside(d)' <=> Inside(d)
      BY DEF StepOf, Inside
    <2>2. \A d \in Callers \ {c} : ~Inside(c)' \/ ~Inside(d)
      <3>1. CASE Alone(c)
        BY <3>1 DEF Alone
      <3>2. CASE eng'[c].pc \notin Guarded
        <4>1. IsEngine(eng'[c])
          BY DEF StepOf
        <4>2. ~Inside(c)'
          BY <3>2, <4>1 DEF Inside, IsEngine, Quiet, Early, Guarded, Late
        <4> QED
          BY <4>2
      <3> QED
        BY <3>1, <3>2
    <2>3. \A d, g \in Callers : d # g => ~Inside(d) \/ ~Inside(g)
      BY DEF IInv, OneActive
    <2>4. \A d, g \in Callers : d # g => ~Inside(d)' \/ ~Inside(g)'
      BY <2>1, <2>2, <2>3
    <2> QED
      BY <2>4 DEF OneActive
  <1> QED
    BY <1>1, <1>2 DEF CallersSound

\* Until the first update has ended nothing was restored.
LEMMA FirstBack ==
    ASSUME IInv, NEW c \in Callers, StepOf(c), First', eng[c].round <= eng'[c].round,
           eng'[c].round = eng[c].round => eng[c].pc \notin {"restore", "failed", "done"}
    PROVE  First
  <1>1. ASSUME NEW d \in Callers
        PROVE  eng[d].round <= 1 /\ eng[d].pc \notin {"restore", "failed", "done"}
    <2>1. CASE d # c
      BY <2>1 DEF StepOf, First
    <2>2. CASE d = c
      <3>1. eng[c].round \in Nat /\ eng'[c].round \in Nat /\ eng'[c].round <= 1
            /\ (eng[c].pc = "idle" <=> eng[c].round = 0)
        BY DEF IInv, TypeOK, IsEngine, First, StepOf, CallersSound, CallerSound
      <3>2. CASE eng'[c].round = eng[c].round
        BY <2>2, <3>1, <3>2
      <3>3. CASE eng'[c].round # eng[c].round
        BY <2>2, <3>1, <3>3
      <3> QED
        BY <3>2, <3>3
    <2> QED
      BY <2>1, <2>2
  <1> QED
    BY <1>1 DEF First

\* A step of an update that leaves the repository alone.
LEMMA EngineStep ==
    ASSUME IInv, NEW c \in Callers, StepOf(c), CallerSound(c)', eng[c].round <= eng'[c].round,
           eng'[c].round = eng[c].round =>
               eng[c].pc \notin {"restore", "failed", "done"} \/ eng'[c].pc \in {"failed", "done"},
           UNCHANGED <<head, tracking, remote, tree, stash, made>>, mishaps \subseteq mishaps',
           Alone(c) \/ (UNCHANGED running /\ eng'[c].pc \notin Guarded)
    PROVE  IInv'
  <1>1. TypeOK'
    BY DEF IInv, TypeOK, StepOf
  <1>2. StashPast'
    <2> SUFFICES ASSUME NEW i \in DOMAIN stash, NEW d \in Callers, stash[i].by[1] = d
                 PROVE  stash[i].base <= head /\ stash[i].by[2] <= eng'[d].round
      BY DEF StashPast, IInv
    <2>1. stash[i].base <= head /\ stash[i].by[2] <= eng[d].round /\ stash[i].by[2] \in Nat
      BY EntryFiles DEF IInv, StashPast, Owners
    <2>2. eng[d].round \in Nat /\ eng'[d].round \in Nat
      <3>1. IsEngine(eng[d]) /\ IsEngine(eng'[d])
        BY DEF StepOf, IInv, TypeOK
      <3> QED
        BY <3>1 DEF IsEngine
    <2>3. eng[d].round <= eng'[d].round
      <3>1. CASE d = c
        BY <3>1
      <3>2. CASE d # c
        <4>1. eng'[d] = eng[d]
          BY <3>2 DEF StepOf
        <4> QED
          BY <2>2, <4>1
      <3> QED
        BY <3>1, <3>2
    <2> QED
      BY <2>1, <2>2, <2>3
  <1>3. VersionsKept'
    <2> SUFFICES ASSUME First'
                 PROVE  First
      BY DEF IInv, VersionsKept
    <2>1. eng'[c].pc \notin {"failed", "done"}
      BY DEF First
    <2> QED
      BY <2>1, FirstBack
  <1>4. EditsKept'
    BY DEF IInv, EditsKept, EditedIn
  <1>5. \A d \in Callers \ {c} : NoOwnEntry(d) => NoOwnEntry(d)'
    BY DEF StepOf, NoOwnEntry, Own
  <1> QED
    BY <1>1, <1>2, <1>3, <1>4, <1>5, OthersSound DEF IInv

\* What an update knows of the stash while neither changes.
LEMMA OwnFrame ==
    ASSUME NEW c \in Callers, UNCHANGED stash, eng'[c].round = eng[c].round
    PROVE  /\ NoOwnEntry(c)' <=> NoOwnEntry(c)
           /\ eng'[c].archive = eng[c].archive => (OwnEntryOnTop(c)' <=> OwnEntryOnTop(c))
  BY DEF NoOwnEntry, OwnEntryOnTop, Own

\* An update that has ended, or has only its failed audit to write.
LEMMA EndedSound ==
    ASSUME IInv, NEW c \in Callers, eng[c].pc \notin Quiet,
           eng'[c].pc \in {"done", "failed"}, eng'[c].round = eng[c].round
    PROVE  CallerSound(c)'
  <1>1. eng[c].round # 0
    BY DEF IInv, CallersSound, CallerSound, Quiet
  <1> QED
    BY <1>1 DEF CallerSound, StashSound, ArchiveSound, Early, Late, Guarded

\* An exception sends the update to the restore of what its archive has.
LEMMA RaiseStep ==
    ASSUME IInv, NEW c \in Callers, eng[c].pc \in {"snapshot"} \cup (Guarded \ {"restore"}),
           Raise(c),
           eng[c].pc \in Guarded /\ eng[c].archive # None =>
               \A f \in Files : tree'[f].e \subseteq eng[c].archive[f].e
    PROVE  /\ StepOf(c) /\ CallerSound(c)' /\ eng'[c].pc \in {"restore", "failed"}
           /\ eng'[c].round = eng[c].round
  <1> DEFINE label == IF eng[c].archive = None THEN "failed" ELSE "restore"
  <1>1. Go(c, label) /\ label \in Quiet \cup Early \cup Guarded \cup {"failed"}
        /\ eng[c].pc \notin Quiet
    BY DEF Raise, Guarded, Late, Quiet
  <1>2. /\ StepOf(c) /\ eng'[c].pc = label /\ eng'[c].round = eng[c].round
        /\ eng'[c].archive = eng[c].archive
    BY <1>1, GoStep
  <1>3. CASE eng[c].archive = None
    BY <1>1, <1>2, <1>3, EndedSound
  <1>4. CASE eng[c].archive # None
    <2>1. eng[c].pc \in Guarded /\ eng[c].archive \in Trees /\ eng[c].round # 0
      BY <1>1, <1>4 DEF IInv, CallersSound, CallerSound, ArchiveSound, Early, Quiet
    <2>2. eng'[c].pc = "restore"
      BY <1>2, <1>4
    <2>3. StashSound(c)'
      BY <2>2 DEF StashSound, Early, Late
    <2>4. ArchiveSound(c)'
      BY <1>2, <2>1, <2>2 DEF ArchiveSound, Early
    <2> QED
      BY <1>2, <2>1, <2>2, <2>3, <2>4 DEF CallerSound
  <1> QED
    BY <1>3, <1>4

\* An exception while the checkout stays as it is.
LEMMA QuietRaise ==
    ASSUME IInv, NEW c \in Callers, eng[c].pc \in {"snapshot"} \cup (Guarded \ {"restore"}),
           Raise(c), UNCHANGED tree
    PROVE  /\ StepOf(c) /\ CallerSound(c)' /\ eng'[c].pc \in {"restore", "failed"}
           /\ eng'[c].round = eng[c].round
  <1>1. eng[c].pc \in Guarded /\ eng[c].archive # None =>
           \A f \in Files : tree'[f].e \subseteq eng[c].archive[f].e
    BY DEF IInv, CallersSound, CallerSound, ArchiveSound
  <1> QED
    BY <1>1, RaiseStep

\* An update starts when none is running.
LEMMA StartStep ==
    ASSUME IInv, NEW c \in Callers, MayStart(c), NEW contract,
           Set(c, NewUpdate(c, contract)), UNCHANGED <<repo, made, mishaps>>
    PROVE  IInv'
  <1> DEFINE e == NewUpdate(c, contract)
  <1>1. eng[c].round \in Nat
    BY DEF IInv, TypeOK, IsEngine
  <1>2. /\ IsEngine(e) /\ e.pc = "start" /\ e.round = eng[c].round + 1 /\ e.archive = None
        /\ e.stashed = FALSE
    BY <1>1 DEF NewUpdate, Fresh, IsEngine, Fields, Early
  <1> HIDE DEF e
  <1>3. StepOf(c) /\ eng'[c] = e
    BY <1>1, <1>2, SetStep DEF e
  <1>4. UNCHANGED <<head, tracking, remote, tree, stash, made, running>> /\ eng'[c].pc \notin Guarded
    BY <1>2, <1>3 DEF repo, Guarded, Late
  <1>5. NoOwnEntry(c)'
    <2> SUFFICES ASSUME NEW i \in DOMAIN stash, stash[i].by = <<c, eng[c].round + 1>>
                 PROVE  FALSE
      BY <1>2, <1>3, <1>4 DEF NoOwnEntry, Own
    <2>1. stash[i].by[1] = c /\ stash[i].by[2] = eng[c].round + 1
      OBVIOUS
    <2>2. stash[i].by[2] <= eng[c].round
      BY <2>1 DEF IInv, StashPast
    <2> QED
      BY <1>1, <2>1, <2>2
  <1>6. CallerSound(c)'
    BY <1>1, <1>2, <1>3, <1>5
       DEF CallerSound, StashSound, ArchiveSound, Early, Late, Guarded
  <1> QED
    BY <1>1, <1>2, <1>3, <1>4, <1>6, EngineStep

\* The plan is made and judged.
LEMMA ExecuteStep ==
    ASSUME IInv, NEW c \in Callers, execute_update(c)
    PROVE  IInv'
  <1>1. /\ eng[c].pc = "start" /\ UNCHANGED <<head, tracking, remote, tree, stash, made, running, mishaps>>
        /\ eng[c].pc \notin Quiet /\ eng[c].round \in Nat /\ CallerSound(c) /\ IsEngine(eng[c])
    BY DEF execute_update, repo, Quiet, IInv, TypeOK, IsEngine, CallersSound
  <1>2. CASE Finish(c, "untouched")
    <2>1. StepOf(c) /\ eng'[c].pc = "done" /\ eng'[c].round = eng[c].round
      BY <1>2, FinishStep
    <2>2. eng'[c].pc \notin Guarded
      BY <2>1 DEF Guarded, Late
    <2> QED
      BY <1>1, <2>1, <2>2, EndedSound, EngineStep
  <1>3. ASSUME NEW plan, Set(c, [eng[c] EXCEPT !.pc = "snapshot", !.contract = None, !.plan = plan])
        PROVE  IInv'
    <2> DEFINE e == [eng[c] EXCEPT !.pc = "snapshot", !.contract = None, !.plan = plan]
    <2>1. /\ e.pc = "snapshot" /\ e.round = eng[c].round /\ e.archive = eng[c].archive
          /\ e.stashed = eng[c].stashed /\ e = [x \in Fields |-> e[x]]
      BY <1>1 DEF IsEngine, Fields
    <2>2. Set(c, e)
      BY <1>3
    <2> HIDE DEF e
    <2>3. IsEngine(e)
      BY <1>1, <2>1 DEF IsEngine, Early
    <2>4. StepOf(c) /\ eng'[c] = e
      BY <2>2, <2>3, SetStep
    <2>5. CallerSound(c)' /\ eng'[c].pc \notin Guarded
      BY <1>1, <2>1, <2>4, OwnFrame
         DEF CallerSound, StashSound, ArchiveSound, Early, Late, Guarded
    <2> QED
      BY <1>1, <2>1, <2>4, <2>5, EngineStep
  <1>4. PICK plan : \/ Finish(c, "untouched")
                    \/ Set(c, [eng[c] EXCEPT !.pc = "snapshot", !.contract = None, !.plan = plan])
    BY DEF execute_update
  <1> QED
    BY <1>2, <1>3, <1>4

\* An exception that leaves the repository alone.
LEMMA FailStep ==
    ASSUME IInv, NEW c \in Callers, eng[c].pc \in {"snapshot"} \cup (Guarded \ {"restore"}),
           Raise(c), UNCHANGED <<head, tracking, remote, tree, stash, made, mishaps>>,
           eng[c].pc = "snapshot" => UNCHANGED running
    PROVE  IInv'
  <1>1. /\ StepOf(c) /\ CallerSound(c)' /\ eng'[c].pc \in {"restore", "failed"}
        /\ eng'[c].round = eng[c].round
    BY QuietRaise
  <1>2. eng[c].pc \notin {"restore", "failed", "done"} /\ eng[c].round \in Nat
    BY DEF Guarded, Late, IInv, TypeOK, IsEngine
  <1>3. CASE eng[c].pc = "snapshot"
    <2>1. eng[c].archive = None
      BY <1>3 DEF IInv, CallersSound, CallerSound, ArchiveSound, Early
    <2>2. eng'[c].pc = "failed" /\ eng'[c].pc \notin Guarded
      <3>1. Go(c, "failed") /\ eng[c].pc \notin Quiet
        BY <1>3, <2>1 DEF Raise, Quiet
      <3>2. eng'[c].pc = "failed"
        BY <3>1, GoStep
      <3> QED
        BY <3>2 DEF Guarded, Late
    <2> QED
      BY <1>1, <1>2, <1>3, <2>2, EngineStep
  <1>4. CASE eng[c].pc \in Guarded
    BY <1>1, <1>2, <1>4, RunsAlone, EngineStep
  <1> QED
    BY <1>3, <1>4

\* The snapshot holds the working tree.
LEMMA SnapshotStep ==
    ASSUME IInv, NEW c \in Callers, create_snapshot(c), Harmless'
    PROVE  IInv'
  <1> DEFINE label == IF eng[c].plan.stash THEN "count" ELSE "fetch"
             e == [eng[c] EXCEPT !.pc = label, !.archive = tree]
  <1>1. /\ eng[c].pc = "snapshot" /\ UNCHANGED <<head, tracking, remote, tree, stash, made, running>>
        /\ IsEngine(eng[c]) /\ CallerSound(c) /\ eng[c].pc \notin Quiet /\ tree \in Trees
    BY DEF create_snapshot, repo, Quiet, IInv, TypeOK, CallersSound
  <1>2. CASE Raise(c) /\ Calm
    BY <1>1, <1>2, FailStep DEF Calm
  <1>3. CASE Set(c, e) /\ IF \E d \in Callers : Inside(d) THEN Mishap("overlap") ELSE Calm
    <2>a. Alone(c) /\ mishaps \subseteq mishaps'
      <3>1. "overlap" \notin mishaps'
        BY DEF Harmless
      <3> QED
        BY <1>3, <3>1 DEF Mishap, Calm, Alone
    <2>1. label \in {"count", "fetch"}
      OBVIOUS
    <2> HIDE DEF label
    <2>2. /\ e.pc = label /\ e.archive = tree /\ e.plan = eng[c].plan /\ e.round = eng[c].round
          /\ e.stashed = eng[c].stashed /\ e = [x \in Fields |-> e[x]]
      BY <1>1 DEF IsEngine, Fields
    <2> HIDE DEF e
    <2>3. IsEngine(e) /\ eng[c].round \in Nat
      BY <1>1, <2>1, <2>2 DEF IsEngine, Guarded
    <2>4. StepOf(c) /\ eng'[c] = e
      BY <1>1, <1>3, <2>3, SetStep
    <2>5. NoOwnEntry(c) /\ NoOwnEntry(c)' /\ ~eng[c].stashed /\ eng[c].round # 0
      BY <1>1, <2>2, <2>4, OwnFrame
         DEF CallerSound, StashSound, ArchiveSound, Early
    <2>6. StashSound(c)'
      BY <2>1, <2>2, <2>4, <2>5 DEF StashSound, Early, Late
    <2>7. ArchiveSound(c)'
      BY <1>1, <2>1, <2>2, <2>4 DEF CallerSound, ArchiveSound, Early, Guarded
    <2>8. CallerSound(c)'
      BY <2>1, <2>2, <2>4, <2>5, <2>6, <2>7 DEF CallerSound
    <2> QED
      BY <1>1, <2>a, <2>2, <2>3, <2>4, <2>8, EngineStep
  <1> QED
    BY <1>2, <1>3 DEF create_snapshot

\* A read counts the stash or, when it fails, nothing.
LEMMA ReadCounts ==
    ASSUME NEW r \in Repositories
    PROVE  r.stashes \in {0, Len(stash)}
  BY DEF Repositories, Snapshot, EmptyRepository

\* The stash is counted.
LEMMA CountStep ==
    ASSUME IInv, NEW c \in Callers, stash_count(c), Harmless'
    PROVE  IInv'
  <1>1. /\ eng[c].pc = "count" /\ UNCHANGED <<head, tracking, remote, tree, stash, made>>
        /\ IsEngine(eng[c]) /\ CallerSound(c) /\ eng[c].pc \in Guarded
    BY DEF stash_count, repo, Guarded, IInv, TypeOK, CallersSound
  <1>2. CASE Raise(c) /\ Calm
    BY <1>1, <1>2, FailStep DEF Calm, Guarded
  <1>3. ASSUME NEW r \in Repositories, Set(c, [eng[c] EXCEPT !.pc = "push", !.before = r.stashes]),
               IF r.stashes = Len(stash) THEN Calm ELSE Mishap("miscounted")
        PROVE  IInv'
    <2> DEFINE e == [eng[c] EXCEPT !.pc = "push", !.before = r.stashes]
    <2>1. r.stashes = Len(stash) /\ mishaps' = mishaps
      BY <1>3 DEF Harmless, Mishap, Calm
    <2>2. /\ e.pc = "push" /\ e.archive = eng[c].archive
          /\ e.round = eng[c].round /\ e.before = r.stashes /\ e = [x \in Fields |-> e[x]]
      BY <1>1 DEF IsEngine, Fields
    <2>3. Set(c, e)
      BY <1>3
    <2> HIDE DEF e
    <2>4. IsEngine(e) /\ eng[c].round \in Nat
      BY <1>1, <2>2 DEF IsEngine, Guarded
    <2>5. StepOf(c) /\ eng'[c] = e
      BY <2>3, <2>4, SetStep
    <2>6. NoOwnEntry(c)'
      BY <1>1, <2>2, <2>5, OwnFrame DEF CallerSound, StashSound
    <2>7. StashSound(c)'
      BY <1>1, <2>1, <2>2, <2>5, <2>6 DEF StashSound, Early, Late
    <2>8. ArchiveSound(c)'
      BY <1>1, <2>2, <2>5 DEF CallerSound, ArchiveSound, Early, Guarded
    <2>9. CallerSound(c)'
      BY <1>1, <2>2, <2>5, <2>7, <2>8 DEF CallerSound
    <2> QED
      BY <1>1, <2>1, <2>2, <2>4, <2>5, <2>9, RunsAlone, EngineStep
  <1> QED
    BY <1>2, <1>3 DEF stash_count

\* The stash is counted again: the update takes an entry for its own only when
\* it is on top, and overlooks it only when the read failed.
LEMMA RecountStep ==
    ASSUME IInv, NEW c \in Callers, stash_recount(c)
    PROVE  IInv'
  <1>1. /\ eng[c].pc = "recount" /\ UNCHANGED <<head, tracking, remote, tree, stash, made>>
        /\ IsEngine(eng[c]) /\ CallerSound(c) /\ eng[c].pc \in Guarded
    BY DEF stash_recount, repo, Guarded, IInv, TypeOK, CallersSound
  <1>2. CASE Raise(c) /\ Calm
    BY <1>1, <1>2, FailStep DEF Calm, Guarded
  <1>3. ASSUME NEW r \in Repositories,
               Set(c, [eng[c] EXCEPT !.pc = "fetch", !.before = 0, !.stashed = r.stashes > eng[c].before]),
               IF r.stashes = Len(stash) THEN Calm ELSE Mishap("unseen")
        PROVE  IInv'
    <2> DEFINE more == r.stashes > eng[c].before
               e == [eng[c] EXCEPT !.pc = "fetch", !.before = 0, !.stashed = more]
    <2>1. Len(stash) \in Nat /\ r.stashes \in {0, Len(stash)} /\ mishaps \subseteq mishaps'
          /\ (mishaps' = {} => r.stashes = Len(stash))
      <3>1. Len(stash) \in Nat
        BY DEF IInv, TypeOK
      <3>2. r.stashes \in {0, Len(stash)}
        BY ReadCounts
      <3>3. CASE r.stashes = Len(stash) /\ Calm
        BY <3>1, <3>2, <3>3 DEF Calm
      <3>4. CASE Mishap("unseen")
        <4>1. mishaps' = mishaps \cup {"unseen"}
          BY <3>4 DEF Mishap
        <4>2. mishaps' # {} /\ mishaps \subseteq mishaps'
          BY <4>1
        <4> QED
          BY <3>1, <3>2, <4>2
      <3>5. (r.stashes = Len(stash) /\ Calm) \/ Mishap("unseen")
        BY <1>3
      <3> QED
        BY <3>3, <3>4, <3>5
    <2>2. more => OwnEntryOnTop(c)
      <3>1. CASE Len(stash) = eng[c].before
        BY <2>1, <3>1
      <3>2. CASE OwnEntryOnTop(c)
        BY <3>2
      <3> QED
        BY <1>1, <3>1, <3>2 DEF CallerSound, StashSound
    <2>3. ~more /\ mishaps' = {} => NoOwnEntry(c)
      BY <1>1, <2>1 DEF CallerSound, StashSound
    <2>4. Set(c, e)
      BY <1>3
    <2> HIDE DEF more
    <2>5. /\ e.pc = "fetch" /\ e.archive = eng[c].archive
          /\ e.round = eng[c].round /\ e.stashed = more /\ e = [x \in Fields |-> e[x]]
      BY <1>1 DEF IsEngine, Fields
    <2> HIDE DEF e
    <2>6. IsEngine(e) /\ eng[c].round \in Nat
      BY <1>1, <2>5 DEF IsEngine, Guarded
    <2>7. StepOf(c) /\ eng'[c] = e
      BY <2>4, <2>6, SetStep
    <2>8. StashSound(c)'
      BY <1>1, <2>2, <2>3, <2>5, <2>7, OwnFrame DEF StashSound, Early, Late
    <2>9. ArchiveSound(c)'
      BY <1>1, <2>5, <2>7 DEF CallerSound, ArchiveSound, Early, Guarded
    <2>10. CallerSound(c)'
      BY <1>1, <2>5, <2>7, <2>8, <2>9 DEF CallerSound
    <2> QED
      BY <1>1, <2>1, <2>5, <2>6, <2>7, <2>10, RunsAlone, EngineStep
  <1> QED
    BY <1>2, <1>3 DEF stash_recount

-----------------------------------------------------------------------------
(* The Git transaction.                                                      *)

\* A new entry goes on top of the stash.
LEMMA OnTop ==
    ASSUME NEW S, NEW q \in Seq(S), NEW x \in S
    PROVE  LET t == <<x>> \o q IN
           /\ t \in Seq(S) /\ Len(t) = Len(q) + 1 /\ t[1] = x /\ t # <<>>
           /\ \A i \in DOMAIN q : i + 1 \in DOMAIN t /\ t[i + 1] = q[i]
           /\ \A i \in DOMAIN t : i # 1 => i - 1 \in DOMAIN q /\ t[i] = q[i - 1]
  <1> DEFINE t == <<x>> \o q
  <1>1. t \in Seq(S) /\ Len(t) = Len(q) + 1 /\ Len(q) \in Nat
    OBVIOUS
  <1>2. DOMAIN t = 1 .. Len(q) + 1 /\ DOMAIN q = 1 .. Len(q)
    BY <1>1
  <1>3. t[1] = x
    OBVIOUS
  <1>4. \A i \in 1 .. Len(q) + 1 : i # 1 => t[i] = q[i - 1]
    OBVIOUS
  <1> HIDE DEF t
  <1>5. \A i \in DOMAIN q : i + 1 \in 1 .. Len(q) + 1 /\ t[i + 1] = q[i]
    <2> SUFFICES ASSUME NEW i \in 1 .. Len(q)
                 PROVE  i + 1 \in 1 .. Len(q) + 1 /\ t[i + 1] = q[i]
      BY <1>2
    <2>1. i + 1 \in 1 .. Len(q) + 1 /\ i + 1 # 1 /\ (i + 1) - 1 = i
      BY <1>1
    <2> QED
      BY <1>4, <2>1
  <1>6. \A i \in DOMAIN t : i # 1 => i - 1 \in DOMAIN q /\ t[i] = q[i - 1]
    BY <1>1, <1>2, <1>4
  <1>7. t # <<>>
    BY <1>1
  <1> QED
    BY <1>1, <1>2, <1>3, <1>5, <1>6, <1>7 DEF t

\* The stash saves every edit and every version, and cleans the tree.
LEMMA PushData ==
    ASSUME IInv, conflicted = {}, NEW owner \in Owners, StashPush(owner),
           UNCHANGED <<head, made>>, First' => First,
           \A c \in Callers : eng'[c].round = eng[c].round,
           \A c \in Callers : owner[1] = c => owner[2] <= eng[c].round
    PROVE  /\ tree' \in Trees /\ stash' \in Seq(Entries)
           /\ \A f \in Files : tree'[f].e = {}
           /\ StashPast' /\ VersionsKept' /\ EditsKept'
           /\ \/ stash' = stash
              \/ /\ Len(stash') = Len(stash) + 1 /\ stash' # <<>> /\ stash'[1].by = owner
                 /\ DOMAIN stash'[1].files \subseteq Files
                 /\ \A f \in DOMAIN stash'[1].files : stash'[1].files[f] = tree[f]
                 /\ \A i \in DOMAIN stash' : i # 1 => i - 1 \in DOMAIN stash /\ stash'[i] = stash[i - 1]
  <1> DEFINE x == Entry(owner)
  <1>1. TypeOK /\ StashPast /\ VersionsKept /\ EditsKept /\ head \in Commits
    BY DEF IInv, TypeOK
  <1>2. /\ x \in Entries /\ Dirty \subseteq Files /\ x.by = owner /\ x.base = head
        /\ DOMAIN x.files = Dirty /\ \A f \in Dirty : x.files[f] = tree[f]
    BY <1>1, StashedEntry
  <1>3. tree' = AtCommit(head) /\ stash' = IF Dirty = {} THEN stash ELSE <<x>> \o stash
    BY DEF StashPush
  <1> HIDE DEF x
  <1>4. /\ tree' \in Trees
        /\ \A f \in Files : tree'[f].e = {} /\ tree'[f].v = Version(f, head)
    BY <1>1, <1>3, CheckedOut
  <1>5. ASSUME NEW f \in Files, tree[f].e # {}
        PROVE  f \in Dirty
    BY <1>1, <1>5, EditedIsDirty
  <1>6. CASE Dirty = {}
    <2>1. stash' = stash
      BY <1>3, <1>6
    <2>2. EditsKept'
      <3>1. \A y \in made : ~EditedIn(tree, y)
        BY <1>1, <1>5, <1>6 DEF EditedIn, TypeOK, Trees
      <3> QED
        BY <1>1, <2>1, <3>1 DEF EditsKept, EditedIn
    <2>3. StashPast' /\ VersionsKept'
      BY <1>1, <1>4, <2>1 DEF StashPast, VersionsKept
    <2> QED
      BY <1>1, <1>4, <2>1, <2>2, <2>3 DEF TypeOK
  <1>7. CASE Dirty # {}
    <2>1. /\ stash' \in Seq(Entries) /\ Len(stash') = Len(stash) + 1 /\ stash'[1] = x /\ stash' # <<>>
          /\ \A i \in DOMAIN stash : i + 1 \in DOMAIN stash' /\ stash'[i + 1] = stash[i]
          /\ \A i \in DOMAIN stash' : i # 1 => i - 1 \in DOMAIN stash /\ stash'[i] = stash[i - 1]
      BY <1>1, <1>2, <1>3, <1>7, OnTop DEF TypeOK
    <2>2. EditsKept'
      <3> SUFFICES ASSUME NEW y \in made
                   PROVE  \E i \in DOMAIN stash' : EditedIn(stash'[i].files, y)
        BY DEF EditsKept, EditedIn
      <3>1. CASE EditedIn(tree, y)
        <4>1. PICK f \in Files : y \in tree[f].e
          BY <1>1, <3>1 DEF EditedIn, TypeOK, Trees
        <4>2. f \in Dirty
          BY <1>5, <4>1
        <4>3. 1 \in DOMAIN stash' /\ EditedIn(stash'[1].files, y)
          BY <1>2, <2>1, <4>1, <4>2 DEF EditedIn
        <4> QED
          BY <4>3
      <3>2. CASE \E i \in DOMAIN stash : EditedIn(stash[i].files, y)
        BY <2>1, <3>2 DEF EditedIn
      <3> QED
        BY <1>1, <3>1, <3>2 DEF EditsKept
    <2>3. StashPast'
      <3> SUFFICES ASSUME NEW i \in DOMAIN stash'
                   PROVE  /\ stash'[i].base <= head
                          /\ \A c \in Callers : stash'[i].by[1] = c => stash'[i].by[2] <= eng[c].round
        BY DEF StashPast
      <3>1. CASE i = 1
        <4>1. head <= head
          BY <1>1, UpdateConstants DEF Commits
        <4> QED
          BY <1>2, <2>1, <3>1, <4>1
      <3>2. CASE i # 1
        BY <1>1, <2>1, <3>2 DEF StashPast
      <3> QED
        BY <3>1, <3>2
    <2>4. VersionsKept'
      <3> SUFFICES ASSUME First, NEW i \in DOMAIN stash', NEW f \in DOMAIN stash'[i].files
                   PROVE  stash'[i].files[f].v = Version(f, stash'[i].base)
        BY <1>4 DEF VersionsKept
      <3>1. CASE i = 1
        BY <1>1, <1>2, <2>1, <3>1 DEF VersionsKept
      <3>2. CASE i # 1
        BY <1>1, <2>1, <3>2 DEF VersionsKept
      <3> QED
        BY <3>1, <3>2
    <2> QED
      BY <1>2, <1>4, <2>1, <2>2, <2>3, <2>4
  <1> QED
    BY <1>6, <1>7

\* A step of an update that changes the repository.
LEMMA RepoStep ==
    ASSUME IInv, NEW c \in Callers, eng[c].pc \in Guarded, StepOf(c), CallerSound(c)',
           mishaps \subseteq mishaps', \A d \in Callers \ {c} : NoOwnEntry(d) => NoOwnEntry(d)',
           {head', tracking', remote'} \subseteq Commits, head' <= remote', tree' \in Trees,
           stash' \in Seq(Entries), made' \subseteq Edits, StashPast', VersionsKept', EditsKept'
    PROVE  IInv'
  <1>1. TypeOK'
    BY DEF TypeOK, StepOf
  <1> QED
    BY <1>1, RunsAlone, OthersSound DEF IInv

\* The others' entries, while the stash stays as it is.
LEMMA OthersEntries ==
    ASSUME NEW c \in Callers, StepOf(c), UNCHANGED stash
    PROVE  \A d \in Callers \ {c} : NoOwnEntry(d) => NoOwnEntry(d)'
  BY DEF StepOf, NoOwnEntry, Own

\* Local work goes on the stash.
LEMMA PushStep ==
    ASSUME IInv, NEW c \in Callers, push_stash(c)
    PROVE  IInv'
  <1>1. /\ eng[c].pc = "push" /\ UNCHANGED <<head, tracking, remote, made, mishaps>>
        /\ CallerSound(c) /\ eng[c].pc \notin Quiet /\ eng[c].round \in Nat /\ TypeOK
        /\ Len(stash) \in Nat /\ eng[c].pc \in Guarded
    BY DEF push_stash, Quiet, IInv, TypeOK, IsEngine, CallersSound, Guarded
  <1>2. CASE UNCHANGED <<tree, stash>> /\ Raise(c)
    BY <1>1, <1>2, FailStep DEF Guarded
  <1>3. CASE conflicted = {} /\ shape # "no_git" /\ StashPush(Own(c)) /\ Go(c, "recount")
    <2>1. /\ StepOf(c) /\ eng'[c].pc = "recount" /\ eng'[c].round = eng[c].round
          /\ eng'[c].plan = eng[c].plan /\ eng'[c].before = eng[c].before
          /\ eng'[c].archive = eng[c].archive
      BY <1>1, <1>3, GoStep DEF Guarded
    <2>2. Own(c) \in Owners /\ \A d \in Callers : Own(c)[1] = d => Own(c)[2] <= eng[d].round
      BY <1>1 DEF Own, Owners
    <2>3. First' => First
      BY <1>1, <2>1, FirstBack
    <2>4. \A d \in Callers : eng'[d].round = eng[d].round
      BY <2>1 DEF StepOf
    <2>5. /\ tree' \in Trees /\ stash' \in Seq(Entries)
          /\ \A f \in Files : tree'[f].e = {}
          /\ StashPast' /\ VersionsKept' /\ EditsKept'
          /\ \/ stash' = stash
             \/ /\ Len(stash') = Len(stash) + 1 /\ stash' # <<>> /\ stash'[1].by = Own(c)
                /\ DOMAIN stash'[1].files \subseteq Files
                /\ \A f \in DOMAIN stash'[1].files : stash'[1].files[f] = tree[f]
                /\ \A i \in DOMAIN stash' : i # 1 => i - 1 \in DOMAIN stash /\ stash'[i] = stash[i - 1]
      BY <1>1, <1>3, <2>2, <2>3, <2>4, PushData
    <2>6. NoOwnEntry(c) /\ eng[c].before = Len(stash) /\ eng[c].round # 0
      BY <1>1, <1>3 DEF CallerSound, StashSound
    <2>7. StashSound(c)'
      <3>1. CASE stash' = stash
        <4>1. NoOwnEntry(c)'
          BY <2>1, <2>6, <3>1, OwnFrame
        <4> QED
          BY <1>1, <1>3, <2>1, <2>6, <3>1, <4>1 DEF StashSound, Early, Late
      <3>2. CASE stash' # stash
        <4>1. OwnEntryOnTop(c)'
          <5>1. \A i \in DOMAIN stash' : i # 1 => stash'[i].by # Own(c)
            BY <2>5, <2>6, <3>2 DEF NoOwnEntry
          <5>2. eng[c].archive # None => \A f \in DOMAIN stash'[1].files :
                   stash'[1].files[f].e \subseteq eng[c].archive[f].e
            BY <1>1, <2>5, <3>2 DEF CallerSound, ArchiveSound, Guarded
          <5>3. Own(c)' = Own(c)
            BY <2>1 DEF Own
          <5> QED
            BY <2>1, <2>5, <3>2, <5>1, <5>2, <5>3 DEF OwnEntryOnTop
        <4>2. Len(stash') > eng[c].before
          BY <1>1, <2>5, <2>6, <3>2
        <4> QED
          BY <1>1, <1>3, <2>1, <4>1, <4>2 DEF StashSound, Early, Late
      <3> QED
        BY <3>1, <3>2
    <2>8. ArchiveSound(c)'
      BY <1>1, <2>1, <2>5 DEF CallerSound, ArchiveSound, Early, Guarded
    <2>9. CallerSound(c)'
      BY <2>1, <2>6, <2>7, <2>8 DEF CallerSound
    <2>10. \A d \in Callers \ {c} : NoOwnEntry(d) => NoOwnEntry(d)'
      <3> SUFFICES ASSUME NEW d \in Callers \ {c}, NoOwnEntry(d)
                   PROVE  \A i \in DOMAIN stash' : stash'[i].by # Own(d)
        BY <2>1 DEF StepOf, NoOwnEntry, Own
      <3>1. Own(c) # Own(d)
        BY DEF Own
      <3> QED
        BY <2>5, <3>1 DEF NoOwnEntry
    <2> QED
      BY <1>1, <2>1, <2>5, <2>9, <2>10, RepoStep DEF TypeOK
  <1> QED
    BY <1>2, <1>3 DEF push_stash

\* Steps that leave the checkout and the stash alone.
LEMMA DataFrame ==
    ASSUME IInv, NEW c \in Callers, StepOf(c), eng'[c].round = eng[c].round,
           eng[c].pc \notin {"restore", "failed", "done"}, UNCHANGED <<head, tree, stash, made>>
    PROVE  StashPast' /\ VersionsKept' /\ EditsKept'
  <1>1. \A d \in Callers : eng'[d].round = eng[d].round
    BY DEF StepOf
  <1>2. First' => First
    BY FirstBack DEF IInv, TypeOK, IsEngine
  <1> QED
    BY <1>1, <1>2 DEF IInv, StashPast, VersionsKept, EditsKept, EditedIn

\* The remote branch is fetched.
LEMMA FetchStep ==
    ASSUME IInv, NEW c \in Callers, fetch(c)
    PROVE  IInv'
  <1>1. /\ eng[c].pc = "fetch" /\ UNCHANGED <<head, remote, tree, stash, made, mishaps>>
        /\ CallerSound(c) /\ eng[c].pc \notin Quiet /\ TypeOK /\ eng[c].pc \in Guarded
    BY DEF fetch, Quiet, IInv, CallersSound, Guarded
  <1>2. CASE UNCHANGED tracking /\ Raise(c)
    BY <1>1, <1>2, FailStep DEF Guarded
  <1>3. CASE tracking' \in {tracking, remote} /\ Go(c, "pull")
    <2>1. /\ StepOf(c) /\ eng'[c].pc = "pull" /\ eng'[c].round = eng[c].round
          /\ eng'[c].plan = eng[c].plan /\ eng'[c].stashed = eng[c].stashed
          /\ eng'[c].archive = eng[c].archive
      BY <1>1, <1>3, GoStep DEF Guarded
    <2>2. StashSound(c)'
      BY <1>1, <2>1, OwnFrame DEF CallerSound, StashSound, Early, Late
    <2>3. ArchiveSound(c)'
      BY <1>1, <2>1 DEF CallerSound, ArchiveSound, Early, Guarded
    <2>4. CallerSound(c)'
      BY <1>1, <2>1, <2>2, <2>3 DEF CallerSound
    <2>5. StashPast' /\ VersionsKept' /\ EditsKept'
      BY <1>1, <2>1, DataFrame
    <2> QED
      BY <1>1, <1>3, <2>1, <2>4, <2>5, OthersEntries, RepoStep DEF TypeOK
  <1> QED
    BY <1>2, <1>3 DEF fetch

\* A pull moves a clean checkout to the remote tip.
LEMMA PullStep ==
    ASSUME IInv, NEW c \in Callers, pull(c)
    PROVE  IInv'
  <1> DEFINE label == AfterPull(c)
  <1>1. /\ eng[c].pc = "pull" /\ UNCHANGED <<remote, stash, made, mishaps>>
        /\ CallerSound(c) /\ eng[c].pc \notin Quiet /\ TypeOK /\ eng[c].round # 0
        /\ remote \in Commits /\ eng[c].pc \in Guarded
    BY DEF pull, Quiet, IInv, CallersSound, CallerSound, TypeOK, Guarded
  <1>2. CASE Raise(c) /\ UNCHANGED <<head, tracking, tree>>
    BY <1>1, <1>2, FailStep DEF Guarded
  <1>3. label = (IF eng[c].stashed THEN "apply" ELSE "runtime")
    BY DEF AfterPull
  <1> HIDE DEF label
  <1>4. ASSUME Go(c, label), \A f \in Files : tree'[f].e \subseteq tree[f].e
        PROVE  StepOf(c) /\ CallerSound(c)' /\ eng'[c].round = eng[c].round
    <2>1. /\ StepOf(c) /\ eng'[c].pc = label /\ eng'[c].round = eng[c].round
          /\ eng'[c].stashed = eng[c].stashed /\ eng'[c].archive = eng[c].archive
      BY <1>1, <1>3, <1>4, GoStep DEF Guarded, Late
    <2>2. StashSound(c)'
      BY <1>1, <1>3, <2>1, OwnFrame DEF CallerSound, StashSound, Early, Late
    <2>3. ArchiveSound(c)'
      BY <1>1, <1>3, <1>4, <2>1 DEF CallerSound, ArchiveSound, Early, Guarded
    <2> QED
      BY <1>1, <1>3, <2>1, <2>2, <2>3 DEF CallerSound
  <1>5. CASE Go(c, label) /\ UNCHANGED <<head, tracking, tree>>
    <2>1. StepOf(c) /\ CallerSound(c)' /\ eng'[c].round = eng[c].round
      BY <1>4, <1>5
    <2>2. StashPast' /\ VersionsKept' /\ EditsKept'
      BY <1>1, <1>5, <2>1, DataFrame
    <2> QED
      BY <1>1, <1>5, <2>1, <2>2, OthersEntries, RepoStep DEF TypeOK
  <1>6. CASE /\ Dirty = {} /\ Go(c, label)
             /\ head' = remote /\ tracking' = remote /\ tree' = AtCommit(remote)
    <2>1. /\ tree' \in Trees /\ \A f \in Files : tree'[f].e = {} /\ tree'[f].v = Version(f, remote)
      BY <1>1, <1>6, CheckedOut
    <2>2. StepOf(c) /\ CallerSound(c)' /\ eng'[c].round = eng[c].round
      BY <1>4, <1>6, <2>1
    <2>3. EditsKept'
      <3>1. \A f \in Files : tree[f].e = {}
        BY <1>1, <1>6, EditedIsDirty
      <3>2. \A x \in made : ~EditedIn(tree, x)
        BY <1>1, <3>1 DEF EditedIn, TypeOK, Trees
      <3> QED
        BY <1>1, <3>2 DEF IInv, EditsKept, EditedIn
    <2>4. StashPast'
      <3> SUFFICES ASSUME NEW i \in DOMAIN stash
                   PROVE  /\ stash[i].base <= remote
                          /\ \A d \in Callers : stash[i].by[1] = d => stash[i].by[2] <= eng'[d].round
        BY <1>1, <1>6 DEF StashPast
      <3>1. stash[i].base <= head /\ stash[i].base \in Commits /\ head \in Commits /\ head <= remote
        BY <1>1, EntryFiles DEF IInv, StashPast, TypeOK
      <3>2. stash[i].base <= remote
        BY <1>1, <3>1, UpdateConstants DEF Commits
      <3> QED
        BY <2>2, <3>2 DEF IInv, StashPast, StepOf
    <2>5. VersionsKept'
      <3>1. First' => First
        BY <1>1, <2>2, FirstBack DEF IInv, TypeOK, IsEngine
      <3> QED
        BY <1>1, <1>6, <2>1, <3>1 DEF IInv, VersionsKept
    <2>6. remote <= remote
      BY <1>1, UpdateConstants DEF Commits
    <2> QED
      BY <1>1, <1>6, <2>1, <2>2, <2>3, <2>4, <2>5, <2>6, OthersEntries, RepoStep DEF TypeOK
  <1> QED
    BY <1>2, <1>5, <1>6 DEF pull, label

\* What applying the newest entry does to the tree.
LEMMA AppliedData ==
    ASSUME IInv, stash # <<>>, NEW s, s = stash[1], ~ApplyRefused(s)
    PROVE  /\ Applied(s) \in Trees
           /\ \A f \in Files : Applied(s)[f].e = tree[f].e
                                  \/ (f \in DOMAIN s.files /\ Applied(s)[f].e = s.files[f].e /\ tree[f].e = {})
           /\ \A f \in DOMAIN s.files \ Blocked(s) : Applied(s)[f].e = s.files[f].e
           /\ First => \A f \in Files : Applied(s)[f].v = Version(f, head)
  <1>1. TypeOK /\ 1 \in DOMAIN stash /\ head \in Commits /\ tree \in [Files -> Contents]
    BY DEF IInv, TypeOK, Trees
  <1>2. /\ s \in Entries /\ s.base \in Commits /\ DOMAIN s.files \subseteq Files /\ s.base <= head
        /\ \A f \in DOMAIN s.files : s.files[f] \in Contents
        /\ First => \A f \in DOMAIN s.files : s.files[f].v = Version(f, s.base)
    BY <1>1, EntryFiles DEF IInv, StashPast, VersionsKept
  <1> DEFINE t == Applied(s)
  <1>3. ASSUME NEW f \in Files, f \notin DOMAIN s.files \ Blocked(s)
        PROVE  t[f] = tree[f]
    BY <1>3 DEF Applied
  <1>4. ASSUME NEW f \in DOMAIN s.files \ Blocked(s)
        PROVE  /\ f \in Files /\ t[f] \in Contents /\ t[f].e = s.files[f].e /\ tree[f].e = {}
               /\ First => t[f].v = Version(f, head)
    <2>1. f \in Files /\ tree[f] \in Contents /\ s.files[f] \in Contents
      BY <1>1, <1>2
    <2> DEFINE v == IF f \in Moved(s) THEN tree[f].v ELSE s.files[f].v
               e == s.files[f].e
    <2>2. v \in {Absent} \cup Commits /\ e \in SUBSET Edits
      BY <2>1 DEF Contents
    <2>3. t[f] = [v |-> v, e |-> e]
      BY <2>1 DEF Applied
    <2> HIDE DEF v, e, t
    <2>4. t[f] \in Contents /\ t[f].v = v /\ t[f].e = e
      BY <2>2, <2>3 DEF Contents
    <2>5. CASE WasTracked(s, f)
      <3>1. Tracked(f) /\ f \notin Modified
        BY <1>1, <1>2, <2>1, <2>5, TrackedStays DEF ApplyRefused, WasTracked, Tracked
      <3>2. tree[f] = AtCommit(head)[f]
        BY <2>1, <3>1 DEF Modified
      <3>3. tree[f].e = {} /\ tree[f].v = Version(f, head)
        BY <1>1, <2>1, <3>2, CheckedOut
      <3>4. First => v = Version(f, head)
        BY <1>2, <2>5, <3>3 DEF v, Moved
      <3> QED
        BY <2>1, <2>4, <3>3, <3>4 DEF e
    <2>6. CASE ~WasTracked(s, f)
      <3>1. ~Exists(tree[f])
        BY <2>6 DEF Blocked
      <3>2. tree[f].e = {} /\ tree[f].v = Absent
        BY <3>1 DEF Exists
      <3>3. First => v = Version(f, head)
        <4>1. First => tree[f].v = Version(f, head)
          BY <2>1 DEF IInv, VersionsKept
        <4>2. First => s.files[f].v = Absent
          BY <1>2, <2>6 DEF WasTracked
        <4> QED
          BY <3>2, <4>1, <4>2 DEF v
      <3> QED
        BY <2>1, <2>4, <3>2, <3>3 DEF e
    <2> QED
      BY <2>5, <2>6
  <1>5. t \in Trees
    <2>1. t = [f \in Files |-> t[f]]
      BY DEF Applied
    <2> HIDE DEF t
    <2>2. \A f \in Files : t[f] \in Contents
      BY <1>1, <1>3, <1>4
    <2> QED
      BY <2>1, <2>2 DEF Trees
  <1>6. First => \A f \in Files : tree[f].v = Version(f, head)
    BY DEF IInv, VersionsKept
  <1> HIDE DEF t
  <1> QED
    BY <1>3, <1>4, <1>5, <1>6 DEF t

\* The update's own entry is applied, wholly or in part.
LEMMA ApplyStep ==
    ASSUME IInv, NEW c \in Callers, apply_stash(c)
    PROVE  IInv'
  <1> DEFINE s == stash[1]
  <1>1. /\ eng[c].pc = "apply" /\ UNCHANGED <<head, tracking, remote, stash, made, mishaps>>
        /\ CallerSound(c) /\ eng[c].pc \notin Quiet /\ TypeOK /\ eng[c].round # 0
        /\ eng[c].round \in Nat /\ eng[c].pc \in Guarded
    BY DEF apply_stash, Quiet, IInv, CallersSound, CallerSound, TypeOK, IsEngine, Guarded
  <1>2. CASE UNCHANGED <<tree, conflicted>> /\ Raise(c)
    BY <1>1, <1>2, FailStep DEF Guarded
  <1>3. ASSUME stash # <<>>, ~ApplyRefused(s), NEW clash, tree' = Applied(s),
               IF clash \cup Blocked(s) = {} THEN Go(c, "drop") ELSE Raise(c)
        PROVE  IInv'
    <2>1. /\ tree' \in Trees
          /\ \A f \in Files : tree'[f].e = tree[f].e
                                 \/ (f \in DOMAIN s.files /\ tree'[f].e = s.files[f].e /\ tree[f].e = {})
          /\ \A f \in DOMAIN s.files \ Blocked(s) : tree'[f].e = s.files[f].e
          /\ First => \A f \in Files : tree'[f].v = Version(f, head)
      BY <1>3, AppliedData
    <2> HIDE DEF s
    <2>2. /\ OwnEntryOnTop(c)
          /\ eng[c].archive # None => /\ eng[c].archive \in Trees
                                      /\ \A f \in Files : tree'[f].e \subseteq eng[c].archive[f].e
      BY <1>1, <2>1 DEF CallerSound, StashSound, ArchiveSound, OwnEntryOnTop, Guarded, s
    <2>3. EditsKept'
      <3> SUFFICES ASSUME NEW x \in made, EditedIn(tree, x)
                   PROVE  EditedIn(tree', x)
        BY <1>1 DEF IInv, EditsKept, EditedIn
      <3>1. PICK f \in Files : x \in tree[f].e
        BY <1>1 DEF EditedIn, TypeOK, Trees
      <3>2. x \in tree'[f].e
        BY <2>1, <3>1
      <3> QED
        BY <2>1, <3>2 DEF EditedIn, Trees
    <2>4. /\ StepOf(c) /\ CallerSound(c)' /\ eng'[c].round = eng[c].round
      <3>1. CASE clash \cup Blocked(s) = {}
        <4>1. /\ StepOf(c) /\ eng'[c].pc = "drop" /\ eng'[c].round = eng[c].round
              /\ eng'[c].archive = eng[c].archive
          BY <1>1, <1>3, <3>1, GoStep DEF Guarded
        <4>2. \A f \in DOMAIN s.files : s.files[f].e \subseteq tree'[f].e
          BY <2>1, <3>1
        <4>3. OwnEntryOnTop(c)'
          BY <1>1, <2>2, <4>1, OwnFrame
        <4>4. StashSound(c)'
          BY <1>1, <4>1, <4>2, <4>3 DEF StashSound, Early, Late, s
        <4>5. ArchiveSound(c)'
          BY <2>2, <4>1 DEF ArchiveSound, Early
        <4> QED
          BY <1>1, <4>1, <4>4, <4>5 DEF CallerSound
      <3>2. CASE clash \cup Blocked(s) # {}
        BY <1>1, <1>3, <2>2, <3>2, RaiseStep DEF Guarded
      <3> QED
        BY <3>1, <3>2
    <2>5. First' => First
      BY <1>1, <2>4, FirstBack
    <2>6. VersionsKept'
      BY <1>1, <2>1, <2>5 DEF IInv, VersionsKept
    <2>7. StashPast'
      BY <1>1, <2>4 DEF IInv, StashPast, StepOf
    <2> QED
      BY <1>1, <2>1, <2>3, <2>4, <2>6, <2>7, OthersEntries, RepoStep DEF TypeOK
  <1>4. stash # <<>> => Head(stash) = s
    BY <1>1 DEF TypeOK
  <1> QED
    BY <1>2, <1>3, <1>4 DEF apply_stash

\* The older entries.
LEMMA Older ==
    ASSUME NEW S, NEW q \in Seq(S), q # <<>>
    PROVE  /\ Tail(q) \in Seq(S) /\ 1 \in DOMAIN q
           /\ \A i \in DOMAIN Tail(q) : i + 1 \in DOMAIN q /\ i + 1 # 1 /\ Tail(q)[i] = q[i + 1]
           /\ \A i \in DOMAIN q : i # 1 => i - 1 \in DOMAIN Tail(q) /\ Tail(q)[i - 1] = q[i]
  <1> DEFINE t == Tail(q)
  <1>1. t \in Seq(S) /\ Len(t) = Len(q) - 1 /\ Len(q) \in Nat /\ Len(q) > 0
    OBVIOUS
  <1>2. DOMAIN t = 1 .. Len(q) - 1 /\ DOMAIN q = 1 .. Len(q)
    BY <1>1
  <1>3. \A i \in 1 .. Len(q) - 1 : t[i] = q[i + 1]
    OBVIOUS
  <1> HIDE DEF t
  <1>4. \A i \in DOMAIN t : i + 1 \in DOMAIN q /\ i + 1 # 1 /\ t[i] = q[i + 1]
    BY <1>1, <1>2, <1>3
  <1>5. ASSUME NEW i \in DOMAIN q, i # 1
        PROVE  i - 1 \in DOMAIN t /\ t[i - 1] = q[i]
    <2>1. i - 1 \in 1 .. Len(q) - 1 /\ (i - 1) + 1 = i
      BY <1>1, <1>2, <1>5
    <2> QED
      BY <1>2, <1>3, <2>1
  <1>6. 1 \in DOMAIN q
    BY <1>1, <1>2
  <1> QED
    BY <1>1, <1>4, <1>5, <1>6 DEF t

\* The update's own entry, now in the tree, is dropped.
LEMMA DropStep ==
    ASSUME IInv, NEW c \in Callers, drop_stash(c)
    PROVE  IInv'
  <1>1. /\ eng[c].pc = "drop" /\ UNCHANGED <<head, tracking, remote, tree, made, mishaps>>
        /\ CallerSound(c) /\ eng[c].pc \notin Quiet /\ TypeOK /\ eng[c].round # 0
        /\ eng[c].round \in Nat /\ eng[c].pc \in Guarded
    BY DEF drop_stash, Quiet, IInv, CallersSound, CallerSound, TypeOK, IsEngine, Guarded
  <1>2. CASE UNCHANGED stash /\ Raise(c)
    BY <1>1, <1>2, FailStep DEF Guarded
  <1>3. CASE stash # <<>> /\ stash' = Tail(stash) /\ Go(c, "runtime")
    <2>1. /\ StepOf(c) /\ eng'[c].pc = "runtime" /\ eng'[c].round = eng[c].round
          /\ eng'[c].archive = eng[c].archive
      BY <1>1, <1>3, GoStep DEF Guarded, Late
    <2>2. /\ stash' \in Seq(Entries) /\ 1 \in DOMAIN stash
          /\ \A i \in DOMAIN stash' : i + 1 \in DOMAIN stash /\ i + 1 # 1 /\ stash'[i] = stash[i + 1]
          /\ \A i \in DOMAIN stash : i # 1 => i - 1 \in DOMAIN stash' /\ stash'[i - 1] = stash[i]
      BY <1>1, <1>3, Older DEF TypeOK
    <2>3. /\ OwnEntryOnTop(c)
          /\ \A f \in DOMAIN stash[1].files : stash[1].files[f].e \subseteq tree[f].e
      BY <1>1 DEF CallerSound, StashSound
    <2>4. NoOwnEntry(c)'
      <3>1. \A i \in DOMAIN stash' : stash'[i].by # Own(c)
        BY <2>2, <2>3 DEF OwnEntryOnTop
      <3>2. Own(c)' = Own(c)
        BY <2>1 DEF Own
      <3> QED
        BY <3>1, <3>2 DEF NoOwnEntry
    <2>5. EditsKept'
      <3> SUFFICES ASSUME NEW x \in made, NEW i \in DOMAIN stash, EditedIn(stash[i].files, x)
                   PROVE  \/ EditedIn(tree, x)
                          \/ \E j \in DOMAIN stash' : EditedIn(stash'[j].files, x)
        BY <1>1 DEF IInv, EditsKept, EditedIn
      <3>1. CASE i = 1
        <4>1. DOMAIN stash[1].files \subseteq Files
          BY <1>1, <2>2, EntryFiles
        <4> QED
          BY <1>1, <2>3, <3>1, <4>1 DEF EditedIn, TypeOK, Trees
      <3>2. CASE i # 1
        BY <2>2, <3>2
      <3> QED
        BY <3>1, <3>2
    <2>6. StashSound(c)'
      BY <2>1, <2>4 DEF StashSound, Early, Late
    <2>7. ArchiveSound(c)'
      BY <1>1, <2>1 DEF CallerSound, ArchiveSound, Early, Guarded
    <2>8. CallerSound(c)'
      BY <1>1, <2>1, <2>6, <2>7 DEF CallerSound
    <2>9. First' => First
      BY <1>1, <2>1, FirstBack
    <2>10. VersionsKept'
      BY <1>1, <2>2, <2>9 DEF IInv, VersionsKept
    <2>11. StashPast'
      BY <1>1, <2>1, <2>2 DEF IInv, StashPast, StepOf
    <2>12. \A d \in Callers \ {c} : NoOwnEntry(d) => NoOwnEntry(d)'
      BY <2>1, <2>2 DEF StepOf, NoOwnEntry, Own
    <2> QED
      BY <1>1, <2>1, <2>2, <2>5, <2>8, <2>10, <2>11, <2>12, RepoStep DEF TypeOK
  <1> QED
    BY <1>2, <1>3 DEF drop_stash

-----------------------------------------------------------------------------
(* The rest of an update.                                                    *)

\* An update goes on to one of its last steps.
LEMMA LateStep ==
    ASSUME IInv, NEW c \in Callers, eng[c].pc \in Late, NEW label \in {"verify", "audit"},
           Go(c, label), running' = tree,
           UNCHANGED <<head, tracking, remote, tree, stash, made, mishaps>>
    PROVE  IInv'
  <1>1. /\ CallerSound(c) /\ eng[c].pc \notin Quiet /\ eng[c].round # 0 /\ eng[c].round \in Nat
        /\ eng[c].pc \in Guarded
    BY DEF Late, Quiet, IInv, CallersSound, CallerSound, TypeOK, IsEngine, Guarded
  <1>2. /\ StepOf(c) /\ eng'[c].pc = label /\ eng'[c].round = eng[c].round
        /\ eng'[c].archive = eng[c].archive
    BY <1>1, GoStep DEF Guarded, Late
  <1>3. mishaps = {} => NoOwnEntry(c)'
    BY <1>1, <1>2, OwnFrame DEF CallerSound, StashSound
  <1>4. StashSound(c)'
    BY <1>2, <1>3 DEF StashSound, Early, Late
  <1>5. ArchiveSound(c)'
    BY <1>1, <1>2 DEF CallerSound, ArchiveSound, Early, Guarded
  <1>6. CallerSound(c)'
    BY <1>1, <1>2, <1>4, <1>5 DEF CallerSound
  <1> QED
    BY <1>1, <1>2, <1>6, RunsAlone, EngineStep DEF Late

\* The services are started from the tree.
LEMMA RuntimeStep ==
    ASSUME IInv, NEW c \in Callers, execute_runtime(c)
    PROVE  IInv'
  <1>1. eng[c].pc = "runtime" /\ UNCHANGED <<head, tracking, remote, tree, stash, made, mishaps>>
    BY DEF execute_runtime
  <1>2. CASE Raise(c)
    BY <1>1, <1>2, FailStep DEF Guarded, Late
  <1>3. CASE running' = tree /\ Go(c, "verify")
    BY <1>1, <1>3, LateStep DEF Late
  <1> QED
    BY <1>2, <1>3 DEF execute_runtime

\* The result is verified.
LEMMA VerifyStep ==
    ASSUME IInv, NEW c \in Callers, verify_update(c)
    PROVE  IInv'
  <1>1. /\ eng[c].pc = "verify" /\ UNCHANGED <<head, tracking, remote, tree, stash, made, running, mishaps>>
        /\ CallerSound(c)
    BY DEF verify_update, repo, IInv, CallersSound
  <1>2. CASE Raise(c)
    BY <1>1, <1>2, FailStep DEF Guarded, Late
  <1>3. CASE Go(c, "audit")
    BY <1>1, <1>3, LateStep DEF Late, CallerSound
  <1> QED
    BY <1>2, <1>3 DEF verify_update

\* The success is audited and reported.
LEMMA SuccessStep ==
    ASSUME IInv, NEW c \in Callers, write_success(c)
    PROVE  IInv'
  <1>1. /\ eng[c].pc = "audit" /\ UNCHANGED <<head, tracking, remote, tree, stash, made, running, mishaps>>
        /\ eng[c].pc \notin Quiet /\ eng[c].round \in Nat
    BY DEF write_success, repo, Quiet, IInv, TypeOK, IsEngine
  <1>2. CASE Raise(c)
    BY <1>1, <1>2, FailStep DEF Guarded, Late
  <1>3. CASE Finish(c, "success")
    <2>1. StepOf(c) /\ eng'[c].pc = "done" /\ eng'[c].round = eng[c].round
      BY <1>3, FinishStep
    <2>2. eng'[c].pc \notin Guarded
      BY <2>1 DEF Guarded, Late
    <2> QED
      BY <1>1, <2>1, <2>2, EndedSound, EngineStep
  <1> QED
    BY <1>2, <1>3 DEF write_success

\* The failure is audited, or not, and reported.
LEMMA FailureStep ==
    ASSUME IInv, NEW c \in Callers, write_failed(c)
    PROVE  IInv'
  <1>1. /\ eng[c].pc = "failed" /\ UNCHANGED <<head, tracking, remote, tree, stash, made, running, mishaps>>
        /\ eng[c].pc \notin Quiet /\ eng[c].round \in Nat
    BY DEF write_failed, repo, Quiet, IInv, TypeOK, IsEngine
  <1>2. Finish(c, "failed")
    BY DEF write_failed
  <1>3. StepOf(c) /\ eng'[c].pc = "done" /\ eng'[c].round = eng[c].round
    BY <1>2, FinishStep
  <1>4. eng'[c].pc \notin Guarded
    BY <1>3 DEF Guarded, Late
  <1> QED
    BY <1>1, <1>3, <1>4, EndedSound, EngineStep

\* The archive is put back over the tree, as far as it gets.
LEMMA RestoreStep ==
    ASSUME IInv, NEW c \in Callers, restore(c), Harmless'
    PROVE  IInv'
  <1> DEFINE a == eng[c].archive
  <1>1. /\ eng[c].pc = "restore" /\ UNCHANGED <<head, tracking, remote, stash, made>>
        /\ CallerSound(c) /\ eng[c].pc \notin Quiet /\ TypeOK /\ Go(c, "failed")
        /\ eng[c].pc \in Guarded
    BY DEF restore, Quiet, IInv, CallersSound, Guarded
  <1>2. a \in Trees /\ \A f \in Files : tree[f].e \subseteq a[f].e
    BY <1>1 DEF CallerSound, ArchiveSound, Guarded
  <1>a. "torn" \notin mishaps'
    BY DEF Harmless
  <1>3. PICK done : tree' = [f \in Files |-> IF f \in done THEN a[f] ELSE tree[f]] /\ mishaps' = mishaps
    BY <1>a DEF restore, Restored, Mishap, Calm
  <1> HIDE DEF a
  <1>4. tree' \in Trees /\ \A f \in Files : tree[f].e \subseteq tree'[f].e
    BY <1>1, <1>2, <1>3 DEF TypeOK, Trees
  <1>5. EditsKept'
    <2> SUFFICES ASSUME NEW x \in made, EditedIn(tree, x)
                 PROVE  EditedIn(tree', x)
      BY <1>1 DEF IInv, EditsKept, EditedIn
    <2> QED
      BY <1>1, <1>4 DEF EditedIn, TypeOK, Trees
  <1>6. StepOf(c) /\ eng'[c].pc = "failed" /\ eng'[c].round = eng[c].round
    BY <1>1, GoStep
  <1>7. CallerSound(c)'
    BY <1>1, <1>6, EndedSound
  <1>8. VersionsKept'
    BY <1>6 DEF VersionsKept, First
  <1>9. StashPast'
    BY <1>1, <1>6 DEF IInv, StashPast, StepOf
  <1> QED
    BY <1>1, <1>3, <1>4, <1>5, <1>6, <1>7, <1>8, <1>9, OthersEntries, RepoStep DEF TypeOK

-----------------------------------------------------------------------------
(* The operator and the upstream.                                            *)

\* What the updates know of the repository while none is at work.
LEMMA OperatorFrame ==
    ASSUME IInv, Harmless', Touch, UNCHANGED <<head, eng>>,
           \A c \in Callers : eng[c].round # 0 /\ NoOwnEntry(c) => NoOwnEntry(c)'
    PROVE  CallersSound' /\ OneActive'
  <1>1. \A c \in Callers : ~Inside(c)
    <2>1. "under" \notin mishaps'
      BY DEF Harmless
    <2> QED
      BY <2>1 DEF Touch, Mishap
  <1>2. ASSUME NEW c \in Callers
        PROVE  CallerSound(c)'
    <2>1. CallerSound(c) /\ eng[c].pc \notin Guarded
      BY <1>1, InsideIsGuarded DEF IInv, CallersSound
    <2>2. eng[c].pc \in Early => NoOwnEntry(c)'
      BY <2>1 DEF CallerSound, StashSound, Early
    <2> QED
      BY <2>1, <2>2 DEF CallerSound, StashSound, ArchiveSound, Early, Late, Guarded
  <1>3. OneActive'
    BY DEF IInv, OneActive, Inside
  <1> QED
    BY <1>2, <1>3 DEF CallersSound

\* The operator edits a file.
LEMMA EditStep ==
    ASSUME IInv, Harmless', NEW f \in Files, NEW x \in Edits, OperatorEdit(f, x)
    PROVE  IInv'
  <1>1. /\ Touch /\ UNCHANGED <<head, tracking, remote, stash, eng>>
        /\ tree' = [tree EXCEPT ![f].e = tree[f].e \cup {x}] /\ made' = made \cup {x} /\ TypeOK
    BY DEF OperatorEdit, IInv
  <1>2. \A g \in Files : tree[g] \in Contents
    BY <1>1 DEF TypeOK, Trees
  <1>3. /\ tree'[f].v = tree[f].v /\ tree'[f].e = tree[f].e \cup {x} /\ tree'[f] \in Contents
        /\ \A g \in Files \ {f} : tree'[g] = tree[g]
        /\ tree' \in [Files -> Contents]
    BY <1>1, <1>2 DEF TypeOK, Trees, Contents
  <1>4. TypeOK'
    BY <1>1, <1>3 DEF TypeOK, Trees
  <1>5. CallersSound' /\ OneActive'
    BY <1>1, OperatorFrame DEF NoOwnEntry, Own
  <1>6. StashPast' /\ VersionsKept'
    BY <1>1, <1>3 DEF IInv, StashPast, VersionsKept, First
  <1>7. EditsKept'
    <2> SUFFICES ASSUME NEW y \in made', ~ \E i \in DOMAIN stash : EditedIn(stash[i].files, y)
                 PROVE  EditedIn(tree', y)
      BY <1>1 DEF EditsKept, EditedIn
    <2>1. CASE y = x
      BY <1>3, <2>1 DEF EditedIn
    <2>2. CASE y \in made
      <3>1. PICK g \in Files : y \in tree[g].e
        BY <1>1, <2>2 DEF IInv, EditsKept, EditedIn, TypeOK, Trees
      <3>2. y \in tree'[g].e
        BY <1>3, <3>1
      <3> QED
        BY <1>3, <3>2 DEF EditedIn
    <2> QED
      BY <1>1, <2>1, <2>2
  <1> QED
    BY <1>4, <1>5, <1>6, <1>7 DEF IInv

\* The operator stashes what is there.
LEMMA OperatorStashStep ==
    ASSUME IInv, Harmless', OperatorStash
    PROVE  IInv'
  <1> DEFINE owner == <<"operator", 0>>
  <1>1. /\ Touch /\ UNCHANGED <<head, tracking, remote, eng, made>> /\ conflicted = {}
        /\ StashPush(owner) /\ TypeOK
    BY DEF OperatorStash, IInv
  <1>2. owner \in Owners /\ \A c \in Callers : owner[2] <= eng[c].round
    BY <1>1 DEF Owners, TypeOK, IsEngine
  <1>3. \A c \in Callers : eng[c].round # 0 => owner # Own(c)
    BY DEF Own
  <1> HIDE DEF owner
  <1>4. (First' => First) /\ \A c \in Callers : eng'[c].round = eng[c].round
    BY <1>1 DEF First
  <1>5. /\ tree' \in Trees /\ stash' \in Seq(Entries)
        /\ StashPast' /\ VersionsKept' /\ EditsKept'
        /\ \/ stash' = stash
           \/ /\ stash'[1].by = owner
              /\ \A i \in DOMAIN stash' : i # 1 => i - 1 \in DOMAIN stash /\ stash'[i] = stash[i - 1]
    BY <1>1, <1>2, <1>4, PushData
  <1>6. ASSUME NEW c \in Callers, eng[c].round # 0, NoOwnEntry(c)
        PROVE  NoOwnEntry(c)'
    <2>1. Own(c)' = Own(c)
      BY <1>1 DEF Own
    <2>2. \A i \in DOMAIN stash' : stash'[i].by # Own(c)
      BY <1>3, <1>5, <1>6 DEF NoOwnEntry
    <2> QED
      BY <2>1, <2>2 DEF NoOwnEntry
  <1>7. CallersSound' /\ OneActive'
    BY <1>1, <1>6, OperatorFrame
  <1>8. TypeOK'
    BY <1>1, <1>5 DEF TypeOK
  <1> QED
    BY <1>5, <1>7, <1>8 DEF IInv

\* Steps that concern only the remote branch or the index.
LEMMA RemoteStep ==
    ASSUME IInv, UNCHANGED <<head, tree, stash, running, eng, made, mishaps>>,
           {tracking', remote'} \subseteq Commits, head <= remote'
    PROVE  IInv'
  <1>1. TypeOK' /\ OneActive' /\ StashPast' /\ VersionsKept' /\ EditsKept'
    BY DEF IInv, TypeOK, OneActive, Inside, StashPast, VersionsKept, First, EditsKept, EditedIn
  <1>2. ASSUME NEW c \in Callers
        PROVE  CallerSound(c)'
    <2>1. CallerSound(c) /\ (NoOwnEntry(c)' <=> NoOwnEntry(c))
          /\ (OwnEntryOnTop(c)' <=> OwnEntryOnTop(c))
      BY OwnFrame DEF IInv, CallersSound
    <2>2. StashSound(c)' /\ ArchiveSound(c)'
      BY <2>1 DEF CallerSound, StashSound, ArchiveSound
    <2> QED
      BY <2>1, <2>2 DEF CallerSound
  <1> QED
    BY <1>1, <1>2 DEF IInv, CallersSound

\* The steps of the environment.
LEMMA EnvironmentStep ==
    ASSUME IInv, OperatorResolves \/ OperatorFetch \/ UpstreamPush \/ UNCHANGED vars
    PROVE  IInv'
  <1>1. UNCHANGED <<head, tree, stash, running, eng, made, mishaps>>
    BY DEF OperatorResolves, OperatorFetch, UpstreamPush, vars, repo
  <1>2. {tracking', remote'} \subseteq Commits /\ head <= remote'
    <2>1. {head, tracking, remote} \subseteq 0 .. MaxCommit /\ MaxCommit \in Nat /\ head <= remote
      BY UpdateConstants DEF IInv, TypeOK, Commits
    <2>2. CASE UpstreamPush
      BY <2>1, <2>2 DEF UpstreamPush, Commits
    <2>3. CASE OperatorResolves \/ OperatorFetch \/ UNCHANGED vars
      BY <2>1, <2>3 DEF OperatorResolves, OperatorFetch, vars, repo, Commits
    <2> QED
      BY <2>2, <2>3
  <1> QED
    BY <1>1, <1>2, RemoteStep

-----------------------------------------------------------------------------
(* The specification keeps the invariant.                                    *)

\* The checkout as the project was registered.
LEMMA InitIInv ==
    ASSUME Init
    PROVE  IInv
  <1>1. 0 \in Commits /\ AtCommit(0) \in Trees
    BY UpdateConstants, CheckedOut DEF Commits
  <1> DEFINE q == Fresh("idle", 0, None)
  <1>2. IsEngine(q) /\ q.pc = "idle" /\ q.round = 0
    BY DEF Fresh, IsEngine, Fields, Quiet
  <1>3. eng = [c \in Callers |-> q]
    BY DEF Init
  <1> HIDE DEF q
  <1>4. \A c \in Callers : eng[c] = q
    BY <1>3
  <1>5. eng = [c \in Callers |-> eng[c]]
    BY <1>3
  <1>6. head = 0 /\ tracking = 0 /\ remote = 0 /\ tree = AtCommit(0) /\ stash = <<>> /\ made = {}
    BY DEF Init
  <1>7. TypeOK
    BY <1>1, <1>2, <1>4, <1>5, <1>6 DEF TypeOK
  <1>8. OneActive /\ CallersSound
    BY <1>2, <1>4
       DEF OneActive, Inside, CallersSound, CallerSound, StashSound, ArchiveSound, Early, Late, Guarded
  <1>9. StashPast /\ VersionsKept /\ EditsKept
    BY <1>1, <1>6, CheckedOut DEF StashPast, VersionsKept, EditsKept
  <1> QED
    BY <1>7, <1>8, <1>9 DEF IInv

\* Every step of an update keeps the invariant.
LEMMA EngineIInv ==
    ASSUME IInv, Harmless', NEW c \in Callers, Engine(c)
    PROVE  IInv'
  <1>1. CASE Authorize(c)
    <2>1. PICK plan \in Plans(FALSE) : Set(c, NewUpdate(c, Digest(plan)))
      BY <1>1 DEF Authorize
    <2> QED
      BY <1>1, <2>1, StartStep DEF Authorize
  <1>2. CASE Command(c)
    BY <1>2, StartStep DEF Command
  <1>3. CASE execute_update(c) \/ create_snapshot(c)
    BY <1>3, ExecuteStep, SnapshotStep
  <1>4. CASE stash_count(c) \/ push_stash(c) \/ stash_recount(c)
    BY <1>4, CountStep, PushStep, RecountStep
  <1>5. CASE fetch(c) \/ pull(c) \/ apply_stash(c) \/ drop_stash(c)
    BY <1>5, FetchStep, PullStep, ApplyStep, DropStep
  <1>6. CASE execute_runtime(c) \/ verify_update(c) \/ write_success(c)
    BY <1>6, RuntimeStep, VerifyStep, SuccessStep
  <1>7. CASE restore(c) \/ write_failed(c)
    BY <1>7, RestoreStep, FailureStep
  <1> QED
    BY <1>1, <1>2, <1>3, <1>4, <1>5, <1>6, <1>7 DEF Engine

\* Every step keeps the invariant.
LEMMA NextIInv ==
    ASSUME IInv, Harmless', [Next]_vars
    PROVE  IInv'
  <1>1. CASE \E c \in Callers : Engine(c)
    BY <1>1, EngineIInv
  <1>2. CASE \E f \in Files, x \in Edits : OperatorEdit(f, x)
    BY <1>2, EditStep
  <1>3. CASE OperatorStash
    BY <1>3, OperatorStashStep
  <1>4. CASE OperatorResolves \/ OperatorFetch \/ UpstreamPush \/ UNCHANGED vars
    BY <1>4, EnvironmentStep
  <1> QED
    BY <1>1, <1>2, <1>3, <1>4 DEF Next

\* What has happened stays on record.
LEMMA MishapsGrow ==
    ASSUME [Next]_vars
    PROVE  mishaps \subseteq mishaps'
  <1>1. ASSUME NEW c \in Callers, Engine(c)
        PROVE  mishaps \subseteq mishaps'
    BY <1>1
       DEF Engine, Calm, Mishap, Authorize, Command, execute_update, create_snapshot, stash_count,
           push_stash, stash_recount, fetch, pull, apply_stash, drop_stash, execute_runtime,
           verify_update, write_success, restore, write_failed
  <1> QED
    BY <1>1
       DEF Next, vars, Calm, Mishap, Touch, OperatorEdit, OperatorStash, OperatorResolves,
           OperatorFetch, UpstreamPush

\* The inductive invariant of checkout, stash, archives and callers holds until
\* a mishap that costs an edit: none of the others, no failure of a step and no
\* interleaving of two updates' planning breaks it.
THEOREM UpdateInvariance == Spec => [](Harmless => IInv)
  <1>1. Init => (Harmless => IInv)
    BY InitIInv
  <1>2. (Harmless => IInv) /\ [Next]_vars => (Harmless => IInv)'
    <2> SUFFICES ASSUME Harmless => IInv, [Next]_vars, Harmless'
                 PROVE  IInv'
      OBVIOUS
    <2>1. Harmless
      BY MishapsGrow DEF Harmless
    <2> QED
      BY <2>1, NextIInv
  <1> QED
    BY <1>1, <1>2, PTL DEF Spec

\* In every behaviour an edit of the operator is in the tree or in the stash
\* until two updates were at work at once, the operator changed the checkout
\* under one, the stash was miscounted before a push or a restore was cut off
\* in a file, whatever execute_update stashes, pulls over, applies, drops and
\* restores and whichever of its steps fail.
THEOREM LocalWorkSurvives == Spec => []EditsSurvive
  <1>1. (Harmless => IInv) => EditsSurvive
    BY DEF IInv, Harmless, EditsSurvive
  <1> QED
    BY <1>1, UpdateInvariance, PTL

\* A first update reported as a success before any mishap has its stash back in
\* the tree and the services running from it, with every tracked file at HEAD.
THEOREM SuccessStaysComplete == Spec => SuccessIsComplete
  <1> DEFINE Completed ==
        \A c \in Callers :
          /\ eng[c].pc = "audit" /\ eng'[c].outcome = "success" /\ mishaps = {}
          /\ \A d \in Callers : d # c => eng[d].round = 0
          /\ eng[c].round = 1
          => /\ \A i \in DOMAIN stash : stash[i].by # Own(c)
             /\ running = tree
             /\ \A f \in Files : Tracked(f) => tree[f].v = Version(f, head)
  <1>1. ASSUME Harmless => IInv, [Next]_vars
        PROVE  [Completed]_vars
    <2> SUFFICES ASSUME NEW c \in Callers, eng[c].pc = "audit", eng[c].round = 1, mishaps = {},
                        \A d \in Callers : d # c => eng[d].round = 0
                 PROVE  /\ \A i \in DOMAIN stash : stash[i].by # Own(c)
                        /\ running = tree
                        /\ \A f \in Files : Tracked(f) => tree[f].v = Version(f, head)
      OBVIOUS
    <2>a. IInv
      BY <1>1 DEF Harmless
    <2>1. NoOwnEntry(c) /\ running = tree
      BY <2>a DEF IInv, CallersSound, CallerSound, StashSound, Late
    <2>2. First
      BY <2>a DEF First, IInv, CallersSound, CallerSound
    <2>3. \A f \in Files : tree[f].v = Version(f, head)
      BY <2>a, <2>2 DEF IInv, VersionsKept
    <2> QED
      BY <2>1, <2>3 DEF NoOwnEntry
  <1> QED
    BY <1>1, UpdateInvariance, PTL DEF Spec, SuccessIsComplete

-----------------------------------------------------------------------------
(* The executor boundary.                                                    *)

\* A connection's fields, before and after its client hangs up.
LEMMA HangupFields ==
  ASSUME NEW r \in Requests \cup {NoRequest}, NEW w \in Workers
  PROVE  /\ Hangup(r, w).action = r.action
         /\ Hangup(r, w).from = IF r.from = w THEN NoWorker ELSE r.from
         /\ r \in Requests => Hangup(r, w) \in Requests
         /\ r = NoRequest => Hangup(r, w) = NoRequest
  BY BoundaryAssumption DEF Hangup, Requests, NoRequest

\* The invariant holds when neither process has done anything yet.
LEMMA InitBoundary == BoundaryInit => BoundaryInv
  <1> SUFFICES ASSUME BoundaryInit PROVE BoundaryInv
    OBVIOUS
  <1>1. BoundaryTypeOK
    BY BoundaryAssumption DEF BoundaryInit, BoundaryTypeOK, IdleCall, Listening, NoRequest,
       Requests, Receipts, Outcomes
  <1>2. CallInv /\ VerifiedInv /\ ConnectionInv /\ ServerInv
    BY BoundaryAssumption DEF BoundaryInit, CallInv, VerifiedInv, ConnectionInv,
       ServerInv, IdleCall, Listening, NoRequest, Current, Actions
  <1>3. EffectInv /\ InvokedOnce /\ ReceiptIsTruthful
    BY DEF BoundaryInit, EffectInv, InvokedOnce, ReceiptIsTruthful
  <1>4. AnswerIsTruthful /\ VerifiedBeforeRun
    BY DEF BoundaryInit, AnswerIsTruthful, VerifiedBeforeRun, IdleCall, Actions
  <1> QED
    BY <1>1, <1>2, <1>3, <1>4 DEF BoundaryInv

\* The values a call's record takes.
Calls == [pc : {"idle", "execute", "send", "waiting", "returned"},
          action : Actions \cup {NoAction}, wasTerminal : BOOLEAN,
          executed : BOOLEAN, answer : Outcomes \cup {"none"},
          outcome : Outcomes \cup {"none", "verification_succeeded",
                                   "VERIFIED_SUCCESS", "VERIFICATION_FAILED"}]

\* What an answer leaves in the call that reads it.
LEMMA AnsweredFields ==
  ASSUME NEW c \in Calls, NEW answer \in Outcomes
  PROVE  /\ Answered(c, answer) \in Calls
         /\ Answered(c, answer).pc = "returned"
         /\ Answered(c, answer).action = c.action
         /\ Answered(c, answer).answer = answer
  <1>1. Reported(c.action, answer) \in Outcomes \cup {"verification_succeeded"}
    BY DEF Reported
  <1> QED
    BY <1>1 DEF Answered, Calls

\* A worker that holds no connection may move to any sound call record
\* without touching what the executor relies on; verified actions stay so.
LEMMA LocalCall ==
  ASSUME BoundaryInv, NEW w \in Workers, NEW c \in Calls,
         call[w].pc # "waiting", c.pc # "waiting",
         call' = [call EXCEPT ![w] = c],
         UNCHANGED <<receipt, queue, server, ran, effect>>,
         state' \in [Updates -> {"OPEN", "VERIFIED_SUCCESS", "VERIFICATION_FAILED"}],
         \A a \in Updates :
           state[a] = "VERIFIED_SUCCESS" => state'[a] = "VERIFIED_SUCCESS",
         c.pc = "execute" => c.action \in Updates,
         c.pc = "send" => c.action \in Actions,
         c.pc = "send" /\ c.action \in Updates =>
           state'[c.action] = "VERIFIED_SUCCESS",
         c.pc # "returned" => c.answer = "none",
         c.answer \in {"succeeded", "failed"} =>
           c.action \in Actions /\ effect[c.action] = c.answer
  PROVE  BoundaryInv'
  <1> USE DEF BoundaryInv
  <1>0. call' \in [Workers -> Calls] /\ call'[w] = c
        /\ \A v \in Workers : v # w => call'[v] = call[v]
    BY DEF BoundaryTypeOK, Calls
  <1>1. BoundaryTypeOK'
    BY <1>0 DEF BoundaryTypeOK, Calls
  <1>2. CallInv'
    BY <1>0 DEF CallInv
  <1>3. VerifiedInv'
    BY <1>0 DEF VerifiedInv, Current, BoundaryTypeOK
  <1>4. ConnectionInv'
    BY <1>0 DEF ConnectionInv, Current, BoundaryTypeOK, Requests, NoRequest
  <1>5. ServerInv'
    BY DEF ServerInv, Current
  <1>6. EffectInv' /\ InvokedOnce' /\ ReceiptIsTruthful'
    BY DEF EffectInv, InvokedOnce, ReceiptIsTruthful
  <1>7. AnswerIsTruthful'
    BY <1>0 DEF AnswerIsTruthful
  <1>8. VerifiedBeforeRun'
    BY DEF VerifiedBeforeRun
  <1> QED
    BY <1>1, <1>2, <1>3, <1>4, <1>5, <1>6, <1>7, <1>8

\* The steps of a worker that open or close no connection.
LEMMA LocalSteps ==
  ASSUME BoundaryInv, NEW w \in Workers,
         \/ \E a \in Updates : RunApprovedUpdate(w, a)
         \/ \E a \in Restarts : RequestRestart(w, a)
         \/ ExecuteAction(w)
         \/ ExecuteRefused(w)
  PROVE  BoundaryInv'
  <1> USE DEF BoundaryInv
  <1>0. IdleCall \in Calls
    BY DEF IdleCall, Calls, Outcomes
  <1>1. ASSUME NEW a \in Updates, RunApprovedUpdate(w, a) PROVE BoundaryInv'
    <2> DEFINE c == [IdleCall EXCEPT !.pc = "execute", !.action = a,
                       !.wasTerminal = (state[a] = "VERIFIED_SUCCESS")]
    <2>1. c \in Calls /\ c.pc = "execute" /\ c.action = a /\ c.answer = "none"
      BY DEF IdleCall, Calls, Actions
    <2>2. call[w].pc # "waiting" /\ call' = [call EXCEPT ![w] = c]
      BY <1>1 DEF RunApprovedUpdate, MayCall
    <2>3. /\ UNCHANGED <<receipt, queue, server, ran, effect>>
          /\ state' = state
          /\ state \in [Updates -> {"OPEN", "VERIFIED_SUCCESS", "VERIFICATION_FAILED"}]
      BY <1>1 DEF RunApprovedUpdate, BoundaryTypeOK
    <2> HIDE DEF c
    <2> QED
      BY <2>1, <2>2, <2>3, LocalCall
  <1>2. ASSUME NEW a \in Restarts, RequestRestart(w, a) PROVE BoundaryInv'
    <2> DEFINE c == [IdleCall EXCEPT !.pc = "send", !.action = a]
    <2>1. c \in Calls /\ c.pc = "send" /\ c.action = a /\ c.answer = "none"
      BY DEF IdleCall, Calls, Actions
    <2>2. call[w].pc # "waiting" /\ call' = [call EXCEPT ![w] = c]
      BY <1>2 DEF RequestRestart, MayCall
    <2>3. a \in Actions /\ a \notin Updates
      BY BoundaryAssumption DEF Actions
    <2>4. /\ UNCHANGED <<receipt, queue, server, ran, effect>>
          /\ state' = state
          /\ state \in [Updates -> {"OPEN", "VERIFIED_SUCCESS", "VERIFICATION_FAILED"}]
      BY <1>2 DEF RequestRestart, BoundaryTypeOK
    <2> HIDE DEF c
    <2> QED
      BY <2>1, <2>2, <2>3, <2>4, LocalCall
  <1>3. CASE ExecuteAction(w)
    <2>1. PICK s \in {"VERIFIED_SUCCESS", "VERIFICATION_FAILED"} :
            /\ state[call[w].action] \in {"OPEN", s}
            /\ state' = [state EXCEPT ![call[w].action] = s]
            /\ call' = [call EXCEPT ![w] = Judged(call[w], s)]
      BY <1>3 DEF ExecuteAction
    <2> DEFINE c == Judged(call[w], s)
    <2>2. call[w].pc = "execute" /\ call[w].action \in Updates
          /\ call[w] \in Calls /\ call[w].answer = "none"
      BY <1>3 DEF ExecuteAction, CallInv, BoundaryTypeOK, Calls
    <2>3. /\ c \in Calls
          /\ c.action = call[w].action
          /\ c.answer = "none"
          /\ c.pc \in {"send", "returned"}
          /\ c.pc = "send" => s = "VERIFIED_SUCCESS"
      BY <2>2 DEF Judged, RunsRuntime, Calls
    <2>4. state' \in [Updates -> {"OPEN", "VERIFIED_SUCCESS", "VERIFICATION_FAILED"}]
          /\ state'[call[w].action] = s
          /\ \A a \in Updates :
               state[a] = "VERIFIED_SUCCESS" => state'[a] = "VERIFIED_SUCCESS"
      BY <2>1, <2>2 DEF BoundaryTypeOK
    <2>5. call' = [call EXCEPT ![w] = c]
      BY <2>1
    <2>6. call[w].action \in Actions
      BY <2>2 DEF Actions
    <2> HIDE DEF c
    <2> QED
      BY <1>3, <2>2, <2>3, <2>4, <2>5, <2>6, LocalCall DEF ExecuteAction
  <1>4. CASE ExecuteRefused(w)
    BY <1>0, <1>4, LocalCall DEF ExecuteRefused, IdleCall, BoundaryTypeOK
  <1> QED
    BY <1>1, <1>2, <1>3, <1>4

\* A call that ends, here or by a crash, hangs up its connection: no answer
\* can reach the worker's next call.
LEMMA EndedCall ==
  ASSUME BoundaryInv, NEW w \in Workers, NEW c \in Calls,
         c.pc \in {"idle", "returned"},
         c.pc # "returned" => c.answer = "none",
         c.answer \notin {"succeeded", "failed"},
         call' = [call EXCEPT ![w] = c],
         Disconnect(w),
         UNCHANGED <<state, receipt, ran, effect>>
  PROVE  BoundaryInv'
  <1> USE DEF BoundaryInv
  <1>0. call' \in [Workers -> Calls] /\ call'[w] = c
        /\ \A v \in Workers : v # w => call'[v] = call[v]
    BY DEF BoundaryTypeOK, Calls
  <1>q. /\ queue' \in Seq(Requests)
        /\ Len(queue') = Len(queue)
        /\ \A i \in 1..Len(queue) :
             /\ queue[i] \in Requests
             /\ queue'[i].action = queue[i].action
             /\ queue'[i].from = IF queue[i].from = w THEN NoWorker ELSE queue[i].from
    <2>1. queue \in Seq(Requests) /\ queue' = [i \in 1..Len(queue) |-> Hangup(queue[i], w)]
      BY DEF BoundaryTypeOK, Disconnect
    <2>2. \A i \in 1..Len(queue) : queue[i] \in Requests
      BY <2>1
    <2>3. \A i \in 1..Len(queue) : Hangup(queue[i], w) \in Requests
      BY <2>2, HangupFields
    <2>4. queue' \in Seq(Requests) /\ Len(queue') = Len(queue)
      BY <2>1, <2>3
    <2> QED
      BY <2>1, <2>2, <2>4, HangupFields
  <1>s. /\ server.req \in Requests \cup {NoRequest}
        /\ server'.pc = server.pc /\ server'.result = server.result
        /\ server'.req.action = server.req.action
        /\ server'.req.from = IF server.req.from = w THEN NoWorker ELSE server.req.from
        /\ server.req = NoRequest => server'.req = NoRequest
        /\ server'.req \in Requests \cup {NoRequest}
        /\ server' = [server EXCEPT !.req = server'.req]
    <2>1. server.req \in Requests \cup {NoRequest}
      BY DEF BoundaryTypeOK
    <2>2. server' = [server EXCEPT !.req = Hangup(server.req, w)]
      BY DEF Disconnect
    <2>3. Hangup(server.req, w) \in Requests \cup {NoRequest}
      BY <2>1, HangupFields
    <2>4. server'.req = Hangup(server.req, w)
          /\ server'.pc = server.pc /\ server'.result = server.result
      BY <2>2 DEF BoundaryTypeOK
    <2> QED
      BY <2>1, <2>2, <2>3, <2>4, HangupFields
  <1>1. BoundaryTypeOK'
    <2>1. server' \in
         [pc : {"accept", "claim", "invoke", "running", "complete", "reply", "down"},
          req : Requests \cup {NoRequest}, result : Outcomes \cup {"none"},
          exit : {"none", "crash", "exception"}]
      BY <1>s DEF BoundaryTypeOK
    <2> QED
      BY <1>0, <1>q, <2>1 DEF BoundaryTypeOK, Calls
  <1>2. CallInv'
    BY <1>0 DEF CallInv
  <1>3. VerifiedInv'
    BY <1>0, <1>q, <1>s DEF VerifiedInv, Current
  <1>4. ConnectionInv'
    BY <1>0, <1>q, <1>s, BoundaryAssumption DEF ConnectionInv, Current, Requests, NoRequest
  <1>5. ServerInv'
    BY <1>s DEF ServerInv, Current
  <1>6. EffectInv' /\ InvokedOnce' /\ ReceiptIsTruthful'
    BY DEF EffectInv, InvokedOnce, ReceiptIsTruthful
  <1>7. AnswerIsTruthful'
    BY <1>0 DEF AnswerIsTruthful
  <1>8. VerifiedBeforeRun'
    BY DEF VerifiedBeforeRun
  <1> QED
    BY <1>1, <1>2, <1>3, <1>4, <1>5, <1>6, <1>7, <1>8

\* The steps of a worker that open or close a connection.
LEMMA ChannelSteps ==
  ASSUME BoundaryInv, NEW w \in Workers, Send(w) \/ GiveUp(w) \/ Crash(w)
  PROVE  BoundaryInv'
  <1> USE DEF BoundaryInv
  <1> DEFINE c == Answered(call[w], "unknown_outcome")
  <1>c. c \in Calls /\ c.pc = "returned" /\ c.answer = "unknown_outcome"
        /\ c.action = call[w].action
    <2>1. call[w] \in Calls /\ "unknown_outcome" \in Outcomes
      BY DEF BoundaryTypeOK, Calls, Outcomes
    <2> QED
      BY <2>1, AnsweredFields
  <1>i. IdleCall \in Calls /\ IdleCall.pc = "idle" /\ IdleCall.answer = "none"
    BY DEF IdleCall, Calls, Outcomes
  <1>1. CASE GiveUp(w)
    <2>1. call' = [call EXCEPT ![w] = c] /\ Disconnect(w)
          /\ UNCHANGED <<state, receipt, ran, effect>>
      BY <1>1 DEF GiveUp
    <2> HIDE DEF c
    <2> QED
      BY <1>c, <2>1, EndedCall
  <1>2. CASE Crash(w)
    BY <1>i, <1>2, EndedCall DEF Crash
  <1>3. CASE Send(w) /\ (server.pc = "down" \/ Len(queue) >= Backlog)
    <2>1. /\ call[w].pc # "waiting"
          /\ call' = [call EXCEPT ![w] = c]
          /\ UNCHANGED <<state, receipt, queue, server, ran, effect>>
      BY <1>3 DEF Send
    <2>2. state \in [Updates -> {"OPEN", "VERIFIED_SUCCESS", "VERIFICATION_FAILED"}]
      BY DEF BoundaryTypeOK
    <2> HIDE DEF c
    <2> QED
      BY <1>c, <2>1, <2>2, LocalCall
  <1>4. CASE Send(w) /\ ~(server.pc = "down" \/ Len(queue) >= Backlog)
    <2> DEFINE r == [from |-> w, action |-> call[w].action]
    <2>0. /\ call[w].pc = "send"
          /\ call' = [call EXCEPT ![w].pc = "waiting"]
          /\ queue' = Append(queue, r)
          /\ UNCHANGED <<state, receipt, server, ran, effect>>
      BY <1>4 DEF Send
    <2>1. /\ call' \in [Workers -> Calls]
          /\ call'[w].pc = "waiting"
          /\ call'[w].action = call[w].action
          /\ call'[w].answer = call[w].answer
          /\ \A v \in Workers : v # w => call'[v] = call[v]
      <3>1. call \in [Workers -> Calls] /\ call[w] \in Calls
        BY DEF BoundaryTypeOK, Calls
      <3>2. call' = [call EXCEPT ![w] = [call[w] EXCEPT !.pc = "waiting"]]
        BY <2>0
      <3>3. [call[w] EXCEPT !.pc = "waiting"] \in Calls
        BY <3>1 DEF Calls
      <3> QED
        BY <3>1, <3>2, <3>3 DEF Calls
    <2>2. call[w].action \in Actions /\ call[w].answer = "none"
      BY <2>0 DEF CallInv
    <2>3. r \in Requests
      BY <2>2 DEF Requests
    <2>4. /\ queue' \in Seq(Requests)
          /\ Len(queue') = Len(queue) + 1
          /\ Len(queue) \in Nat
          /\ \A i \in 1..Len(queue) : queue'[i] = queue[i] /\ queue[i] \in Requests
          /\ queue'[Len(queue) + 1] = r
      BY <2>0, <2>3 DEF BoundaryTypeOK
    <2>5. w # NoWorker /\ server.req.from # w
          /\ \A i \in 1..Len(queue) : queue[i].from # w
      BY <2>0, BoundaryAssumption DEF ConnectionInv
    <2>6. BoundaryTypeOK'
      BY <2>0, <2>1, <2>4 DEF BoundaryTypeOK, Calls
    <2>7. CallInv'
      BY <2>1, <2>2 DEF CallInv
    <2>8. VerifiedInv'
      BY <2>0, <2>1, <2>4 DEF VerifiedInv, Current
    <2>9. ConnectionInv'
      <3>1. ASSUME NEW i \in 1..Len(queue'), queue'[i].from # NoWorker
            PROVE  /\ call'[queue'[i].from].pc = "waiting"
                   /\ call'[queue'[i].from].action = queue'[i].action
                   /\ queue'[i].from # server'.req.from
                   /\ \A j \in 1..Len(queue') : queue'[j].from = queue'[i].from => j = i
        <4>1. CASE i = Len(queue) + 1
          BY <2>0, <2>1, <2>4, <2>5, <4>1
        <4>2. CASE i \in 1..Len(queue)
          <5>1. queue[i].from \in Workers /\ queue[i].from # w
            BY <2>4, <2>5, <3>1, <4>2 DEF Requests
          <5> QED
            BY <2>0, <2>1, <2>4, <2>5, <3>1, <4>2, <5>1 DEF ConnectionInv
        <4> QED
          BY <2>4, <4>1, <4>2
      <3>2. server'.req.from # NoWorker =>
              /\ call'[server'.req.from].pc = "waiting"
              /\ call'[server'.req.from].action = Current'
        BY <2>0, <2>1, <2>5 DEF ConnectionInv, Current, BoundaryTypeOK, Requests, NoRequest
      <3> QED
        BY <3>1, <3>2 DEF ConnectionInv
    <2>10. ServerInv' /\ EffectInv' /\ InvokedOnce' /\ ReceiptIsTruthful'
           /\ VerifiedBeforeRun'
      BY <2>0 DEF ServerInv, Current, EffectInv, InvokedOnce, ReceiptIsTruthful,
         VerifiedBeforeRun
    <2>11. AnswerIsTruthful'
      BY <2>0, <2>1, <2>2 DEF AnswerIsTruthful
    <2> QED
      BY <2>6, <2>7, <2>8, <2>9, <2>10, <2>11
  <1> QED
    BY <1>1, <1>2, <1>3, <1>4

\* The values the executor's record takes.
Servers ==
    [pc : {"accept", "claim", "invoke", "running", "complete", "reply", "down"},
     req : Requests \cup {NoRequest}, result : Outcomes \cup {"none"},
     exit : {"none", "crash", "exception"}]

\* As long as the executor keeps its request, the channel is as it was.
LEMMA SameRequest ==
  ASSUME BoundaryInv, server'.req = server.req, UNCHANGED <<state, call, queue>>
  PROVE  CallInv' /\ VerifiedInv' /\ ConnectionInv'
  BY DEF BoundaryInv, CallInv, VerifiedInv, ConnectionInv, Current

\* The executor lets go of its request without having completed anything: it
\* dies, or starts to listen.
LEMMA Released ==
  ASSUME BoundaryInv, server' \in Servers, server'.req = NoRequest,
         server'.pc \in {"accept", "down"},
         queue' = queue \/ queue' = <<>>,
         UNCHANGED <<state, receipt, call, ran, effect>>
  PROVE  BoundaryInv'
  <1> USE DEF BoundaryInv
  <1>1. BoundaryTypeOK'
    <2>1. queue \in Seq(Requests) /\ <<>> \in Seq(Requests)
      BY DEF BoundaryTypeOK
    <2>2. queue' \in Seq(Requests)
      BY <2>1
    <2> QED
      BY <2>2 DEF BoundaryTypeOK, Servers
  <1>2. CallInv' /\ EffectInv' /\ InvokedOnce' /\ ReceiptIsTruthful'
        /\ AnswerIsTruthful' /\ VerifiedBeforeRun'
    BY DEF CallInv, EffectInv, InvokedOnce, ReceiptIsTruthful, AnswerIsTruthful,
       VerifiedBeforeRun
  <1>3. VerifiedInv'
    BY BoundaryAssumption DEF VerifiedInv, Current, NoRequest, Actions
  <1>4. ConnectionInv'
    BY DEF ConnectionInv, Current, NoRequest
  <1>5. ServerInv'
    BY DEF ServerInv
  <1> QED
    BY <1>1, <1>2, <1>3, <1>4, <1>5

\* The executor's record when it is down, and when it listens.
LEMMA RestingServer ==
  /\ Listening \in Servers /\ Listening.pc = "accept" /\ Listening.req = NoRequest
  /\ \A x \in {"crash", "exception"} :
       Down(x) \in Servers /\ Down(x).pc = "down" /\ Down(x).req = NoRequest
  BY DEF Listening, Down, Servers, Outcomes

\* The executor's steps on the way to the engine and back.
LEMMA WorkSteps ==
  ASSUME BoundaryInv,
         \/ Claim
         \/ Invoke
         \/ \E result \in Outcomes \ {"refused"} : FinishRun(result)
         \/ Complete
         \/ ClaimRefused /\ Current \in Updates
         \/ CompleteFails /\ Current \in Updates
  PROVE  BoundaryInv'
  <1> USE DEF BoundaryInv
  <1>0. server \in Servers /\ UNCHANGED <<state, call, queue>>
    <2>1. server \in Servers
      BY DEF BoundaryTypeOK, Servers
    <2>2. Current \in Updates => Current \notin Restarts
      BY BoundaryAssumption
    <2> QED
      BY <2>1, <2>2 DEF Claim, Invoke, FinishRun, Complete, ClaimRefused, CompleteFails
  <1>1. Current \in Actions
    BY DEF ServerInv, Claim, Invoke, FinishRun, Complete, ClaimRefused, CompleteFails
  <1>2. SUFFICES /\ server' \in Servers /\ server'.req = server.req
                 /\ receipt' \in [Actions -> Receipts]
                 /\ ran' \in [Actions -> Nat]
                 /\ effect' \in [Actions -> Outcomes \cup {"none", "started"}]
                 /\ ServerInv' /\ EffectInv' /\ InvokedOnce'
                 /\ ReceiptIsTruthful' /\ AnswerIsTruthful' /\ VerifiedBeforeRun'
    BY <1>0, SameRequest DEF BoundaryTypeOK, Servers
  <1>t. /\ receipt \in [Actions -> Receipts]
        /\ ran \in [Actions -> Nat]
        /\ effect \in [Actions -> Outcomes \cup {"none", "started"}]
    BY DEF BoundaryTypeOK
  <1>3. CASE Claim
    <2>1. /\ server.pc = "claim" /\ receipt[Current] = "none"
          /\ receipt' = [receipt EXCEPT ![Current] = "receipt_created"]
          /\ server' = [server EXCEPT !.pc = "invoke"]
          /\ UNCHANGED <<ran, effect>>
      BY <1>3 DEF Claim, MayClaim
    <2>2. /\ server' \in Servers /\ server'.req = server.req
          /\ server'.pc = "invoke"
      BY <1>0, <2>1 DEF Servers
    <2>3. ran[Current] = 0
      BY <1>1, <2>1 DEF ReceiptIsTruthful
    <2>4. receipt' \in [Actions -> Receipts] /\ receipt'[Current] = "receipt_created"
          /\ \A a \in Actions : a # Current => receipt'[a] = receipt[a]
      BY <1>1, <1>t, <2>1 DEF Receipts
    <2>5. ServerInv'
      BY <1>1, <2>1, <2>2, <2>3, <2>4 DEF ServerInv, Current
    <2>6. EffectInv' /\ InvokedOnce' /\ AnswerIsTruthful' /\ VerifiedBeforeRun'
      BY <1>0, <2>1 DEF EffectInv, InvokedOnce, AnswerIsTruthful, VerifiedBeforeRun
    <2>7. ReceiptIsTruthful'
      BY <2>1, <2>4 DEF ReceiptIsTruthful
    <2> QED
      BY <1>t, <2>1, <2>2, <2>4, <2>5, <2>6, <2>7
  <1>4. CASE Invoke
    <2>1. /\ server.pc = "invoke" /\ receipt' = receipt
          /\ ran' = [ran EXCEPT ![Current] = @ + 1]
          /\ effect' = [effect EXCEPT ![Current] = "started"]
          /\ server' = [server EXCEPT !.pc = "running"]
      BY <1>4 DEF Invoke
    <2>2. /\ server' \in Servers /\ server'.req = server.req
          /\ server'.pc = "running"
      BY <1>0, <2>1 DEF Servers
    <2>3. ran[Current] = 0 /\ receipt[Current] = "receipt_created"
          /\ effect[Current] = "none"
      BY <1>1, <2>1 DEF ServerInv, EffectInv
    <2>4. /\ ran' \in [Actions -> Nat] /\ ran'[Current] = 1
          /\ effect' \in [Actions -> Outcomes \cup {"none", "started"}]
          /\ effect'[Current] = "started"
          /\ \A a \in Actions : a # Current => ran'[a] = ran[a] /\ effect'[a] = effect[a]
      BY <1>1, <1>t, <2>1, <2>3
    <2>5. ServerInv'
      BY <1>1, <2>1, <2>2, <2>3, <2>4 DEF ServerInv, Current
    <2>6. EffectInv' /\ InvokedOnce'
      BY <2>4 DEF EffectInv, InvokedOnce
    <2>7. ReceiptIsTruthful'
      BY <2>1, <2>3, <2>4 DEF ReceiptIsTruthful
    <2>8. AnswerIsTruthful'
      BY <1>0, <2>3, <2>4 DEF AnswerIsTruthful
    <2>9. VerifiedBeforeRun'
      BY <1>0, <2>4 DEF VerifiedBeforeRun, VerifiedInv, Actions
    <2> QED
      BY <1>t, <2>1, <2>2, <2>4, <2>5, <2>6, <2>7, <2>8, <2>9
  <1>5. ASSUME NEW result \in Outcomes \ {"refused"}, FinishRun(result)
        PROVE  /\ server' \in Servers /\ server'.req = server.req
               /\ receipt' \in [Actions -> Receipts]
               /\ ran' \in [Actions -> Nat]
               /\ effect' \in [Actions -> Outcomes \cup {"none", "started"}]
               /\ ServerInv' /\ EffectInv' /\ InvokedOnce'
               /\ ReceiptIsTruthful' /\ AnswerIsTruthful' /\ VerifiedBeforeRun'
    <2>1. /\ server.pc = "running" /\ receipt' = receipt /\ ran' = ran
          /\ effect' = [effect EXCEPT ![Current] = result]
          /\ server' = [server EXCEPT !.pc = "complete", !.result = result]
      BY <1>5 DEF FinishRun
    <2>2. /\ server' \in Servers /\ server'.req = server.req
          /\ server'.pc = "complete" /\ server'.result = result
      BY <1>0, <2>1 DEF Servers
    <2>3. receipt[Current] = "receipt_created" /\ effect[Current] = "started"
      BY <1>1, <2>1 DEF ServerInv
    <2>4. /\ effect' \in [Actions -> Outcomes \cup {"none", "started"}]
          /\ effect'[Current] = result
          /\ \A a \in Actions : a # Current => effect'[a] = effect[a]
      BY <1>1, <1>t, <2>1
    <2>5. ServerInv'
      BY <1>1, <2>1, <2>2, <2>3, <2>4 DEF ServerInv, Current
    <2>6. EffectInv' /\ InvokedOnce'
      BY <2>1, <2>3, <2>4 DEF EffectInv, InvokedOnce, Outcomes
    <2>7. ReceiptIsTruthful'
      BY <2>1, <2>3, <2>4 DEF ReceiptIsTruthful
    <2>8. AnswerIsTruthful'
      BY <1>0, <2>3, <2>4 DEF AnswerIsTruthful
    <2>9. VerifiedBeforeRun'
      BY <1>0, <2>1 DEF VerifiedBeforeRun
    <2> QED
      BY <1>t, <2>1, <2>2, <2>4, <2>5, <2>6, <2>7, <2>8, <2>9
  <1>6. CASE Complete
    <2>1. /\ server.pc = "complete" /\ UNCHANGED <<ran, effect>>
          /\ receipt' = [receipt EXCEPT ![Current] = StatusOf(server.result)]
          /\ server' = [server EXCEPT !.pc = "reply"]
      BY <1>6 DEF Complete
    <2>2. /\ server' \in Servers /\ server'.req = server.req
          /\ server'.pc = "reply" /\ server'.result = server.result
      BY <1>0, <2>1 DEF Servers
    <2>3. effect[Current] = server.result
          /\ server.result \in Outcomes \ {"refused"}
      BY <1>1, <2>1 DEF ServerInv
    <2>4. /\ receipt' \in [Actions -> Receipts]
          /\ receipt'[Current] = StatusOf(server.result)
          /\ \A a \in Actions : a # Current => receipt'[a] = receipt[a]
      BY <1>1, <1>t, <2>1 DEF Receipts, StatusOf
    <2>5. ServerInv'
      BY <1>1, <2>1, <2>2, <2>3 DEF ServerInv, Current
    <2>6. EffectInv' /\ InvokedOnce' /\ AnswerIsTruthful' /\ VerifiedBeforeRun'
      BY <1>0, <2>1 DEF EffectInv, InvokedOnce, AnswerIsTruthful, VerifiedBeforeRun
    <2>7. ReceiptIsTruthful'
      BY <1>1, <2>1, <2>3, <2>4 DEF ReceiptIsTruthful, StatusOf, Outcomes
    <2> QED
      BY <1>t, <2>1, <2>2, <2>4, <2>5, <2>6, <2>7
  <1>7. CASE (ClaimRefused \/ CompleteFails) /\ Current \in Updates
    <2>0. Current \notin Restarts
      BY <1>7, BoundaryAssumption
    <2>1. /\ UNCHANGED <<receipt, ran, effect>>
          /\ \/ server' = [server EXCEPT !.pc = "reply", !.result = "refused"]
             \/ server.pc = "complete" /\ server' = [server EXCEPT !.pc = "reply"]
      BY <1>7, <2>0 DEF ClaimRefused, CompleteFails
    <2>2. /\ server' \in Servers /\ server'.req = server.req
          /\ server'.pc = "reply"
          /\ server'.result = "refused" \/
               (server.pc = "complete" /\ server'.result = server.result)
      BY <1>0, <2>1 DEF Servers, Outcomes
    <2>3. ServerInv'
      BY <1>1, <2>1, <2>2 DEF ServerInv, Current, Outcomes
    <2>4. /\ EffectInv' /\ InvokedOnce' /\ ReceiptIsTruthful' /\ AnswerIsTruthful'
          /\ VerifiedBeforeRun'
      BY <1>0, <2>1 DEF EffectInv, InvokedOnce, ReceiptIsTruthful, AnswerIsTruthful,
         VerifiedBeforeRun
    <2> QED
      BY <1>t, <2>1, <2>2, <2>3, <2>4
  <1> QED
    BY <1>3, <1>4, <1>5, <1>6, <1>7

\* The executor takes the oldest connection.
LEMMA AcceptStep ==
  ASSUME BoundaryInv, Accept PROVE BoundaryInv'
  <1> USE DEF BoundaryInv
  <1>0. /\ server.pc = "accept" /\ queue # <<>>
        /\ server' = [server EXCEPT !.pc = "claim", !.req = Head(queue)]
        /\ queue' = Tail(queue)
        /\ UNCHANGED <<state, receipt, call, ran, effect>>
    BY DEF Accept
  <1>1. /\ queue \in Seq(Requests) /\ Len(queue) \in Nat /\ Len(queue) >= 1
        /\ Head(queue) = queue[1] /\ queue[1] \in Requests
        /\ queue' \in Seq(Requests) /\ Len(queue') = Len(queue) - 1
        /\ \A i \in 1..Len(queue') :
             queue'[i] = queue[i + 1] /\ i + 1 \in 1..Len(queue) /\ queue'[i] \in Requests
    BY <1>0 DEF BoundaryTypeOK
  <1>2. /\ server' \in Servers /\ server'.pc = "claim" /\ server'.req = queue[1]
    BY <1>0, <1>1 DEF BoundaryTypeOK, Servers
  <1>3. BoundaryTypeOK'
    BY <1>0, <1>1, <1>2 DEF BoundaryTypeOK, Servers
  <1>4. CallInv' /\ EffectInv' /\ InvokedOnce' /\ ReceiptIsTruthful'
        /\ AnswerIsTruthful' /\ VerifiedBeforeRun'
    BY <1>0 DEF CallInv, EffectInv, InvokedOnce, ReceiptIsTruthful, AnswerIsTruthful,
       VerifiedBeforeRun
  <1>5. VerifiedInv'
    BY <1>0, <1>1, <1>2 DEF VerifiedInv, Current
  <1>6. ConnectionInv'
    <2>1. 1 \in 1..Len(queue)
      BY <1>1
    <2>2. ASSUME NEW i \in 1..Len(queue'), queue'[i].from # NoWorker
          PROVE  /\ call'[queue'[i].from].pc = "waiting"
                 /\ call'[queue'[i].from].action = queue'[i].action
                 /\ queue'[i].from # server'.req.from
                 /\ \A j \in 1..Len(queue') : queue'[j].from = queue'[i].from => j = i
      <3>1. i + 1 \in 1..Len(queue) /\ queue'[i] = queue[i + 1] /\ i + 1 # 1
        BY <1>1
      <3>2. /\ call[queue[i + 1].from].pc = "waiting"
            /\ call[queue[i + 1].from].action = queue[i + 1].action
            /\ \A j \in 1..Len(queue) : queue[j].from = queue[i + 1].from => j = i + 1
        BY <2>2, <3>1 DEF ConnectionInv
      <3>3. queue[1].from # queue[i + 1].from
        BY <2>1, <3>1, <3>2
      <3>4. ASSUME NEW j \in 1..Len(queue'), queue'[j].from = queue'[i].from PROVE j = i
        BY <1>1, <3>1, <3>2, <3>4
      <3> QED
        BY <1>0, <1>2, <3>1, <3>2, <3>3, <3>4
    <2>3. queue[1].from # NoWorker =>
            /\ call[queue[1].from].pc = "waiting"
            /\ call[queue[1].from].action = queue[1].action
      BY <2>1 DEF ConnectionInv
    <2> QED
      BY <1>0, <1>2, <2>2, <2>3 DEF ConnectionInv, Current
  <1>7. ServerInv'
    BY <1>1, <1>2 DEF ServerInv, Current, Requests
  <1> QED
    BY <1>3, <1>4, <1>5, <1>6, <1>7

\* The executor answers: the client that still reads is the one that waits,
\* and for this action.
LEMMA ReplyStep ==
  ASSUME BoundaryInv, Reply PROVE BoundaryInv'
  <1> USE DEF BoundaryInv
  <1>1. CASE server.req.from = NoWorker
    BY <1>1, RestingServer, Released DEF Reply
  <1>2. CASE server.req.from # NoWorker
    <2> DEFINE w == server.req.from
               c == Answered(call[w], server.result)
    <2>0. /\ server.pc = "reply"
          /\ call' = [call EXCEPT ![w] = c]
          /\ server' = Listening
          /\ UNCHANGED <<state, receipt, queue, ran, effect>>
      BY <1>2 DEF Reply
    <2>1. w \in Workers /\ Current \in Actions /\ call[w].action = Current
          /\ call[w].pc = "waiting"
      BY <1>2, <2>0 DEF BoundaryTypeOK, ServerInv, ConnectionInv, Requests, NoRequest
    <2>2. server.result \in Outcomes
      BY <2>0 DEF ServerInv, BoundaryTypeOK
    <2>3. c \in Calls /\ c.pc = "returned" /\ c.action = Current
          /\ c.answer = server.result
      <3>1. call[w] \in Calls
        BY <2>1 DEF BoundaryTypeOK, Calls
      <3> QED
        BY <2>1, <2>2, <3>1, AnsweredFields
    <2> HIDE DEF c
    <2>4. call' \in [Workers -> Calls] /\ call'[w] = c
          /\ \A v \in Workers : v # w => call'[v] = call[v]
      BY <2>0, <2>1, <2>3 DEF BoundaryTypeOK, Calls
    <2>5. BoundaryTypeOK'
      BY <2>0, <2>4, RestingServer DEF BoundaryTypeOK, Calls, Servers
    <2>6. CallInv'
      BY <2>3, <2>4 DEF CallInv
    <2>7. VerifiedInv'
      BY <2>0, <2>3, <2>4, RestingServer, BoundaryAssumption
         DEF VerifiedInv, Current, NoRequest, Actions
    <2>8. ConnectionInv'
      BY <2>0, <2>4, RestingServer DEF ConnectionInv, Current, NoRequest, BoundaryTypeOK, Requests
    <2>9. ServerInv' /\ EffectInv' /\ InvokedOnce' /\ ReceiptIsTruthful'
          /\ VerifiedBeforeRun'
      BY <2>0, RestingServer DEF ServerInv, EffectInv, InvokedOnce, ReceiptIsTruthful,
         VerifiedBeforeRun
    <2>10. AnswerIsTruthful'
      <3>1. server.result \in {"succeeded", "failed"} => effect[Current] = server.result
        BY <2>0 DEF ServerInv
      <3> QED
        BY <2>0, <2>1, <2>3, <2>4, <3>1 DEF AnswerIsTruthful
    <2> QED
      BY <2>5, <2>6, <2>7, <2>8, <2>9, <2>10
  <1> QED
    BY <1>1, <1>2

\* The executor dies or is started again.
LEMMA RestSteps ==
  ASSUME BoundaryInv,
         \/ ClaimRefused /\ Current \notin Updates
         \/ CompleteFails /\ Current \notin Updates
         \/ PreProviderFails
         \/ ServerCrash
         \/ ServerStart
  PROVE  BoundaryInv'
  <1>1. CASE ~PreProviderFails
    BY <1>1, RestingServer, Released DEF ClaimRefused, CompleteFails, ServerCrash,
       ServerStart
  <1>2. CASE PreProviderFails /\ receipt' = receipt
    BY <1>2, RestingServer, Released DEF PreProviderFails
  <1>3. CASE PreProviderFails /\ receipt' # receipt
    <2> USE DEF BoundaryInv
    <2>0. /\ server.pc = "invoke" /\ Current \in Restarts
          /\ receipt' = [receipt EXCEPT ![Current] = "mutation_failed"]
          /\ server' = Down("exception") /\ queue' = <<>>
          /\ UNCHANGED <<state, call, ran, effect>>
      BY <1>3 DEF PreProviderFails
    <2>1. ran[Current] = 0 /\ Current \in Actions
      BY <2>0 DEF ServerInv, Actions
    <2>2. receipt' \in [Actions -> Receipts] /\ receipt'[Current] = "mutation_failed"
          /\ \A a \in Actions : a # Current => receipt'[a] = receipt[a]
      BY <2>0, <2>1 DEF BoundaryTypeOK, Receipts
    <2>3. server' \in Servers /\ server'.pc = "down" /\ server'.req = NoRequest
          /\ queue' \in Seq(Requests) /\ Len(queue') = 0
      BY <2>0, RestingServer
    <2>4. BoundaryTypeOK'
      BY <2>0, <2>2, <2>3 DEF BoundaryTypeOK, Servers
    <2>5. CallInv' /\ EffectInv' /\ InvokedOnce' /\ AnswerIsTruthful' /\ VerifiedBeforeRun'
      BY <2>0 DEF CallInv, EffectInv, InvokedOnce, AnswerIsTruthful, VerifiedBeforeRun
    <2>6. VerifiedInv' /\ ConnectionInv' /\ ServerInv'
      BY <2>0, <2>3, BoundaryAssumption
         DEF VerifiedInv, ConnectionInv, ServerInv, Current, NoRequest, Actions
    <2>7. ReceiptIsTruthful'
      BY <2>0, <2>1, <2>2 DEF ReceiptIsTruthful
    <2> QED
      BY <2>4, <2>5, <2>6, <2>7
  <1> QED
    BY <1>1, <1>2, <1>3

\* Every step preserves the invariant.
LEMMA NextBoundary ==
  ASSUME BoundaryInv, [BoundaryNext]_boundaryVars PROVE BoundaryInv'
  <1>1. CASE UNCHANGED boundaryVars
    BY <1>1 DEF boundaryVars, BoundaryInv, BoundaryTypeOK, CallInv, VerifiedInv, ConnectionInv,
       ServerInv, EffectInv, InvokedOnce, ReceiptIsTruthful, AnswerIsTruthful,
       VerifiedBeforeRun, Current
  <1>2. CASE BoundaryNext
    BY <1>2, LocalSteps, ChannelSteps, WorkSteps, AcceptStep, ReplyStep, RestSteps
       DEF BoundaryNext
  <1> QED
    BY <1>1, <1>2

\* In every reachable state a worker's one open connection is the one its call
\* waits on, and the executor's step, receipt and effect agree.
THEOREM BoundaryInvariance == BoundarySpec => []BoundaryInv
  <1>1. BoundaryInit => BoundaryInv
    BY InitBoundary
  <1>2. BoundaryInv /\ [BoundaryNext]_boundaryVars => BoundaryInv'
    BY NextBoundary
  <1> QED
    BY <1>1, <1>2, PTL DEF BoundarySpec

\* In every reachable state the rows, the receipts, the calls, the queue and the
\* executor have their types: none of them leaves the set of its statuses,
\* whatever is sent again, given up or killed.
THEOREM BoundaryTypeCorrectness == BoundarySpec => []BoundaryTypeOK
  <1>1. BoundaryInv => BoundaryTypeOK
    BY DEF BoundaryInv
  <1> QED
    BY <1>1, BoundaryInvariance, PTL

\* The engine or provider is invoked at most once for an action, whatever is
\* sent again, given up or killed.
THEOREM SingleInvocation == BoundarySpec => []InvokedOnce
  <1>1. BoundaryInv => InvokedOnce
    BY DEF BoundaryInv
  <1> QED
    BY <1>1, BoundaryInvariance, PTL

\* A receipt never claims an outcome that the invocation did not have.
THEOREM TruthfulReceipt == BoundarySpec => []ReceiptIsTruthful
  <1>1. BoundaryInv => ReceiptIsTruthful
    BY DEF BoundaryInv
  <1> QED
    BY <1>1, BoundaryInvariance, PTL

\* An answer is about the action of the call that reads it, and true.
THEOREM TruthfulAnswer == BoundarySpec => []AnswerIsTruthful
  <1>1. BoundaryInv => AnswerIsTruthful
    BY DEF BoundaryInv
  <1> QED
    BY <1>1, BoundaryInvariance, PTL

\* The engine works on verified actions only, however late the request it
\* works on was sent.
THEOREM RunAfterVerification == BoundarySpec => []VerifiedBeforeRun
  <1>1. BoundaryInv => VerifiedBeforeRun
    BY DEF BoundaryInv
  <1> QED
    BY <1>1, BoundaryInvariance, PTL
=============================================================================
