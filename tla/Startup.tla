------------------------------ MODULE Startup ------------------------------
(* How a process comes up on the control-plane database: the file, the       *)
(* schema and its migrations, the kill switch's defaults and the composition *)
(* of the service (control_plane/storage/sqlite_store.py, schema.py,         *)
(* composition.py).                                                          *)
(*                                                                           *)
(* The service and the commands that register projects are processes of      *)
(* their own, each opens the database, and nothing orders them.  Every       *)
(* transaction is a step: a process that dies in it leaves no trace of it.   *)
EXTENDS Integers

CONSTANTS
    Workers,       \* processes
    Actions,       \* the actions that may be stored
    Projects,      \* the projects that may be registered
    MaxCrashes     \* bound: deaths of processes

ASSUME CrashesAssumption == MaxCrashes \in Nat

VARIABLES
    file,      \* "absent", "open" (created, not yet private) or "private"
    version,   \* the stamped schema version, 0 before there is one
    protocol,  \* the action_protocol of each stored action
    regs,      \* each project's registration: NoRegistration, 0 for a row without
               \* registration_id, n for a row with the n-th id it was given
    switch,    \* the staging row of the kill switch
    proc,      \* where each process is
    crashes

dbVars == <<file, version, protocol, regs, switch>>
startVars == <<dbVars, proc, crashes>>

SCHEMA_VERSION == 8

\* "absent": no such row; "unset": a row of a table without the column.
Protocols == {"absent", "unset", "legacy-v1", "mc616d2-v1"}

NoRegistration == -1

Places == {"down", "prepare", "chmod", "version", "schema", "seed", "opened", "up"}

Down == [pc |-> "down", seen |-> 0]

InProc(w, pc) == proc[w].pc = pc

Up(w) == InProc(w, "up")

Move(w, pc) == proc' = [proc EXCEPT ![w].pc = pc]

-----------------------------------------------------------------------------
(* The databases a process may find: none, one left by an earlier or a later *)
(* version with some rows in it, or one of this version.                     *)

AbsentDatabase ==
    /\ file = "absent"
    /\ version = 0
    /\ protocol = [a \in Actions |-> "absent"]
    /\ regs = [p \in Projects |-> NoRegistration]
    /\ switch = "absent"

\* Version 6 has no registration_id, and before version 8 there is no
\* action_protocol.
StoredDatabase(v, stored) ==
    /\ file = "private"
    /\ version = v
    /\ protocol = [a \in Actions |->
           IF a \notin stored THEN "absent" ELSE IF v < 8 THEN "unset" ELSE "mc616d2-v1"]
    /\ regs = [p \in Projects |-> IF v < 7 THEN 0 ELSE 1]
    /\ switch \in {"engaged", "disengaged"}

StartInit ==
    /\ proc = [w \in Workers |-> Down]
    /\ crashes = 0

-----------------------------------------------------------------------------
(* ControlPlaneDatabase.__init__, one step per transaction.                  *)

Start(w) ==
    /\ InProc(w, "down")
    /\ Move(w, "prepare")
    /\ UNCHANGED <<dbVars, crashes>>

\* A new file has the permissions the umask gives; one that others may read is
\* refused, and so is every later start until somebody makes it private.
prepare_filesystem(w) ==
    /\ InProc(w, "prepare")
    /\ file' = IF file = "absent" THEN "open" ELSE file
    /\ Move(w, CASE file = "absent"  -> "chmod"
                 [] file = "open"    -> "down"
                 [] file = "private" -> "version")
    /\ UNCHANGED <<version, protocol, regs, switch, crashes>>

MakePrivate(w) ==
    /\ InProc(w, "chmod")
    /\ file' = "private"
    /\ Move(w, "version")
    /\ UNCHANGED <<version, protocol, regs, switch, crashes>>

\* The version is read before the transaction that acts on it.
ReadVersion(w) ==
    /\ InProc(w, "version")
    /\ proc' = [proc EXCEPT ![w] =
           IF version > SCHEMA_VERSION THEN Down ELSE [pc |-> "schema", seen |-> version]]
    /\ UNCHANGED <<dbVars, crashes>>

\* A mutant: the table is rebuilt without looking whether it has been.
registration_v7_again ==
    [p \in Projects |-> IF regs[p] # NoRegistration THEN regs[p] + 1 ELSE regs[p]]

\* Each row of a table without registration_id gets one; a table that has the
\* column is left alone.
registration_v7 ==
    [p \in Projects |-> IF regs[p] = 0 THEN 1 ELSE regs[p]]

\* Each row of a table without action_protocol becomes legacy-v1.
action_protocol_v8 ==
    [a \in Actions |-> IF protocol[a] = "unset" THEN "legacy-v1" ELSE protocol[a]]

\* One transaction by the version that was read; the statements and migrations
\* themselves look at the tables as they are now.
ensure_schema(w) ==
    /\ InProc(w, "schema")
    /\ regs' = IF proc[w].seen \in 1 .. 6 THEN registration_v7 ELSE regs
    /\ protocol' = IF proc[w].seen \in 1 .. 7 THEN action_protocol_v8 ELSE protocol
    /\ version' = SCHEMA_VERSION
    /\ proc' = [proc EXCEPT ![w] = [pc |-> "seed", seen |-> 0]]
    /\ UNCHANGED <<file, switch, crashes>>

\* A default is stored only where there is no row: an operator's choice stays.
SwitchOrDefault == IF switch = "absent" THEN "engaged" ELSE switch

seed_kill_switch_defaults(w) ==
    /\ InProc(w, "seed")
    /\ switch' = SwitchOrDefault
    /\ Move(w, "opened")
    /\ UNCHANGED <<file, version, protocol, regs, crashes>>

\* _registered_targets.  A project known by its plan alone counts as well; here
\* every project with a plan is registered.
Registered == {p \in Projects : regs[p] # NoRegistration}

\* The service refuses to come up without a registered project; its
\* KillSwitchRegistry, which comes first, stores the default only if the seed did not.
\* The recovery sweep that follows is ControlPlane's.
compose_operator_service(w) ==
    /\ InProc(w, "opened")
    /\ switch' = SwitchOrDefault
    /\ Move(w, IF Registered # {} THEN "up" ELSE "down")
    /\ UNCHANGED <<file, version, protocol, regs, crashes>>

\* The register command of the command line, then its process ends.
RegisterProject(w, p) ==
    /\ InProc(w, "opened")
    /\ regs' = [regs EXCEPT ![p] = IF @ = NoRegistration THEN 1 ELSE @]
    /\ Move(w, "down")
    /\ UNCHANGED <<file, version, protocol, switch, crashes>>

Open(w) ==
    \/ Start(w) \/ prepare_filesystem(w) \/ MakePrivate(w) \/ ReadVersion(w)
    \/ ensure_schema(w) \/ seed_kill_switch_defaults(w) \/ compose_operator_service(w)
    \/ \E p \in Projects : RegisterProject(w, p)

-----------------------------------------------------------------------------
(* What happens to the database afterwards.                                  *)

\* A stored action carries the protocol of the program that stores it.
Store(a) == protocol' = [protocol EXCEPT ![a] = "mc616d2-v1"]

Stored(a) == protocol[a] # "absent"

Permits == switch = "disengaged"

\* An operator throws the switch on a process that is up.
Throw ==
    /\ \E w \in Workers : Up(w)
    /\ switch' = IF Permits THEN "engaged" ELSE "disengaged"
    /\ UNCHANGED <<file, version, protocol, regs, proc, crashes>>

Die(w) ==
    /\ crashes < MaxCrashes
    /\ ~InProc(w, "down")
    /\ crashes' = crashes + 1
    /\ proc' = [proc EXCEPT ![w] = Down]
    /\ UNCHANGED dbVars

-----------------------------------------------------------------------------
(* Properties.                                                               *)

\* Upgrading never costs a row: whatever processes open the database at once,
\* on whatever version they read, and wherever they die, no stored action or
\* registration disappears, none changes the protocol or the registration_id
\* that it was given, and no opening process changes the operator's switch.
RowsSurviveUpgrade ==
    [][ /\ \A a \in Actions : protocol[a] \in {"legacy-v1", "mc616d2-v1"}
               => protocol'[a] = protocol[a]
        /\ \A a \in Actions : Stored(a) => protocol'[a] # "absent"
        /\ \A p \in Projects :
               /\ regs[p] # NoRegistration => regs'[p] # NoRegistration
               /\ regs[p] > 0 => regs'[p] = regs[p]
        /\ proc' # proc => switch' = switch \/ switch = "absent" ]_startVars
=============================================================================
