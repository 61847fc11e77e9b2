----------------------------- MODULE NetworkJobs -----------------------------
(***************************************************************************)
(* The system network configuration and its crash recovery:                *)
(*                                                                         *)
(*   internal/netutil/network_job.go  SaveJobs, LoadJobs, ApplyJobs and    *)
(*                                    ResetJobs on the JSON state files    *)
(*   cmd/spoofdpi/main.go             when runApp and createServer call    *)
(*                                    them                                 *)
(*                                                                         *)
(* A job is a pair of shell commands.  Every server mode has a list of     *)
(* jobs and a state file of its own; a session runs in one mode, the next  *)
(* one perhaps in another.  `present' is the set of jobs whose effect the  *)
(* system shows: routes, rules, addresses or proxy settings.  The program  *)
(* can be killed between any two commands, and while it writes a state     *)
(* file.                                                                   *)
(***************************************************************************)
EXTENDS Naturals

CONSTANTS Mode,        \* the server modes that have a state file
          Host,        \* sets of modes: the ones a platform has
          Turn,        \* [Mode -> when createServer cleans up after it]
          First, Last, \* [Mode -> its first and last job, in applying order]
          NoApply,     \* jobs without an Apply command
          Exclusive,   \* jobs whose Apply fails when the effect is there already
          Volatile,    \* jobs whose effect goes with the process (TUN device)
          Flaky,       \* jobs whose Reset command may fail (bound)
          Foreign      \* effects that were there before the program ever ran

JobsOf(m) == First[m]..Last[m]

Job == UNION {JobsOf(m) : m \in Mode}

ASSUME JobsAssumption ==
    /\ Host \subseteq SUBSET Mode
    /\ Turn \in [Mode -> Nat]
    /\ First \in [Mode -> Nat \ {0}]
    /\ Last \in [Mode -> Nat]
    /\ \A m, n \in Mode : m # n => JobsOf(m) \cap JobsOf(n) = {}
    /\ \A m \in Mode : First[m] <= Last[m]
    /\ NoApply \subseteq Job
    /\ Exclusive \subseteq Job
    /\ Volatile \subseteq Job
    /\ Flaky \subseteq Job
    /\ Foreign \subseteq Job

VARIABLES host,     \* the modes of this platform
          file,     \* [Mode -> state file: "none", "jobs", or "corrupt" (cut short)]
          present,  \* effects the system shows
          lost,     \* effects whose Reset command failed (history)
          pc,       \* step of the program, "down" when it is not running
          todo,     \* modes createServer has still to clean up after
          mode,     \* whose jobs the program is at
          idx,      \* job the running loop has reached
          why,      \* who called ResetJobs: "startup", "rollback", "exit"
          deferred  \* runApp has deferred ResetJobs

vars == <<host, file, present, lost, pc, todo, mode, idx, why, deferred>>

Init ==
    /\ host \in Host
    /\ file = [m \in Mode |-> "none"]
    /\ present = Foreign
    /\ lost = {}
    /\ pc = "down"
    /\ todo = {}
    /\ mode \in host
    /\ idx = 0
    /\ why = "startup"
    /\ deferred = FALSE

-------------------------------------------------------------------------------
(* ResetJobs. *)

\* Where the program goes when ResetJobs returns.
AfterReset(caller) ==
    CASE caller = "startup"  -> "cleanup"
      [] caller = "rollback" -> "serving"
      [] caller = "exit"     -> "exiting"

\* There is a state file and it can be read.
LoadJobs(m) == file[m] = "jobs"

\* A call of ResetJobs: without a readable state file it returns at once.
CallReset(m, caller) ==
    /\ mode' = m
    /\ why' = caller
    /\ IF LoadJobs(m)
       THEN pc' = "reset" /\ idx' = Last[m]
       ELSE pc' = AfterReset(caller) /\ idx' = 0

\* Slip: the jobs are reset in the order they were applied in.
SlipFifo(ok) ==
    LET i == First[mode] + Last[mode] - idx
    IN  /\ pc = "reset"
        /\ idx >= First[mode]
        /\ ok \/ i \in Flaky
        /\ present' = IF ok THEN present \ {i} ELSE present
        /\ lost' = IF ok THEN lost \ {i} ELSE lost \cup ({i} \cap present)
        /\ idx' = idx - 1
        /\ UNCHANGED <<host, file, pc, todo, mode, why, deferred>>

\* One Reset command.  The failure of a command is logged and ignored; on an
\* effect that is not there it makes no difference.
ResetOne(ok) ==
    /\ pc = "reset"
    /\ idx >= First[mode]
    /\ ok \/ idx \in Flaky
    /\ present' = IF ok THEN present \ {idx} ELSE present
    /\ lost' = IF ok THEN lost \ {idx} ELSE lost \cup ({idx} \cap present)
    /\ idx' = idx - 1
    /\ UNCHANGED <<host, file, pc, todo, mode, why, deferred>>

\* Slip: the file is removed before the commands have run.
SlipRemovesFirst(ok) ==
    /\ pc = "reset"
    /\ file' = IF ok THEN [file EXCEPT ![mode] = "none"] ELSE file
    /\ IF idx < First[mode] THEN pc' = AfterReset(why) ELSE pc' = pc
    /\ UNCHANGED <<host, present, lost, todo, mode, idx, why, deferred>>

\* os.Remove(path), whose failure is only logged.
RemoveFile(ok) ==
    /\ pc = "reset"
    /\ idx < First[mode]
    /\ file' = IF ok THEN [file EXCEPT ![mode] = "none"] ELSE file
    /\ pc' = AfterReset(why)
    /\ UNCHANGED <<host, present, lost, todo, mode, idx, why, deferred>>

-------------------------------------------------------------------------------
(* createServer and runApp. *)

StartUp ==
    /\ pc = "down"
    /\ pc' = "cleanup"
    /\ todo' = host
    /\ deferred' = FALSE
    /\ UNCHANGED <<host, file, present, lost, mode, idx, why>>

\* Slip: only the mode that this session is going to run in is cleaned up.
SlipOwnModeOnly(m) ==
    /\ pc = "cleanup"
    /\ m \in todo
    /\ todo' = {}
    /\ CallReset(m, "startup")
    /\ UNCHANGED <<host, file, present, lost, deferred>>

\* ResetJobs for the state file of every mode, one after the other.
CleanUp(m) ==
    /\ pc = "cleanup"
    /\ m \in todo
    /\ \A n \in todo : Turn[m] <= Turn[n]
    /\ todo' = todo \ {m}
    /\ CallReset(m, "startup")
    /\ UNCHANGED <<host, file, present, lost, deferred>>

CleanedUp ==
    /\ pc = "cleanup"
    /\ todo = {}
    /\ pc' = "discover"
    /\ UNCHANGED <<host, file, present, lost, todo, mode, idx, why, deferred>>

\* DiscoverRoute, the pcap handles and the server of the configured mode with
\* its listener or device: any error ends the start.
ComeUp(m, ok) ==
    /\ pc = "discover"
    /\ mode' = m
    /\ pc' = IF ok THEN "setup" ELSE "exiting"
    /\ UNCHANGED <<host, file, present, lost, todo, idx, why, deferred>>

\* Nothing to set up: automatic configuration is off, SetupNetworkJobs fails
\* before SaveJobs, or the mode has no state file on this platform.
SkipSetup ==
    /\ pc = "setup"
    /\ pc' = "serving"
    /\ UNCHANGED <<host, file, present, lost, todo, mode, idx, why, deferred>>

\* SaveJobs: os.WriteFile truncates the file, then writes.
SaveTruncates ==
    /\ pc = "setup"
    /\ file' = [file EXCEPT ![mode] = "corrupt"]
    /\ pc' = "saving"
    /\ UNCHANGED <<host, present, lost, todo, mode, idx, why, deferred>>

\* The write ends; an error leaves the cut file and skips ApplyJobs.
SaveWrites(ok) ==
    /\ pc = "saving"
    /\ file' = IF ok THEN [file EXCEPT ![mode] = "jobs"] ELSE file
    /\ pc' = IF ok THEN "apply" ELSE "serving"
    /\ idx' = IF ok THEN First[mode] ELSE 0
    /\ UNCHANGED <<host, present, lost, todo, mode, why, deferred>>

\* ApplyJobs: the next Apply command, if the job has one, succeeds.
ApplyOne ==
    /\ pc = "apply"
    /\ idx <= Last[mode]
    /\ idx \in NoApply \/ idx \notin present \cap Exclusive
    /\ present' = IF idx \in NoApply THEN present ELSE present \cup {idx}
    /\ lost' = IF idx \in NoApply THEN lost ELSE lost \ {idx}
    /\ idx' = idx + 1
    /\ UNCHANGED <<host, file, pc, todo, mode, why, deferred>>

\* It fails: roll back.
ApplyFails ==
    /\ pc = "apply"
    /\ idx <= Last[mode]
    /\ idx \notin NoApply
    /\ CallReset(mode, "rollback")
    /\ UNCHANGED <<host, file, present, lost, todo, deferred>>

ApplyEnds ==
    /\ pc = "apply"
    /\ idx > Last[mode]
    /\ pc' = "serving"
    /\ idx' = 0
    /\ deferred' = TRUE
    /\ UNCHANGED <<host, file, present, lost, todo, mode, why>>

\* Slip: ResetJobs is not deferred.
SlipNoDefer ==
    /\ pc = "serving"
    /\ pc' = "exiting"
    /\ UNCHANGED <<host, file, present, lost, todo, mode, idx, why, deferred>>

\* appctx is done: runApp returns and runs the deferred ResetJobs.
Stop ==
    /\ pc = "serving"
    /\ IF deferred
       THEN CallReset(mode, "exit")
       ELSE pc' = "exiting" /\ UNCHANGED <<mode, idx, why>>
    /\ UNCHANGED <<host, file, present, lost, todo, deferred>>

\* The goroutine that ListenAndServe has started closes the TUN device as soon
\* as appctx is done, whatever the program is at.
DeviceCloses ==
    /\ \/ pc \in {"setup", "saving", "apply", "serving", "exiting"}
       \/ pc = "reset" /\ why # "startup"
    /\ present \cap Volatile # {}
    /\ present' = present \ Volatile
    /\ lost' = lost \ Volatile
    /\ UNCHANGED <<host, file, pc, todo, mode, idx, why, deferred>>

\* The process is gone, by itself or killed, and the TUN device with it.
Gone ==
    /\ pc' = "down"
    /\ todo' = {}
    /\ idx' = 0
    /\ why' = "startup"
    /\ deferred' = FALSE
    /\ present' = present \ Volatile
    /\ lost' = lost \ Volatile
    /\ UNCHANGED <<host, file, mode>>

Exit == pc = "exiting" /\ Gone

Crash == pc \notin {"down", "exiting"} /\ Gone

-------------------------------------------------------------------------------
Next ==
    \/ StartUp
    \/ \E m \in Mode : CleanUp(m)
    \/ CleanedUp
    \/ SkipSetup
    \/ SaveTruncates
    \/ ApplyOne
    \/ ApplyFails
    \/ ApplyEnds
    \/ Stop
    \/ DeviceCloses
    \/ Exit
    \/ Crash
    \/ \E ok \in BOOLEAN : \/ ResetOne(ok)
                           \/ RemoveFile(ok)
                           \/ \E m \in host : ComeUp(m, ok)
                           \/ SaveWrites(ok)

Spec == Init /\ [][Next]_vars

-------------------------------------------------------------------------------
(* Properties. *)

\* The variables keep their types.
TypeOK ==
    /\ host \in Host
    /\ file \in [Mode -> {"none", "jobs", "corrupt"}]
    /\ present \subseteq Job
    /\ lost \subseteq Job
    /\ pc \in {"down", "cleanup", "reset", "discover", "setup", "saving", "apply",
               "serving", "exiting"}
    /\ todo \subseteq host
    /\ mode \in host
    /\ idx \in Nat
    /\ why \in {"startup", "rollback", "exit"}
    /\ deferred \in BOOLEAN

\* Effects the program has made and nobody failed to undo.
Ours == present \ (lost \cup Foreign)

\* Whatever the program has changed, the state file of its mode tells how to
\* undo it, at every moment it can be killed: only an effect whose own Reset
\* command failed outlives its record.
EffectsAreRecorded ==
    \A m \in Mode : Ours \cap JobsOf(m) # {} => file[m] = "jobs"

\* The comment in createServer: stale state is cleaned up before the default
\* route is looked for, so a crashed session, whatever its mode, cannot obscure
\* it.
DiscoverySeesCleanSystem == pc = "discover" => Ours = {}

\* "Jobs are applied in order and reset in LIFO order": no effect is ever
\* without the ones it was built upon.
BuiltInOrder ==
    \A m \in Mode : \A i \in (Ours \ Volatile) \cap JobsOf(m) :
        \A j \in First[m]..(i - 1) : j \in present \cup NoApply \cup Volatile

\* A program that stops by itself leaves nothing behind.
CleanExit == pc = "exiting" => Ours = {}

-------------------------------------------------------------------------------
(* The inductive invariant: where the effects stand at every step. *)

\* The only effects are those of one mode's jobs.
OnlyOf(m) == \A i \in Ours : i \in JobsOf(m)

JobsInv ==
    /\ TypeOK
    /\ EffectsAreRecorded
    /\ BuiltInOrder
    /\ \A m \in Mode \ host : Ours \cap JobsOf(m) = {}
    /\ pc = "cleanup" => \A m \in host \ todo : Ours \cap JobsOf(m) = {}
    /\ pc \in {"discover", "setup", "saving", "exiting"} => Ours = {}
    /\ pc = "serving" => IF deferred THEN OnlyOf(mode) ELSE Ours = {}
    /\ pc = "reset" =>
          /\ idx <= Last[mode]
          /\ \A i \in Ours \cap JobsOf(mode) : i <= idx
          /\ IF why = "startup"
             THEN \A m \in host \ (todo \cup {mode}) : Ours \cap JobsOf(m) = {}
             ELSE OnlyOf(mode)
    /\ pc = "apply" => /\ file[mode] = "jobs"
                       /\ OnlyOf(mode)
                       /\ idx >= First[mode]
                       /\ \A i \in Ours : i < idx
                       /\ \A j \in First[mode]..(idx - 1) :
                             j \in present \cup NoApply \cup Volatile
    /\ deferred => \/ pc \in {"serving", "exiting"}
                   \/ pc = "reset" /\ why = "exit"
==============================================================================
