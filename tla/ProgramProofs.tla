---------------------------- MODULE ProgramProofs ----------------------------
(***************************************************************************)
(* Crash safety of the network configuration, and the program around it.   *)
(*                                                                         *)
(* For every platform, every set of modes and all job lists, JobsInv is    *)
(* inductive, and what the properties of NetworkJobs say follows from it.  *)
(* The program implements NetworkJobs: what is proved there holds of the   *)
(* whole process, with its TUI, its signals, its goroutines and its        *)
(* deaths.                                                                 *)
(***************************************************************************)
EXTENDS Program, TLAPS

-------------------------------------------------------------------------------
(* The network configuration. *)

\* A job is a positive number between the first and the last one of its mode.
LEMMA JobsOfMode ==
    ASSUME NEW m \in Mode
    PROVE  /\ First[m] \in Nat /\ First[m] > 0 /\ Last[m] \in Nat /\ First[m] <= Last[m]
           /\ JobsOf(m) \subseteq Job
           /\ JobsOf(m) \subseteq Nat
           /\ \A i \in Nat : i \in JobsOf(m) <=> First[m] <= i /\ i <= Last[m]
  BY JobsAssumption DEF JobsOf, Job

\* A job belongs to one mode only.
LEMMA OneMode ==
    ASSUME NEW m \in Mode, NEW n \in Mode, NEW i \in JobsOf(m), i \in JobsOf(n)
    PROVE  m = n
  BY JobsAssumption

\* The program is always at jobs of its platform.
LEMMA ModesOfHost ==
    ASSUME TypeOK
    PROVE  host \subseteq Mode /\ mode \in Mode /\ todo \subseteq Mode
  BY JobsAssumption DEF TypeOK

\* A start changes no effect and no record.
LEMMA StartUpKeepsInv ==
    ASSUME JobsInv, StartUp PROVE JobsInv'
  <1>0. TypeOK /\ host \subseteq Mode /\ mode \in Mode /\ todo \subseteq Mode
    BY ModesOfHost DEF JobsInv
  <1>1. TypeOK'
    <2>1. deferred' \in BOOLEAN
      BY Zenon DEF StartUp
    <2>2. QED
      BY <1>0, <2>1, JobsOfMode DEF TypeOK, StartUp
  <1>2. EffectsAreRecorded'
    BY <1>0, JobsOfMode, OneMode DEF JobsInv, TypeOK, EffectsAreRecorded, OnlyOf, Ours, StartUp
  <1>3. BuiltInOrder'
    BY <1>0, JobsOfMode, OneMode DEF JobsInv, TypeOK, BuiltInOrder, OnlyOf, Ours, StartUp
  <1>4. QED
    BY <1>0, <1>1, <1>2, <1>3, JobsOfMode, OneMode
    DEF JobsInv, TypeOK, EffectsAreRecorded, BuiltInOrder, OnlyOf, Ours, StartUp

\* The clean-up goes on with the next mode.
LEMMA CleanUpKeepsInv ==
    ASSUME JobsInv, NEW m \in Mode, CleanUp(m) PROVE JobsInv'
  <1>0. TypeOK /\ host \subseteq Mode /\ mode \in Mode /\ todo \subseteq Mode
    BY ModesOfHost DEF JobsInv
  <1>1. TypeOK'
    BY <1>0, JobsOfMode DEF TypeOK, CleanUp, CallReset, LoadJobs, AfterReset
  <1>2. EffectsAreRecorded'
    BY <1>0, JobsOfMode, OneMode DEF JobsInv, TypeOK, EffectsAreRecorded, OnlyOf, Ours, CleanUp, CallReset, LoadJobs, AfterReset
  <1>3. BuiltInOrder'
    BY <1>0, JobsOfMode, OneMode DEF JobsInv, TypeOK, BuiltInOrder, OnlyOf, Ours, CleanUp, CallReset, LoadJobs, AfterReset
  <1>4. QED
    BY <1>0, <1>1, <1>2, <1>3, JobsOfMode, OneMode
    DEF JobsInv, TypeOK, EffectsAreRecorded, BuiltInOrder, OnlyOf, Ours, CleanUp, CallReset, LoadJobs, AfterReset

\* After the last mode nothing is left.
LEMMA CleanedUpKeepsInv ==
    ASSUME JobsInv, CleanedUp PROVE JobsInv'
  <1>0. TypeOK /\ host \subseteq Mode /\ mode \in Mode /\ todo \subseteq Mode
    BY ModesOfHost DEF JobsInv
  <1>1. TypeOK'
    BY <1>0, JobsOfMode DEF TypeOK, CleanedUp
  <1>2. EffectsAreRecorded'
    BY <1>0, JobsOfMode, OneMode DEF JobsInv, TypeOK, EffectsAreRecorded, OnlyOf, Ours, CleanedUp
  <1>3. BuiltInOrder'
    BY <1>0, JobsOfMode, OneMode DEF JobsInv, TypeOK, BuiltInOrder, OnlyOf, Ours, CleanedUp
  <1>4. Ours = {}
    BY <1>0 DEF JobsInv, TypeOK, Ours, Job, CleanedUp
  <1>5. QED
    BY <1>0, <1>1, <1>2, <1>3, <1>4, JobsOfMode, OneMode
    DEF JobsInv, TypeOK, EffectsAreRecorded, BuiltInOrder, OnlyOf, Ours, CleanedUp

\* No jobs, nothing to record.
LEMMA SkipSetupKeepsInv ==
    ASSUME JobsInv, SkipSetup PROVE JobsInv'
  <1>0. TypeOK /\ host \subseteq Mode /\ mode \in Mode /\ todo \subseteq Mode
    BY ModesOfHost DEF JobsInv
  <1>1. TypeOK'
    BY <1>0, JobsOfMode DEF TypeOK, SkipSetup
  <1>2. EffectsAreRecorded'
    BY <1>0, JobsOfMode, OneMode DEF JobsInv, TypeOK, EffectsAreRecorded, OnlyOf, Ours, SkipSetup
  <1>3. BuiltInOrder'
    BY <1>0, JobsOfMode, OneMode DEF JobsInv, TypeOK, BuiltInOrder, OnlyOf, Ours, SkipSetup
  <1>4. QED
    BY <1>0, <1>1, <1>2, <1>3, JobsOfMode, OneMode
    DEF JobsInv, TypeOK, EffectsAreRecorded, BuiltInOrder, OnlyOf, Ours, SkipSetup

\* The file is truncated before anything is applied.
LEMMA SaveTruncatesKeepsInv ==
    ASSUME JobsInv, SaveTruncates PROVE JobsInv'
  <1>0. TypeOK /\ host \subseteq Mode /\ mode \in Mode /\ todo \subseteq Mode
    BY ModesOfHost DEF JobsInv
  <1>1. TypeOK'
    BY <1>0, JobsOfMode DEF TypeOK, SaveTruncates
  <1>2. EffectsAreRecorded'
    BY <1>0, JobsOfMode, OneMode DEF JobsInv, TypeOK, EffectsAreRecorded, OnlyOf, Ours, SaveTruncates
  <1>3. BuiltInOrder'
    BY <1>0, JobsOfMode, OneMode DEF JobsInv, TypeOK, BuiltInOrder, OnlyOf, Ours, SaveTruncates
  <1>4. QED
    BY <1>0, <1>1, <1>2, <1>3, JobsOfMode, OneMode
    DEF JobsInv, TypeOK, EffectsAreRecorded, BuiltInOrder, OnlyOf, Ours, SaveTruncates

\* A job is applied after all before it.
LEMMA ApplyOneKeepsInv ==
    ASSUME JobsInv, ApplyOne PROVE JobsInv'
  <1>0. TypeOK /\ host \subseteq Mode /\ mode \in Mode /\ todo \subseteq Mode
    BY ModesOfHost DEF JobsInv
  <1>1. TypeOK'
    <2>1. idx \in Job
      BY <1>0, JobsOfMode DEF JobsInv, TypeOK, ApplyOne
    <2>2. QED
      BY <1>0, <2>1 DEF TypeOK, ApplyOne
  <1>2. EffectsAreRecorded'
    BY <1>0, JobsOfMode, OneMode DEF JobsInv, TypeOK, EffectsAreRecorded, OnlyOf, Ours, ApplyOne
  <1>3. BuiltInOrder'
    BY <1>0, JobsOfMode, OneMode DEF JobsInv, TypeOK, BuiltInOrder, OnlyOf, Ours, ApplyOne
  <1>4. QED
    BY <1>0, <1>1, <1>2, <1>3, JobsOfMode, OneMode
    DEF JobsInv, TypeOK, EffectsAreRecorded, BuiltInOrder, OnlyOf, Ours, ApplyOne

\* A failing command leads to the reset.
LEMMA ApplyFailsKeepsInv ==
    ASSUME JobsInv, ApplyFails PROVE JobsInv'
  <1>0. TypeOK /\ host \subseteq Mode /\ mode \in Mode /\ todo \subseteq Mode
    BY ModesOfHost DEF JobsInv
  <1>1. TypeOK'
    BY <1>0, JobsOfMode DEF TypeOK, ApplyFails, CallReset, LoadJobs, AfterReset
  <1>2. EffectsAreRecorded'
    BY <1>0, JobsOfMode, OneMode DEF JobsInv, TypeOK, EffectsAreRecorded, OnlyOf, Ours, ApplyFails, CallReset, LoadJobs, AfterReset
  <1>3. BuiltInOrder'
    BY <1>0, JobsOfMode, OneMode DEF JobsInv, TypeOK, BuiltInOrder, OnlyOf, Ours, ApplyFails, CallReset, LoadJobs, AfterReset
  <1>4. QED
    BY <1>0, <1>1, <1>2, <1>3, JobsOfMode, OneMode
    DEF JobsInv, TypeOK, EffectsAreRecorded, BuiltInOrder, OnlyOf, Ours, ApplyFails, CallReset, LoadJobs, AfterReset

\* All jobs are applied.
LEMMA ApplyEndsKeepsInv ==
    ASSUME JobsInv, ApplyEnds PROVE JobsInv'
  <1>0. TypeOK /\ host \subseteq Mode /\ mode \in Mode /\ todo \subseteq Mode
    BY ModesOfHost DEF JobsInv
  <1>1. TypeOK'
    <2>1. deferred' \in BOOLEAN
      BY Zenon DEF ApplyEnds
    <2>2. QED
      BY <1>0, <2>1, JobsOfMode DEF TypeOK, ApplyEnds
  <1>2. EffectsAreRecorded'
    BY <1>0, JobsOfMode, OneMode DEF JobsInv, TypeOK, EffectsAreRecorded, OnlyOf, Ours, ApplyEnds
  <1>3. BuiltInOrder'
    BY <1>0, JobsOfMode, OneMode DEF JobsInv, TypeOK, BuiltInOrder, OnlyOf, Ours, ApplyEnds
  <1>4. QED
    BY <1>0, <1>1, <1>2, <1>3, JobsOfMode, OneMode
    DEF JobsInv, TypeOK, EffectsAreRecorded, BuiltInOrder, OnlyOf, Ours, ApplyEnds

\* The deferred reset starts.
LEMMA StopKeepsInv ==
    ASSUME JobsInv, Stop PROVE JobsInv'
  <1>0. TypeOK /\ host \subseteq Mode /\ mode \in Mode /\ todo \subseteq Mode
    BY ModesOfHost DEF JobsInv
  <1>1. TypeOK'
    BY <1>0, JobsOfMode DEF TypeOK, Stop, CallReset, LoadJobs, AfterReset
  <1>2. EffectsAreRecorded'
    BY <1>0, JobsOfMode, OneMode DEF JobsInv, TypeOK, EffectsAreRecorded, OnlyOf, Ours, Stop, CallReset, LoadJobs, AfterReset
  <1>3. BuiltInOrder'
    BY <1>0, JobsOfMode, OneMode DEF JobsInv, TypeOK, BuiltInOrder, OnlyOf, Ours, Stop, CallReset, LoadJobs, AfterReset
  <1>4. QED
    BY <1>0, <1>1, <1>2, <1>3, JobsOfMode, OneMode
    DEF JobsInv, TypeOK, EffectsAreRecorded, BuiltInOrder, OnlyOf, Ours, Stop, CallReset, LoadJobs, AfterReset

\* The kernel takes back what belongs to the device.
LEMMA DeviceClosesKeepsInv ==
    ASSUME JobsInv, DeviceCloses PROVE JobsInv'
  <1>0. TypeOK /\ host \subseteq Mode /\ mode \in Mode /\ todo \subseteq Mode
    BY ModesOfHost DEF JobsInv
  <1>1. TypeOK'
    BY <1>0, JobsOfMode DEF TypeOK, DeviceCloses
  <1>2. EffectsAreRecorded'
    BY <1>0, JobsOfMode, OneMode DEF JobsInv, TypeOK, EffectsAreRecorded, OnlyOf, Ours, DeviceCloses
  <1>3. BuiltInOrder'
    BY <1>0, JobsOfMode, OneMode DEF JobsInv, TypeOK, BuiltInOrder, OnlyOf, Ours, DeviceCloses
  <1>4. QED
    BY <1>0, <1>1, <1>2, <1>3, JobsOfMode, OneMode
    DEF JobsInv, TypeOK, EffectsAreRecorded, BuiltInOrder, OnlyOf, Ours, DeviceCloses

\* The reset has ended before the exit.
LEMMA ExitKeepsInv ==
    ASSUME JobsInv, Exit PROVE JobsInv'
  <1>0. TypeOK /\ host \subseteq Mode /\ mode \in Mode /\ todo \subseteq Mode
    BY ModesOfHost DEF JobsInv
  <1>1. TypeOK'
    <2>1. deferred' \in BOOLEAN
      BY Zenon DEF Exit, Gone
    <2>2. QED
      BY <1>0, <2>1, JobsOfMode DEF TypeOK, Exit, Gone
  <1>2. EffectsAreRecorded'
    BY <1>0, JobsOfMode, OneMode DEF JobsInv, TypeOK, EffectsAreRecorded, OnlyOf, Ours, Exit, Gone
  <1>3. BuiltInOrder'
    BY <1>0, JobsOfMode, OneMode DEF JobsInv, TypeOK, BuiltInOrder, OnlyOf, Ours, Exit, Gone
  <1>4. QED
    BY <1>0, <1>1, <1>2, <1>3, JobsOfMode, OneMode
    DEF JobsInv, TypeOK, EffectsAreRecorded, BuiltInOrder, OnlyOf, Ours, Exit, Gone

\* A kill leaves effects and the file.
LEMMA CrashKeepsInv ==
    ASSUME JobsInv, Crash PROVE JobsInv'
  <1>0. TypeOK /\ host \subseteq Mode /\ mode \in Mode /\ todo \subseteq Mode
    BY ModesOfHost DEF JobsInv
  <1>1. TypeOK'
    <2>1. deferred' \in BOOLEAN
      BY Zenon DEF Crash, Gone
    <2>2. QED
      BY <1>0, <2>1, JobsOfMode DEF TypeOK, Crash, Gone
  <1>2. EffectsAreRecorded'
    BY <1>0, JobsOfMode, OneMode DEF JobsInv, TypeOK, EffectsAreRecorded, OnlyOf, Ours, Crash, Gone
  <1>3. BuiltInOrder'
    BY <1>0, JobsOfMode, OneMode DEF JobsInv, TypeOK, BuiltInOrder, OnlyOf, Ours, Crash, Gone
  <1>4. QED
    BY <1>0, <1>1, <1>2, <1>3, JobsOfMode, OneMode
    DEF JobsInv, TypeOK, EffectsAreRecorded, BuiltInOrder, OnlyOf, Ours, Crash, Gone

\* The last effect goes first.
LEMMA ResetOneKeepsInv ==
    ASSUME JobsInv, NEW ok \in BOOLEAN, ResetOne(ok) PROVE JobsInv'
  <1>0. TypeOK /\ host \subseteq Mode /\ mode \in Mode /\ todo \subseteq Mode
    BY ModesOfHost DEF JobsInv
  <1>1. TypeOK'
    BY <1>0, JobsOfMode DEF TypeOK, ResetOne
  <1>2. EffectsAreRecorded'
    BY <1>0, JobsOfMode, OneMode DEF JobsInv, TypeOK, EffectsAreRecorded, OnlyOf, Ours, ResetOne
  <1>3. BuiltInOrder'
    BY <1>0, JobsOfMode, OneMode DEF JobsInv, TypeOK, BuiltInOrder, OnlyOf, Ours, ResetOne
  <1>4. QED
    BY <1>0, <1>1, <1>2, <1>3, JobsOfMode, OneMode
    DEF JobsInv, TypeOK, EffectsAreRecorded, BuiltInOrder, OnlyOf, Ours, ResetOne

\* The file goes when no effect is left.
LEMMA RemoveFileKeepsInv ==
    ASSUME JobsInv, NEW ok \in BOOLEAN, RemoveFile(ok) PROVE JobsInv'
  <1>0. TypeOK /\ host \subseteq Mode /\ mode \in Mode /\ todo \subseteq Mode
    BY ModesOfHost DEF JobsInv
  <1>1. TypeOK'
    BY <1>0, JobsOfMode DEF TypeOK, RemoveFile, AfterReset
  <1>2. EffectsAreRecorded'
    BY <1>0, JobsOfMode, OneMode DEF JobsInv, TypeOK, EffectsAreRecorded, OnlyOf, Ours, RemoveFile, AfterReset
  <1>3. BuiltInOrder'
    BY <1>0, JobsOfMode, OneMode DEF JobsInv, TypeOK, BuiltInOrder, OnlyOf, Ours, RemoveFile, AfterReset
  <1>4. QED
    BY <1>0, <1>1, <1>2, <1>3, JobsOfMode, OneMode
    DEF JobsInv, TypeOK, EffectsAreRecorded, BuiltInOrder, OnlyOf, Ours, RemoveFile, AfterReset

\* The jobs of the new session are set out.
LEMMA ComeUpKeepsInv ==
    ASSUME JobsInv, NEW m \in host, NEW ok \in BOOLEAN, ComeUp(m, ok) PROVE JobsInv'
  <1>0. TypeOK /\ host \subseteq Mode /\ mode \in Mode /\ todo \subseteq Mode
    BY ModesOfHost DEF JobsInv
  <1>1. TypeOK'
    BY <1>0, JobsOfMode DEF TypeOK, ComeUp
  <1>2. EffectsAreRecorded'
    BY <1>0, JobsOfMode, OneMode DEF JobsInv, TypeOK, EffectsAreRecorded, OnlyOf, Ours, ComeUp
  <1>3. BuiltInOrder'
    BY <1>0, JobsOfMode, OneMode DEF JobsInv, TypeOK, BuiltInOrder, OnlyOf, Ours, ComeUp
  <1>4. QED
    BY <1>0, <1>1, <1>2, <1>3, JobsOfMode, OneMode
    DEF JobsInv, TypeOK, EffectsAreRecorded, BuiltInOrder, OnlyOf, Ours, ComeUp

\* The file has the jobs before the first is applied.
LEMMA SaveWritesKeepsInv ==
    ASSUME JobsInv, NEW ok \in BOOLEAN, SaveWrites(ok) PROVE JobsInv'
  <1>0. TypeOK /\ host \subseteq Mode /\ mode \in Mode /\ todo \subseteq Mode
    BY ModesOfHost DEF JobsInv
  <1>1. TypeOK'
    BY <1>0, JobsOfMode DEF TypeOK, SaveWrites
  <1>2. EffectsAreRecorded'
    BY <1>0, JobsOfMode, OneMode DEF JobsInv, TypeOK, EffectsAreRecorded, OnlyOf, Ours, SaveWrites
  <1>3. BuiltInOrder'
    BY <1>0, JobsOfMode, OneMode DEF JobsInv, TypeOK, BuiltInOrder, OnlyOf, Ours, SaveWrites
  <1>4. QED
    BY <1>0, <1>1, <1>2, <1>3, JobsOfMode, OneMode
    DEF JobsInv, TypeOK, EffectsAreRecorded, BuiltInOrder, OnlyOf, Ours, SaveWrites

\* The invariant holds from the first start on, through crashes at any point and
\* sessions in any mode: present effects are recorded in a state file, stand in
\* the order they were built, and are gone when ResetJobs has returned.
THEOREM JobsInvariant == Spec => []JobsInv
  <1>1. Init => JobsInv
    <2>1. Init => deferred \in BOOLEAN
      BY Zenon DEF Init
    <2>2. Init => TypeOK
      BY <2>1, JobsAssumption DEF Init, TypeOK
    <2>3. QED
      BY <2>2
      DEF Init, JobsInv, EffectsAreRecorded, BuiltInOrder, Ours
  <1>2. JobsInv /\ [Next]_vars => JobsInv'
    <2>1. CASE UNCHANGED vars
      BY <2>1 DEF vars, JobsInv, TypeOK, EffectsAreRecorded, BuiltInOrder, OnlyOf, Ours
    <2>2. CASE Next
      BY <2>2, StartUpKeepsInv, CleanUpKeepsInv, CleanedUpKeepsInv, SkipSetupKeepsInv,
         SaveTruncatesKeepsInv, ApplyOneKeepsInv, ApplyFailsKeepsInv, ApplyEndsKeepsInv,
         StopKeepsInv, DeviceClosesKeepsInv, ExitKeepsInv, CrashKeepsInv,
         ResetOneKeepsInv, RemoveFileKeepsInv, ComeUpKeepsInv, SaveWritesKeepsInv
      DEF Next
    <2>3. QED
      BY <2>1, <2>2
  <1>3. QED
    BY <1>1, <1>2, PTL DEF Spec

\* At every moment the program can be killed, the state file tells how to undo
\* what it has done (SaveJobs before ApplyJobs, os.Remove after the last Reset).
THEOREM EffectsRecorded == Spec => []EffectsAreRecorded
  <1>1. JobsInv => EffectsAreRecorded
    BY DEF JobsInv
  <1>2. QED
    BY <1>1, JobsInvariant, PTL

\* createServer looks for the default route on a system without leftovers.
THEOREM DiscoveryIsClean == Spec => []DiscoverySeesCleanSystem
  <1>1. JobsInv => DiscoverySeesCleanSystem
    BY DEF JobsInv, DiscoverySeesCleanSystem
  <1>2. QED
    BY <1>1, JobsInvariant, PTL

\* The LIFO order of ResetJobs, interrupted anywhere and begun again, never
\* takes an effect away from under a later one.
THEOREM OrderIsKept == Spec => []BuiltInOrder
  <1>1. JobsInv => BuiltInOrder
    BY DEF JobsInv
  <1>2. QED
    BY <1>1, JobsInvariant, PTL

\* A program that ends by itself has undone all it did.
THEOREM ExitIsClean == Spec => []CleanExit
  <1>1. JobsInv => CleanExit
    BY DEF JobsInv, CleanExit
  <1>2. QED
    BY <1>1, JobsInvariant, PTL

-------------------------------------------------------------------------------
(* The program. *)

\* The steps of runApp.
LEMMA MainStepIsJobsStep ==
    ASSUME MainStep PROVE [Next]_vars
  <1>1. CASE StartTUIReturns \/ StartTUIFails \/ RuleSetFails \/ RunPACServer
    BY <1>1 DEF StartTUIReturns, StartTUIFails, RuleSetFails, RunPACServer
  <1>2. CASE RunAppReturns
    BY <1>2 DEF RunAppReturns, Next
  <1>3. CASE (~failed /\ Main(StartUp)) \/ Main(CleanedUp) \/ Main(ApplyFails) \/ Main(ApplyEnds)
    BY <1>3 DEF Main, Next
  <1>4. CASE \E m \in Mode : Main(CleanUp(m))
    BY <1>4 DEF Main, Next
  <1>5. CASE CreateServerFails \/ \E s \in {"tun", "http", "socks5"} : ListenAndServe(s)
    <2>1. PICK m \in host, ok \in BOOLEAN : ComeUp(m, ok)
      BY <1>5 DEF CreateServerFails, ListenAndServe
    <2>2. QED
      BY <2>1 DEF Next
  <1>6. CASE NoSetup \/ BuildJobsFails \/ NoStateFile
    BY <1>6 DEF NoSetup, BuildJobsFails, NoStateFile, Next
  <1>7. CASE SaveStarts \/ Apply \/ (appctx /\ Main(Stop))
    BY <1>7 DEF SaveStarts, Apply, Main, Next
  <1>8. CASE \E ok \in BOOLEAN : Main(ResetOne(ok)) \/ Main(RemoveFile(ok)) \/ SaveReturns(ok)
    BY <1>8 DEF Main, SaveReturns, Next
  <1>9. QED
    BY <1>1, <1>2, <1>3, <1>4, <1>5, <1>6, <1>7, <1>8 DEF MainStep

\* The steps of the goroutines and of the TUI, the signals and the deaths.
LEMMA OtherStepIsJobsStep ==
    ASSUME \/ ServerStep
           \/ \E withTUI \in BOOLEAN : RunApp(withTUI)
           \/ TUIReady
           \/ \E how \in {"quit", "failed"} : TUIEnds(how)
           \/ Signal
           \/ Killed
    PROVE  [Next]_vars
  BY DEF ServerStep, AcceptFails, BackoffEnds, AcceptEnds, CloseListener, ClosePAC, RunApp,
         TUIReady, TUIEnds, Signal, Killed, Next

\* Every behaviour of the process is one of NetworkJobs.
THEOREM ProgramImplementsJobs == ProgramSpec => Spec
  <1>1. ProgramInit => Init
    BY DEF ProgramInit
  <1>2. [ProgramNext]_allVars => [Next]_vars
    BY MainStepIsJobsStep, OtherStepIsJobsStep DEF ProgramNext, allVars
  <1>3. QED
    BY <1>1, <1>2, PTL DEF ProgramSpec, Spec

\* Killed at any point, stopped at any point: what the process changed is
\* recorded, in order, and gone when it has returned or looks for its route.
THEOREM ProgramIsCrashSafe ==
    ProgramSpec => [](EffectsAreRecorded /\ BuiltInOrder /\ CleanExit /\ DiscoverySeesCleanSystem)
  BY ProgramImplementsJobs, EffectsRecorded, OrderIsKept, ExitIsClean, DiscoveryIsClean, PTL

-------------------------------------------------------------------------------
(* Serving until somebody says stop. *)

\* The server is created and runApp has not returned yet.
Up ==
    \/ pc \in {"setup", "saving", "apply", "serving"}
    \/ pc = "reset" /\ why # "startup"

\* Before that, and after a start that failed, there is nothing to close.
NothingUp ==
    /\ app # "main" => pc = "down"
    /\ pc \in {"down", "cleanup", "discover"} \/ (pc = "reset" /\ why = "startup") =>
          listener = "none" /\ accept = "off" /\ pac = "none"

\* Only the end of appctx closes the listener, and only that ends the loop.
ListenerInv ==
    /\ listener = "closed" => appctx
    /\ accept = "ended" => listener = "closed"
    /\ listener \in {"none", "open", "closed"}
    /\ accept \in {"off", "accept", "backoff", "ended"}
    /\ Up => /\ listener # "none"
             /\ server # "tun" => accept # "off"

\* The PAC server is there while the settings are made, and stays unless the
\* setup fails or appctx ends.
PACInv ==
    /\ pac \in {"none", "open", "closed"}
    /\ pc = "setup" => pac # "closed"
    /\ server # "tun" /\ ~appctx /\ (\/ pc \in {"saving", "apply"}
                                     \/ pc = "serving" /\ deferred) => pac = "open"
    /\ server # "tun" /\ pc = "serving" /\ pac = "open" =>
          deferred \/ why = "rollback" \/ ModesOf(server) = {}

ServingInv == NothingUp /\ ListenerInv /\ PACInv

\* It holds when the process has not been started.
LEMMA ServingInit == ProgramInit => ServingInv
  BY DEF ProgramInit, Init, ServingInv, NothingUp, ListenerInv, PACInv, Up

\* The steps before the server exists, and the end of the process.
LEMMA StartKeepsServing ==
    ASSUME ServingInv,
           \/ StartTUIReturns \/ StartTUIFails \/ RunAppReturns \/ RuleSetFails
           \/ ~failed /\ Main(StartUp)
           \/ \E m \in Mode : Main(CleanUp(m))
           \/ Main(CleanedUp) \/ CreateServerFails
           \/ \E s \in {"tun", "http", "socks5"} : ListenAndServe(s)
    PROVE  ServingInv'
  <1> USE DEF ServingInv, NothingUp, ListenerInv, PACInv, Up, appVars, serverVars, vars
  <1>1. CASE StartTUIReturns
    BY <1>1 DEF StartTUIReturns, ModesOf
  <1>2. CASE RuleSetFails
    BY <1>2 DEF RuleSetFails, ModesOf
  <1>3. CASE StartTUIFails
    BY <1>3 DEF StartTUIFails, ProcessEnds
  <1>4. CASE RunAppReturns
    BY <1>4 DEF RunAppReturns, ProcessEnds, Exit, Gone
  <1>5. CASE ~failed /\ Main(StartUp)
    BY <1>5 DEF Main, StartUp
  <1>6. CASE \E m \in Mode : Main(CleanUp(m))
    BY <1>6 DEF Main, CleanUp, CallReset, AfterReset
  <1>7. CASE Main(CleanedUp)
    BY <1>7 DEF Main, CleanedUp
  <1>8. CASE CreateServerFails
    BY <1>8 DEF CreateServerFails, ComeUp
  <1>9. CASE \E s \in {"tun", "http", "socks5"} : ListenAndServe(s)
    BY <1>9 DEF ListenAndServe, ComeUp
  <1>10. QED
    BY <1>1, <1>2, <1>3, <1>4, <1>5, <1>6, <1>7, <1>8, <1>9

\* The network setup and its roll-back.
LEMMA SetupKeepsServing ==
    ASSUME ServingInv, JobsInv,
           \/ RunPACServer \/ NoSetup \/ BuildJobsFails \/ NoStateFile \/ SaveStarts \/ Apply
           \/ Main(ApplyFails) \/ Main(ApplyEnds) \/ (appctx /\ Main(Stop))
           \/ \E ok \in BOOLEAN : Main(ResetOne(ok)) \/ Main(RemoveFile(ok)) \/ SaveReturns(ok)
    PROVE  ServingInv'
  <1> USE DEF ServingInv, NothingUp, ListenerInv, PACInv, Up, appVars, serverVars, vars, ModesOf
  <1>0. /\ why \in {"startup", "rollback", "exit"}
        /\ pc \in {"setup", "saving"} => ~deferred
        /\ pc = "reset" /\ why # "exit" => ~deferred
    BY DEF JobsInv, TypeOK
  <1>1. CASE RunPACServer
    BY <1>0, <1>1 DEF RunPACServer
  <1>2. CASE NoSetup
    BY <1>0, <1>2 DEF NoSetup, SkipSetup
  <1>3. CASE BuildJobsFails
    BY <1>0, <1>3 DEF BuildJobsFails, SkipSetup
  <1>4. CASE NoStateFile
    BY <1>0, <1>4 DEF NoStateFile, SkipSetup
  <1>5. CASE SaveStarts
    BY <1>0, <1>5 DEF SaveStarts, Main, SaveTruncates
  <1>6. CASE Apply
    BY <1>0, <1>6 DEF Apply, Main, ApplyOne
  <1>7. CASE Main(ApplyFails)
    BY <1>0, <1>7 DEF Main, ApplyFails, CallReset, AfterReset
  <1>8. CASE Main(ApplyEnds)
    BY <1>0, <1>8 DEF Main, ApplyEnds
  <1>9. CASE appctx /\ Main(Stop)
    BY <1>0, <1>9 DEF Main, Stop, CallReset, AfterReset
  <1>10. ASSUME NEW ok \in BOOLEAN, Main(ResetOne(ok)) PROVE ServingInv'
    BY <1>0, <1>10 DEF Main, ResetOne
  <1>11. ASSUME NEW ok \in BOOLEAN, Main(RemoveFile(ok)) PROVE ServingInv'
    BY <1>0, <1>11 DEF Main, RemoveFile, AfterReset
  <1>12. ASSUME NEW ok \in BOOLEAN, SaveReturns(ok) PROVE ServingInv'
    BY <1>0, <1>12 DEF SaveReturns, SaveWrites
  <1>13. QED
    BY <1>1, <1>2, <1>3, <1>4, <1>5, <1>6, <1>7, <1>8, <1>9, <1>10, <1>11, <1>12

\* The goroutines, the TUI, the signals and the deaths.
LEMMA OthersKeepServing ==
    ASSUME ServingInv,
           \/ ServerStep
           \/ \E withTUI \in BOOLEAN : RunApp(withTUI)
           \/ TUIReady
           \/ \E how \in {"quit", "failed"} : TUIEnds(how)
           \/ Signal
           \/ Killed
    PROVE  ServingInv'
  <1> USE DEF ServingInv, NothingUp, ListenerInv, PACInv, Up, appVars, serverVars, vars
  <1>1. CASE AcceptFails
    BY <1>1 DEF AcceptFails, ModesOf
  <1>2. CASE BackoffEnds
    BY <1>2 DEF BackoffEnds, ModesOf
  <1>3. CASE AcceptEnds
    BY <1>3 DEF AcceptEnds, ModesOf
  <1>4. CASE CloseListener
    BY <1>4 DEF CloseListener, DeviceCloses, ModesOf
  <1>5. CASE ClosePAC
    BY <1>5 DEF ClosePAC, ModesOf
  <1>6. CASE \E withTUI \in BOOLEAN : RunApp(withTUI)
    BY <1>6 DEF RunApp, ModesOf
  <1>7. CASE TUIReady
    BY <1>7 DEF TUIReady, ModesOf
  <1>8. CASE \E how \in {"quit", "failed"} : TUIEnds(how)
    BY <1>8 DEF TUIEnds, ModesOf
  <1>9. CASE Signal
    BY <1>9 DEF Signal, ModesOf
  <1>10. CASE Killed
    BY <1>10 DEF Killed, Crash, Gone, ProcessEnds
  <1>11. QED
    BY <1>1, <1>2, <1>3, <1>4, <1>5, <1>6, <1>7, <1>8, <1>9, <1>10 DEF ServerStep

\* ServingInv is an invariant of the process.
THEOREM ProgramServing == ProgramSpec => []ServingInv
  <1>1. ServingInv /\ JobsInv /\ [ProgramNext]_allVars => ServingInv'
    <2> SUFFICES ASSUME ServingInv, JobsInv, [ProgramNext]_allVars PROVE ServingInv'
      OBVIOUS
    <2>1. CASE UNCHANGED allVars
      BY <2>1 DEF allVars, vars, appVars, serverVars, ServingInv, NothingUp, ListenerInv, PACInv,
                  Up, ModesOf
    <2>2. CASE MainStep
      BY <2>2, StartKeepsServing, SetupKeepsServing DEF MainStep
    <2>3. QED
      BY <2>1, <2>2, OthersKeepServing DEF ProgramNext
  <1>2. QED
    BY <1>1, ServingInit, ProgramImplementsJobs, JobsInvariant, PTL DEF ProgramSpec

\* A proxy that serves and has not been told to stop accepts connections, and the
\* PAC server is there exactly when the system settings point to it (or no
\* settings are made on this platform, or they could not be made).
THEOREM ProgramServesUntilStopped == ProgramSpec => []ServesUntilStopped
  <1>1. ServingInv /\ JobsInv => ServesUntilStopped
    BY DEF ServingInv, ListenerInv, PACInv, Up, JobsInv, ServesUntilStopped
  <1>2. QED
    BY <1>1, ProgramServing, ProgramImplementsJobs, JobsInvariant, PTL
==============================================================================
