------------------------------- MODULE Program -------------------------------
(***************************************************************************)
(* cmd/spoofdpi: the life of the process around the network configuration  *)
(* of NetworkJobs.                                                         *)
(*                                                                         *)
(*   runApp (main.go) and startTUI (tui.go), with the TUI's goroutine      *)
(*   ListenAndServe of the HTTP and SOCKS5 proxies: the accept loop with   *)
(*     its backoff, and the goroutine that closes the listener             *)
(*   SetupNetworkJobs: the PAC server and the goroutine that closes it     *)
(*                                                                         *)
(* appctx ends by a signal or with the TUI.  Every step of the program is  *)
(* a step of NetworkJobs or leaves its variables alone.                    *)
(***************************************************************************)
EXTENDS NetworkJobs

CONSTANTS ServerOf,    \* [Mode -> "tun", "http" or "socks5"]
          FirstDelay,  \* of BackoffOnError
          MaxDelay     \* its limit

ASSUME ProgramAssumption ==
    /\ ServerOf \in [Mode -> {"tun", "http", "socks5"}]
    /\ FirstDelay \in Nat \ {0}
    /\ MaxDelay \in Nat

VARIABLES app,       \* runApp: "none", "tui" (in startTUI), "main"
          tui,       \* its goroutine: "off", "running", "quit", "failed"
          ready,     \* readyChan is closed
          appctx,    \* is done
          failed,    \* runApp returns an error
          server,    \* the server created
          listener,  \* listener or TUN device: "none", "open", "closed"
          accept,    \* accept loop: "off", "accept", "backoff", "ended"
          delay,     \* of the accept loop
          pac        \* PAC server: "none", "open", "closed"

serverVars == <<server, listener, accept, delay, pac>>
appVars    == <<app, tui, ready, appctx, failed>>
allVars    == <<vars, appVars, serverVars>>

ProgramInit ==
    /\ Init
    /\ app = "none"
    /\ tui = "off"
    /\ ready = FALSE
    /\ appctx = FALSE
    /\ failed = FALSE
    /\ server = "none"
    /\ listener = "none"
    /\ accept = "off"
    /\ delay = 0
    /\ pac = "none"

-------------------------------------------------------------------------------
(* startTUI, signals, and the end of the process. *)

RunApp(withTUI) ==
    /\ app = "none"
    /\ app' = IF withTUI THEN "tui" ELSE "main"
    /\ tui' = IF withTUI THEN "running" ELSE "off"
    /\ UNCHANGED <<vars, ready, appctx, failed, serverVars>>

\* The first tea.WindowSizeMsg.
TUIReady ==
    /\ tui = "running"
    /\ ~ready
    /\ ready' = TRUE
    /\ UNCHANGED <<vars, app, tui, appctx, failed, serverVars>>

\* Slip: the deferred cancel is missing.
SlipNoCancel(how) ==
    /\ tui = "running"
    /\ tui' = how
    /\ UNCHANGED <<vars, app, ready, appctx, failed, serverVars>>

\* p.Run returns, with an error for errChan or (Ctrl+C, SIGTERM) without one.
TUIEnds(how) ==
    /\ tui = "running"
    /\ tui' = how
    /\ appctx' = TRUE
    /\ UNCHANGED <<vars, app, ready, failed, serverVars>>

\* The select of startTUI.
StartTUIReturns ==
    /\ app = "tui"
    /\ ready
    /\ app' = "main"
    /\ UNCHANGED <<vars, tui, ready, appctx, failed, serverVars>>

Signal ==
    /\ app # "none"
    /\ ~appctx
    /\ appctx' = TRUE
    /\ UNCHANGED <<vars, app, tui, ready, failed, serverVars>>

\* Nothing of the process is left.
ProcessEnds ==
    /\ app' = "none"
    /\ tui' = "off"
    /\ ready' = FALSE
    /\ appctx' = FALSE
    /\ failed' = FALSE
    /\ server' = "none"
    /\ listener' = "none"
    /\ accept' = "off"
    /\ delay' = 0
    /\ pac' = "none"

StartTUIFails ==
    /\ app = "tui"
    /\ tui = "failed"
    /\ ProcessEnds
    /\ UNCHANGED vars

\* runApp returns.  With a TUI an error is shown until the user dismisses it.
RunAppReturns ==
    /\ failed /\ tui # "off" => appctx
    /\ \/ Exit
       \/ failed /\ pc = "down" /\ UNCHANGED vars
    /\ ProcessEnds

Killed ==
    /\ app # "none"
    /\ pc # "exiting"
    /\ IF pc = "down" THEN UNCHANGED vars ELSE Crash
    /\ ProcessEnds

-------------------------------------------------------------------------------
(* createServer and ListenAndServe. *)

\* The modes a server has a state file for on this platform (at most one).
ModesOf(s) == {m \in host : ServerOf[m] = s}

Main(A) == app = "main" /\ A /\ UNCHANGED <<appVars, serverVars>>

\* ruleSet.Add refuses a rule, before createServer has cleaned up.
RuleSetFails ==
    /\ app = "main"
    /\ pc = "down"
    /\ ~failed
    /\ failed' = TRUE
    /\ UNCHANGED <<vars, app, tui, ready, appctx, serverVars>>

\* Route, pcap handles, server: an error is returned by runApp.
CreateServerFails ==
    /\ app = "main"
    /\ \E m \in host : ComeUp(m, FALSE)
    /\ failed' = TRUE
    /\ UNCHANGED <<app, tui, ready, appctx, serverVars>>

ListenAndServe(s) ==
    /\ app = "main"
    /\ \E m \in host : (ModesOf(s) = {} \/ m \in ModesOf(s)) /\ ComeUp(m, TRUE)
    /\ server' = s
    /\ listener' = "open"
    /\ accept' = IF s = "tun" THEN "off" ELSE "accept"
    /\ UNCHANGED <<appVars, delay, pac>>

-------------------------------------------------------------------------------
(* SetupNetworkJobs. *)

\* RunPACServer; the proxies call it before anything else.
RunPACServer ==
    /\ app = "main"
    /\ pc = "setup"
    /\ server # "tun"
    /\ pac = "none"
    /\ pac' = "open"
    /\ UNCHANGED <<vars, appVars, server, listener, accept, delay>>

\* No automatic configuration, or the PAC server does not start; the TUN server
\* has none, and its BuildJobs fails.
NoSetup ==
    /\ app = "main"
    /\ pac = "none"
    /\ SkipSetup
    /\ UNCHANGED <<appVars, serverVars>>

\* BuildJobs of a proxy fails, where it does anything.
BuildJobsFails ==
    /\ app = "main"
    /\ pac # "none"
    /\ ModesOf(server) # {}
    /\ SkipSetup
    /\ pac' = "closed"
    /\ UNCHANGED <<appVars, server, listener, accept, delay>>

\* There is no state file: SaveJobs, ApplyJobs and ResetJobs do nothing.
NoStateFile ==
    /\ app = "main"
    /\ pac # "none"
    /\ ModesOf(server) = {}
    /\ SkipSetup
    /\ UNCHANGED <<appVars, serverVars>>

SaveStarts ==
    /\ server = "tun" \/ pac # "none"
    /\ ModesOf(server) # {}
    /\ Main(SaveTruncates)

\* Slip: the PAC server of a failed setup is left running.
SlipLeavesPAC(ok) ==
    /\ app = "main"
    /\ SaveWrites(ok)
    /\ UNCHANGED <<appVars, serverVars>>

SaveReturns(ok) ==
    /\ app = "main"
    /\ SaveWrites(ok)
    /\ pac' = IF ok \/ server = "tun" THEN pac ELSE "closed"
    /\ UNCHANGED <<appVars, server, listener, accept, delay>>

\* A command on a TUN device that is closed fails.
Apply ==
    /\ ~(idx \in Volatile \ NoApply /\ listener = "closed")
    /\ Main(ApplyOne)

-------------------------------------------------------------------------------
(* The goroutines of the servers. *)

\* BackoffOnError.
Backoff(d) ==
    LET doubled == IF d = 0 THEN FirstDelay ELSE d * 2
    IN  IF doubled > MaxDelay THEN MaxDelay ELSE doubled

\* Accept fails, and not because the listener is closed.  The HTTP proxy keeps
\* the delay, the SOCKS5 proxy begins with zero every time.
AcceptFails ==
    /\ accept = "accept"
    /\ listener = "open"
    /\ accept' = "backoff"
    /\ delay' = IF server = "http" THEN Backoff(delay) ELSE delay
    /\ UNCHANGED <<vars, appVars, server, listener, pac>>

BackoffEnds ==
    /\ accept = "backoff"
    /\ accept' = "accept"
    /\ UNCHANGED <<vars, appVars, server, listener, delay, pac>>

\* net.ErrClosed.
AcceptEnds ==
    /\ accept = "accept"
    /\ listener = "closed"
    /\ accept' = "ended"
    /\ UNCHANGED <<vars, appVars, server, listener, delay, pac>>

\* <-appctx.Done() of ListenAndServe.
CloseListener ==
    /\ appctx
    /\ listener = "open"
    /\ listener' = "closed"
    /\ IF server = "tun" /\ present \cap Volatile # {} THEN DeviceCloses ELSE UNCHANGED vars
    /\ UNCHANGED <<appVars, server, accept, delay, pac>>

\* <-ctx.Done() of SetupNetworkJobs, once it has returned.
ClosePAC ==
    /\ appctx
    /\ pac = "open"
    /\ pc \notin {"setup", "saving"}
    /\ pac' = "closed"
    /\ UNCHANGED <<vars, appVars, server, listener, accept, delay>>

-------------------------------------------------------------------------------
\* What runApp does without waiting for anybody.
MainStep ==
    \/ StartTUIReturns
    \/ StartTUIFails
    \/ RunAppReturns
    \/ RuleSetFails
    \/ ~failed /\ Main(StartUp)
    \/ \E m \in Mode : Main(CleanUp(m))
    \/ Main(CleanedUp)
    \/ CreateServerFails
    \/ \E s \in {"tun", "http", "socks5"} : ListenAndServe(s)
    \/ RunPACServer
    \/ NoSetup
    \/ BuildJobsFails
    \/ NoStateFile
    \/ SaveStarts
    \/ Apply
    \/ Main(ApplyFails)
    \/ Main(ApplyEnds)
    \/ appctx /\ Main(Stop)
    \/ \E ok \in BOOLEAN : Main(ResetOne(ok)) \/ Main(RemoveFile(ok)) \/ SaveReturns(ok)

ServerStep == AcceptFails \/ BackoffEnds \/ AcceptEnds \/ CloseListener \/ ClosePAC

ProgramNext ==
    \/ \E withTUI \in BOOLEAN : RunApp(withTUI)
    \/ TUIReady
    \/ \E how \in {"quit", "failed"} : TUIEnds(how)
    \/ Signal
    \/ Killed
    \/ MainStep
    \/ ServerStep

\* runApp goes on (the commands it runs return), and the terminal tells the TUI
\* its size unless it ends before.
ProgramSpec ==
    /\ ProgramInit
    /\ [][ProgramNext]_allVars
    /\ WF_allVars(MainStep)
    /\ WF_allVars(TUIReady)

-------------------------------------------------------------------------------
(* Properties. *)

\* Until somebody asks the program to stop, a proxy that serves has its listener
\* open and an accept loop that comes back to Accept; the PAC server is there
\* when the system settings point to it, and it is not there after a setup that
\* failed half-way.
ServesUntilStopped ==
    ~appctx /\ pc = "serving" /\ server # "tun" =>
        /\ listener = "open"
        /\ accept \in {"accept", "backoff"}
        /\ Ours # {} => pac = "open"
        /\ pac = "open" => deferred \/ why = "rollback" \/ ModesOf(server) = {}

\* startTUI waits for a readyChan or an errChan that nobody will use any more:
\* the TUI has ended without an error before its first window size.
Stuck == app = "tui" /\ tui = "quit" /\ ~ready

\* A signal or the end of the TUI ends the program, whatever it was at: in the
\* middle of a start, of a setup that fails, or with an error on the screen.
\* Stuck is the one place from which it does not get away.
StopEndsProgram == appctx \/ tui \in {"quit", "failed"} ~> app = "none" \/ Stuck
==============================================================================
