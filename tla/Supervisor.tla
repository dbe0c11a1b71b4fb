----------------------------- MODULE Supervisor -----------------------------
(***************************************************************************)
(* One supervised Codex session: the anchor (the process the shell sees),  *)
(* the coordinator (owner of the outer terminal and of lease A) and the    *)
(* guardian (owner of the provider children and of lease B).               *)
(*                                                                         *)
(* Coordinator and guardian talk over one socket, each running the         *)
(* validator of Lifecycle over its own transcript; the guardian reports    *)
(* the end of the session to the anchor over a completion channel.  Any of *)
(* the three may be killed at any step, any bounded wait may run out and   *)
(* any cleanup may fail; the constants bound how often.                    *)
(*                                                                         *)
(* Lease A is held exactly while the coordinator process exists and lease  *)
(* B while the guardian process does, so neither has a variable.           *)
(***************************************************************************)
EXTENDS Lifecycle, Naturals, FiniteSets, Sequences

CONSTANTS
  Latched,     \* the signals the user may send: subset of SignalLatch
  Killable,    \* the processes that may be killed
  MaxSignals,  \* bound on signals
  MaxTrouble   \* bound on kills, deadlines and failed cleanups together

SignalLatch == UnixSignal \cup {"tstp", "winch", "cont"}
Process == {"anchor", "coordinator", "guardian"}

ASSUME SupervisorAssumption ==
  /\ Latched \subseteq SignalLatch \ {"cont"}
  /\ Killable \subseteq Process
  /\ {MaxSignals, MaxTrouble} \subseteq Nat

VARIABLES
  cpc, cv,        \* coordinator: control point and validator
  latch,          \* its pending signal bits
  gpc, gv,        \* guardian: control point and validator
  gbad,           \* its transcript is poisoned by an earlier error
  gcond,          \* its LifecycleCondition during shutdown
  gend,           \* the disposition its shutdown projects
  gexit,          \* its exit status
  retry,          \* RetainedRecoveryBudget: TRUE while Available
  stage,          \* where a retained shutdown stopped
  app, tui,       \* the provider children
  worker,         \* how the monitor worker was joined
  apc,            \* anchor: control point
  completion,     \* the completion channel as the anchor sees it
  up, down,       \* the socket: to the guardian, to the coordinator
  tty,            \* the outer terminal
  unrestored,     \* history: the ends whose last restore left it raw
  refused,        \* history: the frames a validator refused, and where
  signals, trouble

cvars == <<cpc, cv, latch>>
session == <<app, tui, worker>>
gshut == <<gcond, gend, gexit, retry, stage>>
gvars == <<gpc, gv, gbad, gshut, session>>
wire == <<up, down>>
budget == <<signals, trouble>>
vars == <<cvars, gvars, apc, completion, wire, tty, unrestored, refused, budget>>

-----------------------------------------------------------------------------
CoordinatorPc ==
  {"lease", "start", "boot", "arm", "verify", "ready", "gate", "gateack",
   "active", "signal", "resize", "suspend", "suspending", "stopping",
   "stopped", "suspended", "poll", "resuming", "resume", "resumed",
   "quiesce", "restore", "restored", "disarm", "report", "wait",
   "retain", "retained", "parked", "done", "killed"}

GuardianPc ==
  {"lease", "start", "arm", "armed", "app", "vapp", "tui", "vtui", "ready",
   "gate", "active", "suspended", "quiesce", "quiet", "await", "cleanup",
   "disarm", "joined", "publish", "retained", "parked", "exited", "killed"}

AnchorPc ==
  {"watch", "suspending", "stopped", "emergency", "parked", "done", "killed"}

SessionTypeOK ==
  /\ cpc \in CoordinatorPc /\ cv \in Validator /\ latch \subseteq SignalLatch
  /\ gpc \in GuardianPc /\ gv \in Validator /\ gbad \in BOOLEAN
  /\ gcond \in {"healthy", "lost", "invalid"}
  /\ gend \in Disposition \cup {"none"} /\ gexit \in Disposition \cup {"none"}
  /\ retry \in BOOLEAN /\ stage \in {"none", "quiesce", "restore", "cleanup"}
  /\ app \in {"none", "live", "gone"} /\ tui \in {"none", "live", "gone"}
  /\ worker \in {"none", "clean", "dirty"}
  /\ apc \in AnchorPc
  /\ completion \in {"open", "released", "retained", "closed"}
  /\ up \in Seq(Command) /\ down \in Seq(Event)
  /\ tty \in {"cooked", "raw"}
  /\ refused \subseteq {"coordinator", "guardian"} \X LifecycleState \X
                        {f.kind : f \in Command \cup Event} \X {f.arg : f \in Command \cup Event}
  /\ signals \in 0..MaxSignals /\ trouble \in 0..MaxTrouble

TypeOK == SessionTypeOK /\ unrestored \subseteq {"anchor", "coordinator"}

Init ==
  /\ cpc = "lease" /\ cv = before_start /\ latch = {}
  /\ gpc = "lease" /\ gv = before_start /\ gbad = FALSE
  /\ gcond = "healthy" /\ gend = "none" /\ gexit = "none"
  /\ retry = TRUE /\ stage = "none"
  /\ app = "none" /\ tui = "none" /\ worker = "none"
  /\ apc = "watch" /\ completion = "open"
  /\ up = << >> /\ down = << >>
  /\ tty = "cooked" /\ unrestored = {} /\ refused = {}
  /\ signals = 0 /\ trouble = 0

Fault == trouble < MaxTrouble /\ trouble' = trouble + 1 /\ UNCHANGED signals

(* A process that exited, parked or was killed has closed its end of the    *)
(* socket; the coordinator shuts it down on the way into retention.         *)
COpen == cpc \notin {"retained", "parked", "done", "killed"}
GOpen == gpc \notin {"parked", "exited", "killed"}
CoordinatorGone == cpc \in {"done", "killed"}
GuardianGone == gpc \in {"exited", "killed"}

(* A socket closed over unread frames resets its peer at once; otherwise    *)
(* the peer reads what was sent and then finds the end of the stream.       *)
CLost == ~GOpen /\ (down = << >> \/ up # << >>)
GLost == ~COpen /\ (up = << >> \/ (cpc = "killed" /\ down # << >>))

(* A restore is refused when the tty or its foreground group is no longer   *)
(* the captured one, and fails before or after the attributes are applied.  *)
RestoreFails == tty' \in {tty, "cooked"}

(* The last attempt of process p, which goes on whether it succeeds or not. *)
LastRestore(p) ==
  \/ tty' = "cooked" /\ UNCHANGED unrestored
  \/ tty = "raw" /\ UNCHANGED tty /\ unrestored' = unrestored \cup {p}

-----------------------------------------------------------------------------
(* The coordinator. *)

(* Sends command c.  A closed peer, or its own validator, ends the drive:   *)
(* every error of the coordinator leads to retention.                       *)
CSend(c, next) ==
  LET w == AcceptCommand(cv, c) IN
  IF w # {} /\ GOpen
  THEN /\ cv' \in w /\ up' = Append(up, c) /\ cpc' = next
       /\ UNCHANGED <<down, refused>>
  ELSE /\ cpc' = "retain"
       /\ refused' = IF w = {} THEN refused \cup {<<"coordinator", cv.state, c.kind, c.arg>>}
                     ELSE refused
       /\ UNCHANGED <<cv, wire>>

CQuiet == UNCHANGED <<gvars, apc, completion, unrestored>>

(* Where the drive goes from a control point when it reads an event of a    *)
(* kind.  Nothing reads UsageExhausted.                                      *)
Reads ==
  {<<"lease", "LeaseCommitted", "start">>,
   <<"boot", "TerminalArmed", "arm">>,
   <<"boot", "ChildStarted", "verify">>,
   <<"boot", "Ready", "ready">>,
   <<"gateack", "InputGateOpened", "active">>,
   <<"resize", "ResizeApplied", "active">>,
   <<"suspending", "Suspended", "stopping">>,
   <<"resume", "Resumed", "gate">>,
   <<"disarm", "TerminalRecoveryDisarmed", "report">>,
   <<"report", "Failed", "report">>,
   <<"report", "ChildrenReaped", "wait">>}
    \cup {<<pc, "TerminalQuiesced", "restore">> :
            pc \in {"active", "signal", "resize", "quiesce"}}
    \cup {<<pc, "Failed", "quiesce">> :
            pc \in {"boot", "verify", "gateack", "active", "signal", "resize",
                    "suspending", "poll", "resume", "quiesce"}}

AfterEvent(e) ==
  IF cpc = "signal" /\ e.kind = "SignalForwarded"
  THEN IF e.arg \notin Interactive THEN "quiesce"
       ELSE IF cv.was_suspended THEN "poll" ELSE "active"
  ELSE LET r == {m[3] : m \in {m \in Reads : m[1] = cpc /\ m[2] = e.kind}}
       IN IF r = {} THEN "retain" ELSE CHOOSE pc \in r : TRUE

Receiving ==
  {"lease", "boot", "verify", "gateack", "active", "signal", "resize",
   "suspending", "poll", "resume", "quiesce", "disarm", "report"}

(* One lifecycle event is read and validated. *)
CReceive ==
  /\ cpc \in Receiving /\ down # << >>
  /\ LET e == Head(down)
         w == AcceptEvent(cv, e) IN
     IF w # {}
     THEN /\ cv' \in w /\ cpc' = AfterEvent(e) /\ UNCHANGED refused
     ELSE /\ cpc' = "retain" /\ UNCHANGED cv
          /\ refused' = refused \cup {<<"coordinator", cv.state, e.kind, e.arg>>}
  /\ down' = Tail(down)
  /\ CQuiet /\ UNCHANGED <<latch, up, tty, budget>>

(* The guardian's end is closed, or the phase deadline passed. *)
CFail == cpc' = "retain" /\ CQuiet /\ UNCHANGED <<cv, latch, wire, tty, refused>>

(* Mutant of CPeerLost: the wait for quiescence does not look at the guardian. *)
CPeerLostUnseen ==
  cpc \in Receiving \ {"quiesce"} /\ CLost /\ CFail /\ UNCHANGED budget

CPeerLost == cpc \in Receiving /\ CLost /\ CFail /\ UNCHANGED budget

CDeadline == cpc \in Receiving \cup {"wait"} /\ down = << >> /\ Fault /\ CFail

(* A retained guardian answers nothing more: the deadline does pass. *)
CStarved == /\ cpc \in Receiving /\ down = << >> /\ gpc = "retained"
            /\ CFail /\ UNCHANGED budget

(* Mutant of CCommands: input opens without the acknowledgement. *)
CCommandsEager ==
  {<<"start", Plain("Start"), "boot">>,
   <<"arm", Plain("TerminalArmAccepted"), "boot">>,
   <<"gate", Plain("OpenInputGate"), "active">>,
   <<"suspend", Plain("Suspend"), "suspending">>,
   <<"resumed", Plain("Resume"), "resume">>,
   <<"restored", Plain("TerminalRestored"), "disarm">>}

(* A command of the drive, from a control point that only sends. *)
CCommands ==
  {<<"start", Plain("Start"), "boot">>,
   <<"arm", Plain("TerminalArmAccepted"), "boot">>,
   <<"gate", Plain("OpenInputGate"), "gateack">>,
   <<"suspend", Plain("Suspend"), "suspending">>,
   <<"resumed", Plain("Resume"), "resume">>,
   <<"restored", Plain("TerminalRestored"), "disarm">>}

CCommand ==
  /\ \E m \in CCommands : cpc = m[1] /\ CSend(m[2], m[3])
  /\ CQuiet /\ UNCHANGED <<latch, tty, budget>>

(* The descriptors of the reported child were scanned and none leaks. *)
CVerify ==
  /\ cpc = "verify"
  /\ CSend(Frame("ChildDescriptorsVerified",
                 IF cv.state = "AwaitAppDescriptorVerification" THEN "app" ELSE "tui"),
           "boot")
  /\ CQuiet /\ UNCHANGED <<latch, tty, budget>>

(* mark_ready and enter_initial_raw; enter_resume_raw with the stale resize *)
(* bit cleared.  A raw mode that does not read back is rolled back, which   *)
(* may fail too.                                                             *)
CEnterRaw ==
  /\ cpc \in {"ready", "resuming"}
  /\ \/ /\ tty' = "raw"
        /\ cpc' = IF cpc = "ready" THEN "gate" ELSE "resumed"
        /\ latch' = IF cpc = "ready" THEN latch ELSE latch \ {"winch"}
     \/ tty' \in {"cooked", "raw"} /\ cpc' = "retain" /\ UNCHANGED latch
  /\ CQuiet /\ UNCHANGED <<cv, wire, refused, budget>>

(* The highest pending bit, in the reviewed priority of next_active and     *)
(* next_suspended.                                                           *)
FirstOf(order) ==
  LET i == {n \in DOMAIN order : order[n] \in latch}
  IN IF i = {} THEN "none" ELSE order[CHOOSE n \in i : \A m \in i : n <= m]

next_active == FirstOf(<<"hup", "term", "tstp", "int", "quit", "winch">>)
next_suspended == FirstOf(<<"hup", "term", "int", "quit", "cont">>)

CControl ==
  /\ cpc = "active" /\ next_active # "none"
  /\ latch' = latch \ {next_active}
  /\ CASE next_active = "tstp" ->   \* input is paused before Suspend is sent
           cpc' = "suspend" /\ UNCHANGED <<cv, wire, refused>>
       [] next_active = "winch" -> CSend(Plain("Resize"), "resize")
       [] OTHER -> CSend(Frame("Signal", next_active), "signal")
  /\ CQuiet /\ UNCHANGED <<tty, budget>>

(* The terminal is restored, stale continuations are discarded and the      *)
(* coordinator stops itself.                                                 *)
CStop ==
  /\ cpc = "stopping"
  /\ \/ cpc' = "stopped" /\ tty' = "cooked" /\ latch' = latch \ {"cont"}
     \/ cpc' = "retain" /\ RestoreFails /\ UNCHANGED latch
  /\ CQuiet /\ UNCHANGED <<cv, wire, refused, budget>>

(* After the continuation every pending signal precedes the resume, and     *)
(* only a forwarded one lets the loop look at the socket before it.         *)
CSuspended ==
  /\ cpc = "suspended" /\ next_suspended # "none"
  /\ latch' = latch \ {next_suspended}
  /\ IF next_suspended = "cont"
     THEN cpc' = "resuming" /\ UNCHANGED <<cv, wire, refused>>
     ELSE CSend(Frame("Signal", next_suspended), "signal")
  /\ CQuiet /\ UNCHANGED <<tty, budget>>

CPollIdle ==
  /\ cpc = "poll" /\ down = << >> /\ GOpen
  /\ cpc' = "suspended"
  /\ CQuiet /\ UNCHANGED <<cv, latch, wire, tty, refused, budget>>

(* finish_shutdown: input gone, output drained, terminal restored. *)
CRestore ==
  /\ cpc = "restore"
  /\ \/ cpc' = "restored" /\ tty' = "cooked"
     \/ cpc' = "retain" /\ RestoreFails
  /\ CQuiet /\ UNCHANGED <<cv, latch, wire, refused, budget>>

(* Mutant of CFinish: the report is trusted without the guardian's exit. *)
CFinishUnwaited ==
  /\ cpc = "wait"
  /\ cpc' = "done"
  /\ CQuiet /\ UNCHANGED <<cv, latch, wire, tty, refused, budget>>

(* The guardian's exit status must be the one its report announced. *)
CFinish ==
  /\ cpc = "wait" /\ GuardianGone
  /\ cpc' = IF gpc = "exited" /\ gexit = cv.exit THEN "done" ELSE "retain"
  /\ CQuiet /\ UNCHANGED <<cv, latch, wire, tty, refused, budget>>

(* Retention: the socket is shut first, then prepare_terminal_for_retention *)
(* tries to restore the terminal; either way lease A stays with a process   *)
(* that never exits.                                                         *)
CRetain ==
  /\ \/ cpc = "retain" /\ cpc' = "retained" /\ UNCHANGED <<tty, unrestored>>
     \/ cpc = "retained" /\ cpc' = "parked" /\ LastRestore("coordinator")
  /\ UNCHANGED <<gvars, apc, completion, cv, latch, wire, refused, budget>>

CStep == \/ CReceive \/ CPeerLost \/ CStarved \/ CCommand \/ CVerify
         \/ CEnterRaw \/ CControl \/ CStop \/ CSuspended \/ CPollIdle
         \/ CRestore \/ CFinish \/ CRetain

-----------------------------------------------------------------------------
(* The guardian. *)

Failed(f) == Frame("Failed", f)

(* Records event e in the transcript v and sends it.  Every error poisons   *)
(* the transcript: later frames are refused whatever they are.              *)
GEmitFrom(v, e) ==
  LET w == AcceptEvent(v, e) IN
  IF gbad \/ w = {}
  THEN /\ gbad' = TRUE /\ gv' = v /\ UNCHANGED down
       /\ refused' = IF gbad THEN refused
                     ELSE refused \cup {<<"guardian", v.state, e.kind, e.arg>>}
  ELSE /\ gv' \in w /\ gbad' = ~COpen
       /\ down' = IF COpen THEN Append(down, e) ELSE down
       /\ UNCHANGED refused

Emitted(v, e) ==
  CASE gbad \/ AcceptEvent(v, e) = {} -> "invalid"
    [] ~gbad /\ AcceptEvent(v, e) # {} /\ ~COpen -> "lost"
    [] OTHER -> "healthy"

GQuiet == UNCHANGED <<cvars, apc, tty, unrestored>>

(* begin_session_shutdown and finish_startup_failure, up to the quiescence. *)
Shut(disposition, condition) ==
  /\ gpc' = "quiesce" /\ gend' = disposition /\ gcond' = condition
  /\ UNCHANGED <<gexit, retry, stage>>

(* A failure is announced while the lifecycle is healthy. *)
ShutFailed(v, f) == GEmitFrom(v, Failed(f)) /\ Shut("failure", Emitted(v, Failed(f)))

(* The process ends without a completion frame: the channel closes. *)
Unpublished == IF completion = "open" THEN "closed" ELSE completion

GExit(disposition) ==
  gpc' = "exited" /\ gexit' = disposition /\ UNCHANGED <<gcond, gend, retry, stage>>

Goto(pc) == gpc' = pc /\ UNCHANGED gshut

(* Bootstrap: lease B is admitted, the terminal armed.  Any error before    *)
(* the armed terminal is accepted ends the process.                         *)
GBootEmit ==
  /\ gpc \in {"lease", "arm"}
  /\ LET e == Plain(IF gpc = "lease" THEN "LeaseCommitted" ELSE "TerminalArmed")
         next == IF gpc = "lease" THEN "start" ELSE "armed" IN
     /\ GEmitFrom(gv, e)
     /\ IF Emitted(gv, e) = "healthy"
        THEN Goto(next) /\ UNCHANGED completion
        ELSE GExit("failure") /\ completion' = Unpublished
  /\ GQuiet /\ UNCHANGED <<up, session, budget>>

GBootReceive ==
  /\ gpc \in {"start", "armed"}
  /\ \/ /\ up # << >>
        /\ gv' \in AcceptCommand(gv, Head(up)) /\ up' = Tail(up)
        /\ Goto(IF gpc = "start" THEN "arm" ELSE "app")
        /\ UNCHANGED <<gbad, completion>>
     \/ /\ GLost
        /\ GExit("failure") /\ completion' = Unpublished
        /\ UNCHANGED <<gv, gbad, up>>
  /\ GQuiet /\ UNCHANGED <<session, down, refused, budget>>

(* Startup of the App server, then of the monitor and the TUI.  The child   *)
(* is reported and the guardian waits for the descriptor verification.      *)
GStartChild ==
  /\ gpc \in ChildRole
  /\ \/ LET e == Frame("ChildStarted", gpc) IN   \* the child is running
        /\ app' = IF gpc = "app" THEN "live" ELSE app
        /\ tui' = IF gpc = "tui" THEN "live" ELSE tui
        /\ GEmitFrom(gv, e)
        /\ IF Emitted(gv, e) = "healthy"
           THEN Goto(IF gpc = "app" THEN "vapp" ELSE "vtui")
           ELSE Shut("failure", Emitted(gv, e))
     \/ ShutFailed(gv, "other") /\ UNCHANGED <<app, tui>>
  /\ GQuiet /\ UNCHANGED <<worker, completion, up, budget>>

(* A frame the transcript refuses, in a loop or while a child is verified,  *)
(* poisons it and shuts the session down.  CrossingFramesAbsorbed says that *)
(* it does not come to this.                                                *)
GRefuse(c) ==
  /\ gbad' = TRUE
  /\ refused' = refused \cup {<<"guardian", gv.state, c.kind, c.arg>>}
  /\ Shut("failure", "invalid")
  /\ UNCHANGED <<gv, down>>

GVerified ==
  /\ gpc \in {"vapp", "vtui"} /\ up # << >>
  /\ up' = Tail(up)
  /\ LET w == AcceptCommand(gv, Head(up)) IN
     IF w = {} THEN GRefuse(Head(up))
     ELSE /\ gv' \in w
          /\ Goto(IF gpc = "vapp" THEN "tui" ELSE "ready")
          /\ UNCHANGED <<gbad, down, refused>>
  /\ GQuiet /\ UNCHANGED <<session, completion, budget>>

GReady ==
  /\ gpc = "ready"
  /\ GEmitFrom(gv, Plain("Ready"))
  /\ IF Emitted(gv, Plain("Ready")) = "healthy" THEN Goto("gate")
     ELSE Shut("failure", Emitted(gv, Plain("Ready")))
  /\ GQuiet /\ UNCHANGED <<session, completion, up, budget>>

Loop == {"gate", "active", "suspended"}

(* A component of the session failed, or its terminal operation did. *)
GComponentFails ==
  /\ gpc \in Loop \cup {"ready"}
  /\ ShutFailed(gv, "other")
  /\ GQuiet /\ UNCHANGED <<session, completion, up, budget>>

(* The TUI ended and its output drained: the shutdown needs no announcement *)
(* before TerminalQuiesced.                                                 *)
GNaturalExit ==
  /\ gpc = "active"
  /\ Shut("natural", "healthy")
  /\ GQuiet /\ UNCHANGED <<gv, gbad, session, completion, wire, refused, budget>>

(* The monitor saw the usage limit. *)
GUsageExhausted ==
  /\ gpc = "active"
  /\ GEmitFrom(gv, Plain("UsageExhausted"))
  /\ Shut(IF Emitted(gv, Plain("UsageExhausted")) = "healthy" THEN "usage" ELSE "failure",
          Emitted(gv, Plain("UsageExhausted")))
  /\ GQuiet /\ UNCHANGED <<session, completion, up, budget>>

(* The anchor's end of the completion channel is gone. *)
OwnerLost == apc \in {"killed", "done"}

GRecover ==
  /\ gpc \in Loop /\ OwnerLost
  /\ \E v \in arm_recovery_command_race(gv) : ShutFailed(v, "recovery")
  /\ GQuiet /\ UNCHANGED <<session, completion, up, budget>>

(* The commands a loop serves: the event that acknowledges each and the     *)
(* loop that follows.  A forwarded HUP or TERM begins the shutdown.         *)
Acknowledged(c) ==
  CASE c.kind = "OpenInputGate" -> Plain("InputGateOpened")
    [] c.kind = "Resize" -> Plain("ResizeApplied")
    [] c.kind = "Suspend" -> Plain("Suspended")
    [] c.kind = "Resume" -> Plain("Resumed")
    [] OTHER -> Frame("SignalForwarded", c.arg)

NextLoop(c) ==
  CASE c.kind = "OpenInputGate" -> "active"
    [] c.kind = "Suspend" -> "suspended"
    [] c.kind = "Resume" -> "gate"
    [] OTHER -> gpc

GCommand ==
  /\ gpc \in Loop /\ up # << >>
  /\ up' = Tail(up)
  /\ LET c == Head(up) IN
     IF AcceptCommand(gv, c) = {} THEN GRefuse(c)
     ELSE \E v \in AcceptCommand(gv, c) :
       \/ LET e == Acknowledged(c) IN
          /\ GEmitFrom(v, e)
          /\ IF Emitted(v, e) # "healthy" THEN Shut("failure", Emitted(v, e))
             ELSE IF c.kind = "Signal" /\ c.arg \notin Interactive
             THEN Shut(c.arg, "healthy")
             ELSE Goto(NextLoop(c))
       \/ ShutFailed(v, "other")   \* the operation failed
  /\ GQuiet /\ UNCHANGED <<session, completion, budget>>

GPeerLost ==
  /\ gpc \in Loop \cup {"vapp", "vtui"} /\ GLost
  /\ gbad' = TRUE /\ Shut("failure", "lost")
  /\ GQuiet /\ UNCHANGED <<gv, session, completion, wire, refused, budget>>

(* The wait for a child's verification ran out. *)
GDeadline ==
  /\ gpc \in {"vapp", "vtui"} /\ up = << >> /\ Fault
  /\ gbad' = TRUE /\ Shut("failure", "invalid")
  /\ GQuiet /\ UNCHANGED <<gv, session, completion, wire, refused>>

-----------------------------------------------------------------------------
(* The guardian's shutdown. *)

(* Retention.  One retry is possible, and only for a deadline or a cleanup  *)
(* that did not complete; anything else publishes RetainedUnrecoverable and *)
(* parks with lease B.                                                      *)
Retain(where) ==
  /\ gpc' = IF retry THEN "retained" ELSE "parked"
  /\ completion' = IF ~retry /\ completion = "open" THEN "retained" ELSE completion
  /\ stage' = where
  /\ UNCHANGED <<gend, gexit, retry>>

Park ==
  /\ gpc' = "parked"
  /\ completion' = IF completion = "open" THEN "retained" ELSE completion
  /\ UNCHANGED <<gend, gexit, retry, stage>>

(* Ingress closed, TUI reaped, relay and monitor joined, App stopped, all   *)
(* before the coordinator is told that the terminal is quiet.  A phase that *)
(* fails is tried once more.                                                *)
GReapTui ==
  /\ gpc = "quiesce" /\ tui = "live"
  /\ tui' = "gone"
  /\ GQuiet /\ UNCHANGED <<gpc, gv, gbad, gshut, app, worker, completion, wire, refused, budget>>

GStopApp ==
  /\ gpc = "quiesce" /\ tui # "live"
  /\ app' = IF app = "live" THEN "gone" ELSE app
  /\ \/ /\ worker' = IF app = "none" THEN "none" ELSE "clean"
        /\ UNCHANGED <<gend, budget>>
     \/ app = "live" /\ tui = "none" /\ worker' = "none" /\ UNCHANGED <<gend, budget>>
     \/ /\ app = "live" /\ worker' = "clean"   \* a child had to be forced
        /\ gend' = "failure" /\ UNCHANGED budget
     \/ app = "live" /\ tui = "gone" /\ worker' = "dirty" /\ gend' = "failure" /\ Fault
  /\ gpc' = "quiet"
  /\ GQuiet
  /\ UNCHANGED <<gv, gbad, gcond, gexit, retry, stage, tui, completion, wire, refused>>

GQuiesceFails ==
  /\ gpc = "quiesce" /\ app = "live" /\ Fault
  /\ Retain("quiesce") /\ UNCHANGED gcond
  /\ GQuiet /\ UNCHANGED <<gv, gbad, session, wire, refused>>

(* finish_session_restore and finish_startup_restore: a healthy lifecycle   *)
(* asks the coordinator for the restore, a lost one restores the terminal   *)
(* itself, an invalid one parks.                                            *)
GQuiesced ==
  /\ gpc = "quiet" /\ gcond = "healthy"
  /\ LET e == Plain("TerminalQuiesced") IN
     /\ GEmitFrom(gv, e)
     /\ CASE Emitted(gv, e) = "healthy" -> Goto("await") /\ UNCHANGED completion
          [] Emitted(gv, e) = "lost" ->
               /\ gcond' = "lost"
               /\ UNCHANGED <<gpc, gend, gexit, retry, stage, completion>>
          [] OTHER -> Park /\ UNCHANGED gcond
  /\ GQuiet /\ UNCHANGED <<session, up, budget>>

GInvalid ==
  /\ gpc = "quiet" /\ gcond = "invalid"
  /\ Park /\ UNCHANGED gcond
  /\ GQuiet /\ UNCHANGED <<gv, gbad, session, wire, refused, budget>>

(* Mutant of GFallbackRestore: the lost coordinator is taken to have restored. *)
GFallbackSkipped ==
  /\ gpc = "quiet" /\ gcond = "lost"
  /\ Goto("cleanup")
  /\ UNCHANGED <<cvars, apc, gv, gbad, session, wire, tty, unrestored, refused,
                 completion, budget>>

GFallbackRestore ==
  /\ gpc = "quiet" /\ gcond = "lost"
  /\ \/ tty' = "cooked" /\ Goto("cleanup") /\ UNCHANGED completion
     \/ RestoreFails /\ Park /\ UNCHANGED gcond   \* RestoreUnconfirmed
  /\ UNCHANGED <<cvars, apc, gv, gbad, session, wire, unrestored, refused, budget>>

(* Mutant of GAwaitRestore: the loss of the coordinator is not noticed. *)
GAwaitRestoreBlind ==
  /\ gpc = "await" /\ up # << >>
  /\ gv' \in AcceptCommand(gv, Head(up)) /\ up' = Tail(up)
  /\ Goto(IF Head(up).kind = "TerminalRestored" THEN "cleanup" ELSE "await")
  /\ GQuiet /\ UNCHANGED <<gbad, session, completion, down, refused, budget>>

(* Commands that crossed the quiescence are drained; TerminalRestored ends  *)
(* the wait.                                                                *)
GAwaitRestore ==
  /\ gpc = "await"
  /\ \/ /\ up # << >> /\ AcceptCommand(gv, Head(up)) # {}
        /\ gv' \in AcceptCommand(gv, Head(up)) /\ up' = Tail(up)
        /\ Goto(IF Head(up).kind = "TerminalRestored" THEN "cleanup" ELSE "await")
        /\ UNCHANGED <<gbad, completion, refused>>
     \/ /\ up # << >> /\ AcceptCommand(gv, Head(up)) = {}
        /\ up' = Tail(up) /\ gbad' = TRUE
        /\ refused' = refused \cup {<<"guardian", gv.state, Head(up).kind, Head(up).arg>>}
        /\ Park /\ UNCHANGED <<gv, gcond>>
     \/ /\ GLost
        /\ gpc' = "quiet" /\ gcond' = "lost" /\ gbad' = TRUE
        /\ UNCHANGED <<gv, gend, gexit, retry, stage, up, completion, refused>>
  /\ GQuiet /\ UNCHANGED <<session, down, budget>>

(* The wait for the restore ran out: the timeout poisons the transcript. A  *)
(* coordinator that is stopped in the background lets it run out for sure.  *)
RestoreDeadline ==
  /\ gpc = "await" /\ up = << >>
  /\ gbad' = TRUE
  /\ Retain("restore") /\ UNCHANGED gcond
  /\ GQuiet /\ UNCHANGED <<gv, session, wire, refused>>

GRestoreDeadline == Fault /\ RestoreDeadline
GRestoreStarved == cpc = "stopped" /\ RestoreDeadline /\ UNCHANGED budget

GCleanup ==
  /\ gpc = "cleanup"
  /\ \/ /\ gcond = "healthy" /\ Goto("disarm") /\ UNCHANGED <<completion, budget>>
     \/ /\ gcond # "healthy" /\ GExit("failure")
        /\ completion' = IF completion = "open" /\ ~OwnerLost THEN "released"
                         ELSE Unpublished
        /\ UNCHANGED budget
     \/ Fault /\ Retain("cleanup") /\ UNCHANGED gcond
  /\ GQuiet /\ UNCHANGED <<gv, gbad, session, wire, refused>>

(* finalize_projection: an event that cannot be sent ends the process       *)
(* without a completion frame.                                              *)
Report ==
  ChildrenReaped({r \in ChildRole : (IF r = "app" THEN app ELSE tui) # "none"}
                   \cup ({worker} \ {"none"}),
                 IF gv.failure # "none" \/ worker # "clean" THEN "failure" ELSE gend)

GReport ==
  /\ gpc \in {"disarm", "joined"}
  /\ LET late == gpc = "joined" /\ worker # "clean" /\ gv.failure = "none"
         e == IF gpc = "disarm" THEN Plain("TerminalRecoveryDisarmed")
              ELSE IF late THEN Failed("worker") ELSE Report IN
     /\ GEmitFrom(gv, e)
     /\ IF Emitted(gv, e) = "healthy"
        THEN /\ Goto(IF gpc = "disarm" \/ late THEN "joined" ELSE "publish")
             /\ UNCHANGED completion
        ELSE GExit("failure") /\ completion' = Unpublished
  /\ GQuiet /\ UNCHANGED <<session, up, budget>>

GPublish ==
  /\ gpc = "publish"
  /\ IF OwnerLost
     THEN GExit("failure") /\ completion' = Unpublished
     ELSE GExit(gv.exit) /\ completion' = "released"
  /\ GQuiet /\ UNCHANGED <<gv, gbad, session, wire, refused, budget>>

(* await_recovery: the loss of the anchor authorises the one retry, which   *)
(* takes the lifecycle to be healthy.                                       *)
GRetry ==
  /\ gpc = "retained" /\ OwnerLost
  /\ gpc' = CASE stage = "quiesce" -> "quiesce"
              [] stage = "restore" -> "quiet"
              [] OTHER -> "cleanup"
  /\ retry' = FALSE /\ gcond' = "healthy"
  /\ GQuiet /\ UNCHANGED <<gv, gbad, gend, gexit, stage, session, completion, wire, refused, budget>>

GSteps == \/ GStartChild \/ GBootEmit \/ GBootReceive \/ GVerified \/ GReady \/ GRecover
          \/ GCommand \/ GPeerLost \/ GReapTui \/ GStopApp
          \/ GQuiesced \/ GInvalid \/ GFallbackRestore \/ GAwaitRestore
          \/ GRestoreStarved \/ GCleanup \/ GReport \/ GPublish \/ GRetry
GEnds == GComponentFails \/ GNaturalExit \/ GUsageExhausted
GFaults == GDeadline \/ GRestoreDeadline \/ GQuiesceFails

-----------------------------------------------------------------------------
(* The anchor. *)

AQuiet == UNCHANGED <<gvars, cv, wire, unrestored, refused>>

(* The shell's job control, dispatched by the anchor: it forwards TSTP and  *)
(* waits for the coordinator to stop.                                       *)
ASuspend ==
  /\ apc = "watch" /\ cpc \notin {"done", "killed", "stopped"}
  /\ "tstp" \in Latched /\ signals < MaxSignals
  /\ apc' = "suspending" /\ latch' = latch \cup {"tstp"}
  /\ signals' = signals + 1
  /\ AQuiet /\ UNCHANGED <<cpc, completion, tty, trouble>>

(* emergency_failure, up to the signals: TERM is sent, then KILL. *)
Emergency ==
  /\ apc' = "emergency"
  /\ latch' = IF CoordinatorGone THEN latch ELSE latch \cup {"term"}
  /\ AQuiet /\ UNCHANGED <<cpc, completion, tty>>

(* relay_stopped_coordinator: the terminal is restored for the shell and    *)
(* the anchor stops too.  A restore that fails ends in the emergency.       *)
ARelayStop ==
  /\ apc \in {"watch", "suspending"} /\ cpc = "stopped"
  /\ \/ /\ apc' = "stopped" /\ tty' = "cooked"
        /\ AQuiet /\ UNCHANGED <<cpc, latch, completion>>
     \/ Emergency
  /\ UNCHANGED budget

(* The shell continues the job; the anchor hands the foreground back and    *)
(* continues the coordinator, or ends in the emergency.                     *)
AContinue ==
  /\ apc = "stopped"
  /\ \/ /\ apc' = "watch"
        /\ IF cpc = "stopped"
           THEN cpc' = "suspended" /\ latch' = latch \cup {"cont"}
           ELSE UNCHANGED <<cpc, latch>>
        /\ AQuiet /\ UNCHANGED <<completion, tty>>
     \/ cpc = "stopped" /\ Emergency
  /\ UNCHANGED budget

(* The coordinator ended instead of stopping. *)
ANotStopped ==
  /\ apc = "suspending" /\ CoordinatorGone
  /\ apc' = "watch"
  /\ AQuiet /\ UNCHANGED <<cpc, latch, completion, tty, budget>>

(* restore_anchor_terminal: an anchor that cannot restore parks.            *)
ARestore(next) ==
  /\ \/ apc' \in next /\ tty' = "cooked" /\ UNCHANGED unrestored
     \/ apc' = "parked" /\ LastRestore("anchor")
  /\ UNCHANGED <<cvars, gvars, completion, wire, refused, budget>>

(* finish_verified: a trusted completion frame and the exit of the          *)
(* coordinator release the shell.                                           *)
AFinish ==
  apc = "watch" /\ completion = "released" /\ CoordinatorGone /\ ARestore({"done"})

APark ==
  /\ apc = "watch" /\ completion = "retained"
  /\ apc' = "parked"
  /\ AQuiet /\ UNCHANGED <<cpc, latch, completion, tty, budget>>

(* The completion channel ended without a frame, or the coordinator did not *)
(* stop in time.                                                            *)
AEmergency ==
  /\ \/ apc = "watch" /\ completion = "closed"
     \/ apc = "suspending" /\ cpc = "parked"
  /\ Emergency /\ UNCHANGED budget

ATimeout == apc = "suspending" /\ ~CoordinatorGone /\ Fault /\ Emergency

AForce ==
  /\ apc = "emergency" /\ ~CoordinatorGone
  /\ cpc' = "killed" /\ latch' = {}
  /\ AQuiet /\ UNCHANGED <<apc, completion, tty, budget>>

(* The terminal is restored; only a completion frame that was read before   *)
(* the emergency lets the anchor exit.                                      *)
AContained ==
  /\ apc = "emergency" /\ CoordinatorGone
  /\ ARestore({"parked"} \cup (IF completion = "released" THEN {"done"} ELSE {}))

ASteps == \/ ARelayStop \/ ANotStopped \/ AFinish \/ APark \/ AEmergency
          \/ AForce \/ AContained

-----------------------------------------------------------------------------
(* The environment. *)

(* A signal sets its bit; once the latches are frozen the bits are inert. *)
Unfrozen ==
  {"lease", "start", "boot", "arm", "verify", "ready", "gate", "gateack",
   "active", "signal", "resize", "suspend", "suspending", "stopping",
   "stopped", "suspended", "poll", "resuming", "resume", "resumed"}

USignal ==
  /\ cpc \in Unfrozen /\ signals < MaxSignals
  /\ \E s \in Latched \ latch : latch' = latch \cup {s}
  /\ signals' = signals + 1
  /\ UNCHANGED <<cpc, cv, gvars, apc, completion, wire, tty, unrestored, refused, trouble>>

Kill(p) == p \in Killable /\ Fault

KillCoordinator ==
  /\ ~CoordinatorGone /\ Kill("coordinator")
  /\ cpc' = "killed" /\ latch' = {}
  /\ UNCHANGED <<cv, gvars, apc, completion, wire, tty, unrestored, refused>>

(* The children of a killed guardian are not its own to stop any more. *)
KillGuardian ==
  /\ ~GuardianGone /\ Kill("guardian")
  /\ gpc' = "killed" /\ completion' = Unpublished
  /\ UNCHANGED <<cvars, gv, gbad, gshut, session, apc, wire, tty, unrestored, refused>>

(* The kernel hangs up and continues the stopped process group that the     *)
(* death of its parent orphans.                                             *)
KillAnchor ==
  /\ apc \notin {"done", "killed"} /\ Kill("anchor")
  /\ apc' = "killed"
  /\ IF cpc = "stopped"
     THEN cpc' = "suspended" /\ latch' = latch \cup {"hup", "cont"}
     ELSE UNCHANGED <<cpc, latch>>
  /\ UNCHANGED <<cv, gvars, completion, wire, tty, unrestored, refused>>

Environment == USignal \/ ASuspend \/ AContinue \/ KillCoordinator \/ KillGuardian
                 \/ KillAnchor

Next == \/ CStep \/ CDeadline \/ GSteps \/ GEnds \/ GFaults
        \/ ASteps \/ ATimeout \/ Environment

Spec == Init /\ [][Next]_vars

(* Every process keeps running unless it is killed or stopped; nobody is    *)
(* obliged to end the session, to send a signal, to continue a stopped job  *)
(* or to run into a deadline.                                               *)
Fairness == WF_vars(CStep) /\ WF_vars(GSteps) /\ WF_vars(ASteps)
FairSpec == Spec /\ Fairness

-----------------------------------------------------------------------------
(* Properties. *)

ChildLive == app = "live" \/ tui = "live"

(* Input of the user reaches the TUI only between the guardian's            *)
(* acknowledgement of the gate and the next pause: while the coordinator    *)
(* forwards input, the guardian is not waiting for a gate or suspended.     *)
InputOnlyThroughGate ==
  cpc = "active" \/ (cpc \in {"signal", "resize"} /\ ~cv.was_suspended) =>
    gpc \notin {"lease", "start", "arm", "armed", "app", "vapp", "tui", "vtui",
                "ready", "gate", "suspended"}

(* A coordinator that exits, and an anchor that releases the shell, leave   *)
(* no child, no raw terminal and no running guardian, and the status is the *)
(* guardian's.  A guardian that exits leaves no child: its lease B outlives *)
(* them unless it is killed.                                                *)
ExitMeansReleased ==
  /\ cpc = "done" => /\ ~ChildLive /\ tty = "cooked"
                     /\ gpc = "exited" /\ gexit = cv.exit
  /\ apc = "done" => /\ ~ChildLive /\ tty = "cooked"
                     /\ gpc = "exited" /\ CoordinatorGone
  /\ gpc = "exited" => ~ChildLive

(* The frames that are refused when they cross on the wire.                 *)
ReservedRefusals ==
  {<<"guardian", "Quiesced", "Signal", s>> : s \in UnixSignal \ Interactive}
    \cup {<<"guardian", "Quiesced", k, "none">> : k \in {"Suspend", "Resume"}}
    \cup {<<"coordinator", q, "TerminalQuiesced", "none">> :
            q \in {"AwaitSignalForwarded", "AwaitSuspended"}}
    \cup {<<"coordinator", q, "UsageExhausted", "none">> :
            q \in {"AwaitSignalForwarded", "AwaitResizeApplied", "AwaitSuspended"}}

(* Of all the frames that cross on the wire, a transcript refuses only      *)
(* those the protocol reserves: HUP, TERM and the suspend controls against  *)
(* the end of the session, and UsageExhausted.  A gate, a resize or an      *)
(* interactive signal that crosses the end is absorbed, and so is every     *)
(* command that crosses the recovery after the loss of the anchor.          *)
CrossingFramesAbsorbed ==
  /\ refused \subseteq ReservedRefusals
  /\ gv.failure = "recovery" => refused = {}
  /\ <<"coordinator", "AwaitSignalForwarded", "TerminalQuiesced", "none">> \in refused
       => cv.sig \notin Interactive

AtRest ==
  /\ cpc \in {"parked", "done", "killed"}
  /\ gpc \in {"parked", "retained", "exited", "killed"}
  /\ apc \in {"parked", "done", "killed"} \/ (apc = "watch" /\ completion # "closed")

(* When every process has come to rest the terminal is cooked, whichever of *)
(* them was killed in whatever order, unless each that could have restored  *)
(* it was killed or failed to: the coordinator was killed or its retention  *)
(* could not restore, and the guardian had retained its shutdown or was     *)
(* killed with an anchor that was killed or could not restore.              *)
TerminalRestored ==
  AtRest /\ tty = "raw" =>
    /\ cpc = "killed" \/ "coordinator" \in unrestored
    /\ \/ gpc \in {"retained", "parked"} \/ completion = "retained"
       \/ gpc = "killed" /\ (apc = "killed" \/ "anchor" \in unrestored)

(* No wait is left unanswered: the coordinator always returns to the active *)
(* loop, or to a stop, or comes to its end.                                 *)
CoordinatorSettles ==
  (cpc \notin {"active", "stopped", "parked", "done", "killed"})
    ~> (cpc \in {"active", "stopped", "parked", "done", "killed"})

(* Nor does the guardian wait for ever: it always returns to a loop that    *)
(* serves commands, or comes to its end or to retention.                    *)
GuardianSettles ==
  (gpc \notin {"active", "suspended"}) ~>
    (gpc \in {"active", "suspended", "retained", "parked", "exited", "killed"})

(* A session that its usage limit ends is reported by the coordinator's     *)
(* exit: as usage exhaustion, or as a failure when a child did not end as   *)
(* asked.                                                                   *)
UsageReachesFailover ==
  (gend = "usage") ~> (cpc = "done" /\ cv.exit \in {"usage", "failure"})
=============================================================================
