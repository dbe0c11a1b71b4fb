----------------------------- MODULE Lifecycle -----------------------------
(***************************************************************************)
(* The lifecycle transcript between the coordinator and the guardian of a  *)
(* supervised Codex session (supervisor/protocol.rs).  Each side runs one  *)
(* validator over the frames it sends and receives, in its own local       *)
(* order; the two orders differ when frames cross on the wire.             *)
(*                                                                         *)
(* A validator accepts a frame by moving to a new validator and refuses it *)
(* otherwise: AcceptCommand and AcceptEvent return the singleton of the    *)
(* new validator, or the empty set.                                        *)
(*                                                                         *)
(* Left out: process numbers and terminal sizes (echoed and compared), and *)
(* lease_committed, which every state past AwaitLeaseBeforeStart implies.  *)
(***************************************************************************)

UnixSignal == {"hup", "term", "int", "quit"}
Interactive == {"int", "quit"}
ChildRole == {"app", "tui"}
Cause == {"natural", "hup", "term", "stop", "usage"}
Disposition == Cause \cup {"failure"}
FailureKind == {"recovery", "worker", "other"}
Window == {"ReadyForGate", "Active", "Suspended"}

(* A frame: its kind, its one argument, and for ChildrenReaped the children *)
(* that were started and how the monitor worker was joined.                 *)
Frame(kind, arg) == [kind |-> kind, arg |-> arg, who |-> {}]
Plain(kind) == Frame(kind, "none")

Command ==
  {Plain(k) : k \in {"Start", "TerminalArmAccepted", "OpenInputGate",
                     "Resize", "Suspend", "Resume", "Stop",
                     "TerminalRestored"}}
    \cup {Frame("ChildDescriptorsVerified", r) : r \in ChildRole}
    \cup {Frame("Signal", s) : s \in UnixSignal}

ChildrenReaped(who, exit) ==
  [kind |-> "ChildrenReaped", arg |-> exit, who |-> who]

Event ==
  {Plain(k) : k \in {"LeaseCommitted", "TerminalArmed", "Ready",
                     "InputGateOpened", "ResizeApplied", "Suspended",
                     "Resumed", "UsageExhausted", "TerminalQuiesced",
                     "TerminalRecoveryDisarmed"}}
    \cup {Frame("ChildStarted", r) : r \in ChildRole}
    \cup {Frame("SignalForwarded", s) : s \in UnixSignal}
    \cup {Frame("Failed", f) : f \in FailureKind}
    \cup {ChildrenReaped(w, x) :
            w \in SUBSET {"app", "tui", "clean", "dirty"}, x \in Disposition}

-----------------------------------------------------------------------------
LifecycleState ==
  {"AwaitLeaseBeforeStart", "AwaitStart", "AwaitTerminalArmed",
   "AwaitTerminalArmAcceptance", "AwaitApp",
   "AwaitAppDescriptorVerification", "AwaitTui",
   "AwaitTuiDescriptorVerification", "AwaitReady", "ReadyForGate",
   "AwaitGateOpened", "Active", "AwaitSignalForwarded",
   "AwaitResizeApplied", "AwaitSuspended", "Suspended", "AwaitResumed",
   "AwaitQuiesced", "FailedAwaitQuiesced", "Quiesced",
   "AwaitRecoveryDisarmed", "RecoveryDisarmed", "Terminal"}

(* sig and was_suspended are the fields of AwaitSignalForwarded; window is  *)
(* the field of the recovery allowance.                                     *)
Validator ==
  [state : LifecycleState,
   sig : UnixSignal \cup {"none"}, was_suspended : BOOLEAN,
   started : SUBSET ChildRole, gate_ever_opened : BOOLEAN,
   superseded_gate : BOOLEAN,
   allowance : {"inactive", "awaiting", "armed", "consumed"},
   window : Window \cup {"none"},
   failure : FailureKind \cup {"none"},
   cause : Cause \cup {"none"}, exit : Disposition \cup {"none"}]

before_start ==
  [state |-> "AwaitLeaseBeforeStart", sig |-> "none", was_suspended |-> FALSE,
   started |-> {}, gate_ever_opened |-> FALSE, superseded_gate |-> FALSE,
   allowance |-> "inactive", window |-> "none", failure |-> "none",
   cause |-> "none", exit |-> "none"]

-----------------------------------------------------------------------------
(* Commands. *)

(* The guardian noticed that its anchor is gone: one command of the current *)
(* window may already be on the wire.                                       *)
arm_recovery_command_race(v) ==
  IF v.failure = "none" /\ v.allowance = "inactive" /\ v.state \in Window
  THEN {[v EXCEPT !.allowance = "awaiting", !.window = v.state]}
  ELSE {}

RecoveryRace ==
  {<<"ReadyForGate", k>> : k \in {"OpenInputGate", "Stop"}}
    \cup {<<"Active", k>> : k \in {"Signal", "Suspend", "Stop", "Resize"}}
    \cup {<<"Suspended", k>> : k \in {"Signal", "Stop", "Resume"}}

(* The commands whose acceptance only moves the state. *)
CommandMoves ==
  {<<"AwaitStart", "Start", "none", "AwaitTerminalArmed">>,
   <<"AwaitTerminalArmAcceptance", "TerminalArmAccepted", "none", "AwaitApp">>,
   <<"AwaitAppDescriptorVerification", "ChildDescriptorsVerified", "app",
     "AwaitTui">>,
   <<"AwaitTuiDescriptorVerification", "ChildDescriptorsVerified", "tui",
     "AwaitReady">>,
   <<"ReadyForGate", "OpenInputGate", "none", "AwaitGateOpened">>,
   <<"Active", "Resize", "none", "AwaitResizeApplied">>,
   <<"Active", "Suspend", "none", "AwaitSuspended">>,
   <<"Suspended", "Resume", "none", "AwaitResumed">>,
   <<"Quiesced", "Resize", "none", "Quiesced">>}
    \cup {<<"Quiesced", "Signal", s, "Quiesced">> : s \in Interactive}

OrdinaryCommand(v, c) ==
  CASE c.kind = "Signal" /\ v.state \in {"Active", "Suspended"} ->
         {[v EXCEPT !.state = "AwaitSignalForwarded", !.sig = c.arg,
                    !.was_suspended = (v.state = "Suspended")]}
    [] c.kind = "Stop" /\ v.state \in Window ->
         {[v EXCEPT !.state = "AwaitQuiesced", !.cause = "stop"]}
    [] c.kind = "OpenInputGate" /\ v.state = "Quiesced" ->
         {w \in {[v EXCEPT !.superseded_gate = FALSE]} : v.superseded_gate}
    [] c.kind = "TerminalRestored" /\ v.state = "Quiesced" ->
         {[v EXCEPT !.state = "AwaitRecoveryDisarmed", !.superseded_gate = FALSE]}
    [] OTHER ->
         {[v EXCEPT !.state = m[4]] :
            m \in {m \in CommandMoves :
                     <<m[1], m[2], m[3]>> = <<v.state, c.kind, c.arg>>}}

(* Mutant of accept_recovery_superseded_command: no crossing command is     *)
(* expected after a recovery.                                               *)
accept_only_restored(v, c) ==
  IF c.kind = "TerminalRestored"
  THEN OrdinaryCommand([v EXCEPT !.allowance = "inactive", !.window = "none"], c)
  ELSE {}

(* After a recovery shutdown has quiesced the terminal, the one command     *)
(* that crossed it is consumed without effect, and only once.               *)
accept_recovery_superseded_command(v, c) ==
  IF c.kind = "TerminalRestored" /\ v.allowance \in {"armed", "consumed"}
  THEN OrdinaryCommand([v EXCEPT !.allowance = "inactive", !.window = "none"], c)
  ELSE IF v.allowance = "armed" /\ <<v.window, c.kind>> \in RecoveryRace
  THEN {[v EXCEPT !.allowance = "consumed", !.window = "none",
                  !.superseded_gate = FALSE]}
  ELSE {}

AcceptCommand(v, c) ==
  IF v.state = "Quiesced" /\ v.allowance # "inactive"
  THEN accept_recovery_superseded_command(v, c)
  ELSE OrdinaryCommand(v, c)

-----------------------------------------------------------------------------
(* Events. *)

(* The events whose acceptance only moves the state. *)
EventMoves ==
  {<<"AwaitLeaseBeforeStart", "LeaseCommitted", "AwaitStart">>,
   <<"AwaitTerminalArmed", "TerminalArmed", "AwaitTerminalArmAcceptance">>,
   <<"AwaitReady", "Ready", "ReadyForGate">>,
   <<"AwaitResizeApplied", "ResizeApplied", "Active">>,
   <<"AwaitSuspended", "Suspended", "Suspended">>,
   <<"AwaitResumed", "Resumed", "ReadyForGate">>,
   <<"AwaitQuiesced", "TerminalQuiesced", "Quiesced">>,
   <<"FailedAwaitQuiesced", "TerminalQuiesced", "Quiesced">>,
   <<"AwaitRecoveryDisarmed", "TerminalRecoveryDisarmed", "RecoveryDisarmed">>}

(* TerminalQuiesced acknowledges a natural exit of the TUI in Active, and   *)
(* also while a best-effort control is unanswered: an interactive signal of *)
(* a running session or a resize, never HUP, TERM or a suspended control.   *)
NaturalExitStates(v) ==
  \/ v.state \in {"Active", "AwaitResizeApplied"}
  \/ v.state = "AwaitSignalForwarded" /\ v.sig \in Interactive /\ ~v.was_suspended

accept_failure(v, f) ==
  LET recovery == v.allowance = "awaiting" /\ f = "recovery"
      late == v.state \in {"Quiesced", "AwaitRecoveryDisarmed", "RecoveryDisarmed"}
  IN {w \in {[v EXCEPT !.superseded_gate = v.state = "ReadyForGate" /\ ~recovery,
                       !.allowance = IF recovery THEN "armed" ELSE @,
                       !.failure = f,
                       !.state = IF late THEN @ ELSE "FailedAwaitQuiesced",
                       !.sig = "none", !.was_suspended = FALSE]} :
        /\ v.failure = "none"
        /\ v.state \notin {"AwaitLeaseBeforeStart", "AwaitStart", "Terminal",
                            "FailedAwaitQuiesced"}
        /\ v.state = "RecoveryDisarmed" => f = "worker"
        /\ v.allowance = "inactive" \/ recovery}

(* The report of a complete cleanup.  An announced failure forces a failed  *)
(* exit; without one the exit is the one both sides derive from the cause,  *)
(* or a failure when a child did not end as that cause requires             *)
(* (project_terminal_semantics on the reported statuses).                   *)
validate_terminal(v, e) ==
  /\ e.who \cap ChildRole = v.started
  /\ e.who \cap {"clean", "dirty"} = {} =>
        ~("tui" \in v.started \/ ("app" \in v.started /\ v.failure = "none"))
  /\ IF v.failure = "none"
     THEN /\ "clean" \in e.who
          /\ v.started = ChildRole
          /\ v.gate_ever_opened \/ v.cause = "stop"
          /\ v.cause # "none"
          /\ e.arg \in {v.cause, "failure"}
     ELSE e.arg = "failure"

(* Mutant of forwarded_cause: every forwarded signal becomes the cause. *)
forwarded_cause_always(v, s) == s

(* Only a signal whose disposition ends the session becomes its cause. *)
forwarded_cause(v, s) == IF s \in Interactive THEN v.cause ELSE s

AcceptEvent(v, e) ==
  CASE e.kind = "Failed" -> accept_failure(v, e.arg)
    [] e.kind = "ChildStarted" /\ v.state = (IF e.arg = "app" THEN "AwaitApp" ELSE "AwaitTui") ->
         {[v EXCEPT !.started = @ \cup {e.arg},
                    !.state = IF e.arg = "app" THEN "AwaitAppDescriptorVerification"
                              ELSE "AwaitTuiDescriptorVerification"]}
    [] e.kind = "InputGateOpened" /\ v.state = "AwaitGateOpened" ->
         {[v EXCEPT !.state = "Active", !.gate_ever_opened = TRUE]}
    [] e.kind = "SignalForwarded" /\ v.state = "AwaitSignalForwarded" /\ v.sig = e.arg ->
         {[v EXCEPT !.sig = "none", !.was_suspended = FALSE,
                    !.cause = forwarded_cause(v, e.arg),
                    !.state = IF e.arg \notin Interactive THEN "AwaitQuiesced"
                              ELSE IF v.was_suspended THEN "Suspended"
                              ELSE "Active"]}
    [] e.kind = "TerminalQuiesced" /\ NaturalExitStates(v) ->
         {[v EXCEPT !.state = "Quiesced", !.sig = "none",
                    !.cause = IF @ = "none" THEN "natural" ELSE @]}
    [] e.kind = "UsageExhausted" /\ v.state = "Active" ->
         {[v EXCEPT !.state = "AwaitQuiesced", !.cause = "usage"]}
    [] e.kind = "ChildrenReaped" /\ v.state = "RecoveryDisarmed" ->
         {w \in {[v EXCEPT !.state = "Terminal", !.exit = e.arg]} :
            validate_terminal(v, e)}
    [] OTHER ->
         {[v EXCEPT !.state = m[3]] :
            m \in {m \in EventMoves : <<m[1], m[2]>> = <<v.state, e.kind>>}}
=============================================================================
