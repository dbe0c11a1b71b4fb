-------------------------- MODULE Supervisor_proofs --------------------------
(***************************************************************************)
(* What a supervised session leaves behind, for any signals, kills,        *)
(* deadlines, failed cleanups and failed restores: whoever exits has       *)
(* released the children, the terminal and the guardian, and a session at  *)
(* rest left the terminal cooked, but where TerminalRestored says who was  *)
(* killed or failed.                                                       *)
(*                                                                         *)
(* The argument follows the raw terminal.  Only the coordinator makes it   *)
(* raw, and only on the way to an open gate, which it leaves for good once *)
(* it restores; so a TerminalRestored on the wire, or the exit of a        *)
(* coordinator, shows that the terminal is cooked and stays so, and an end *)
(* that parks has tried to restore it.                                     *)
(*                                                                         *)
(* The second part is about the gate: input is forwarded only while the    *)
(* guardian has it open, because until the shutdown the two ends take      *)
(* turns on the socket.                                                    *)
(*                                                                         *)
(* The last part is about the frames that cross when the session ends: the *)
(* two transcripts agree to its end, but for the frames on the wire, and   *)
(* a validator refuses only what the protocol reserves.                    *)
(***************************************************************************)
EXTENDS Supervisor, TLAPS

------------------------------------------------------------------------------
(* The inductive invariant *)

(* Control points of the coordinator from which the terminal is not made    *)
(* raw any more, those behind its restore, and those before the session is  *)
(* ready.                                                                   *)
Winding == {"restore", "restored", "disarm", "report", "wait", "retain", "retained", "parked", "done", "killed"}
Behind == {"restored", "disarm", "report", "wait", "done"}
Ahead == {"lease", "start", "boot", "arm", "verify", "quiesce"}

NotAnnounced == \A i \in DOMAIN down : down[i].kind # "Ready"

(* The terminal is cooked and stays so. *)
StaysCooked == tty = "cooked" /\ (cpc \in Winding \/ (cpc \in Ahead /\ NotAnnounced))

(* Control points of the guardian before it starts children, after it       *)
(* stopped them, and after the restore of the terminal.                     *)
Bootstrap == {"lease", "start", "arm", "armed"}
Closing == {"cleanup", "disarm", "joined", "publish", "exited"}
Stopped == {"quiet", "await"} \cup Closing

CoordinatorInStep ==
  /\ cpc \in Behind => tty = "cooked"
  /\ cpc = "done" => gpc = "exited" /\ gexit = cv.exit
  /\ \A i \in DOMAIN up : up[i].kind = "TerminalRestored" => cpc \in Winding /\ tty = "cooked"

GuardianInStep ==
  /\ gpc \in Bootstrap => app = "none" /\ tui = "none"
  /\ gpc \in Stopped \/ (gpc = "retained" /\ stage # "quiesce") => ~ChildLive
  /\ gpc \in Bootstrap \cup Closing \/ (gpc = "retained" /\ stage \notin {"quiesce", "restore"}) => StaysCooked
  /\ gpc \in (Stopped \ {"exited"}) \cup {"quiesce", "retained"} => gend # "none"
  /\ gcond = "lost" => ~COpen

AnchorInStep ==
  /\ gpc \notin {"parked", "exited", "killed"} => completion = "open"
  /\ completion = "released" => gpc = "exited"
  /\ gpc = "killed" => completion \in {"closed", "retained"}
  /\ apc = "done" => completion = "released" /\ CoordinatorGone /\ tty = "cooked"
  /\ apc = "parked" => completion = "retained" \/ CoordinatorGone

SessionInv == SessionTypeOK /\ CoordinatorInStep /\ GuardianInStep /\ AnchorInStep

------------------------------------------------------------------------------
(* Transcripts *)

LEMMA CommandFields ==
  ASSUME NEW c \in Command
  PROVE  c.kind = "Signal" => c.arg \in UnixSignal
  <1>1. CASE \E k \in {"Start", "TerminalArmAccepted", "OpenInputGate", "Resize", "Suspend", "Resume", "Stop",
                       "TerminalRestored"} : c = Plain(k)
    BY <1>1 DEF Plain, Frame
  <1>2. CASE \E r \in ChildRole : c = Frame("ChildDescriptorsVerified", r)
    BY <1>2 DEF Frame
  <1>3. CASE \E s \in UnixSignal : c = Frame("Signal", s)
    BY <1>3 DEF Frame
  <1> QED BY <1>1, <1>2, <1>3 DEF Command

LEMMA EventFields ==
  ASSUME NEW e \in Event
  PROVE  /\ e.kind = "Failed" => e.arg \in FailureKind
         /\ e.kind = "ChildStarted" => e.arg \in ChildRole
         /\ e.kind = "SignalForwarded" => e.arg \in UnixSignal
         /\ e.kind = "ChildrenReaped" => e.arg \in Disposition
  <1>1. CASE \E k \in {"LeaseCommitted", "TerminalArmed", "Ready", "InputGateOpened", "ResizeApplied", "Suspended",
                       "Resumed", "UsageExhausted", "TerminalQuiesced", "TerminalRecoveryDisarmed"} : e = Plain(k)
    BY <1>1 DEF Plain, Frame
  <1>2. CASE \E r \in ChildRole : e = Frame("ChildStarted", r)
    BY <1>2 DEF Frame
  <1>3. CASE \E s \in UnixSignal : e = Frame("SignalForwarded", s)
    BY <1>3 DEF Frame
  <1>4. CASE \E f \in FailureKind : e = Frame("Failed", f)
    BY <1>4 DEF Frame
  <1>5. CASE \E w \in SUBSET {"app", "tui", "clean", "dirty"}, x \in Disposition : e = ChildrenReaped(w, x)
    BY <1>5 DEF ChildrenReaped
  <1> QED BY <1>1, <1>2, <1>3, <1>4, <1>5 DEF Event

LEMMA StateMoves ==
  ASSUME NEW v \in Validator, NEW q \in LifecycleState
  PROVE  [v EXCEPT !.state = q] \in Validator
  BY DEF Validator

LEMMA OrdinaryTyped ==
  ASSUME NEW v \in Validator, NEW c \in Command, NEW w \in OrdinaryCommand(v, c)
  PROVE  w \in Validator
  <1>1. CASE c.kind = "Signal" /\ v.state \in {"Active", "Suspended"}
    <2>1. PICK b \in BOOLEAN : b = (v.state = "Suspended")
      OBVIOUS
    <2>2. w = [v EXCEPT !.state = "AwaitSignalForwarded", !.sig = c.arg, !.was_suspended = (v.state = "Suspended")]
      BY <1>1 DEF OrdinaryCommand
    <2>3. w = [v EXCEPT !.state = "AwaitSignalForwarded", !.sig = c.arg, !.was_suspended = b]
      BY <2>1, <2>2, Zenon
    <2>4. c.arg \in UnixSignal
      BY <1>1, CommandFields
    <2> QED BY <2>3, <2>4, ZenonT(60) DEF Validator, LifecycleState
  <1>2. CASE c.kind = "Stop" /\ v.state \in Window
    <2>1. w = [v EXCEPT !.state = "AwaitQuiesced", !.cause = "stop"]
      BY <1>2 DEF OrdinaryCommand
    <2> QED BY <2>1, ZenonT(60) DEF Validator, LifecycleState, Cause
  <1>3. CASE c.kind = "OpenInputGate" /\ v.state = "Quiesced"
    BY <1>3, ZenonT(60) DEF OrdinaryCommand, Validator
  <1>4. CASE c.kind = "TerminalRestored" /\ v.state = "Quiesced"
    <2>1. w = [v EXCEPT !.state = "AwaitRecoveryDisarmed", !.superseded_gate = FALSE]
      BY <1>4 DEF OrdinaryCommand
    <2> QED BY <2>1, ZenonT(60) DEF Validator, LifecycleState
  <1>5. CASE /\ ~(c.kind = "Signal" /\ v.state \in {"Active", "Suspended"})
             /\ ~(c.kind = "Stop" /\ v.state \in Window)
             /\ ~(c.kind = "OpenInputGate" /\ v.state = "Quiesced")
             /\ ~(c.kind = "TerminalRestored" /\ v.state = "Quiesced")
    <2>1. PICK m \in CommandMoves : w = [v EXCEPT !.state = m[4]]
      BY <1>5 DEF OrdinaryCommand
    <2>2. m[4] \in LifecycleState
      BY DEF CommandMoves, LifecycleState
    <2> QED BY <2>1, <2>2, StateMoves
  <1> QED BY <1>1, <1>2, <1>3, <1>4, <1>5

LEMMA AcceptCommandTyped ==
  ASSUME NEW v \in Validator, NEW c \in Command, NEW w \in AcceptCommand(v, c)
  PROVE  w \in Validator
  <1>1. CASE ~(v.state = "Quiesced" /\ v.allowance # "inactive")
    BY <1>1, OrdinaryTyped DEF AcceptCommand
  <1>2. CASE v.state = "Quiesced" /\ v.allowance # "inactive"
    <2>1. w \in accept_recovery_superseded_command(v, c)
      BY <1>2 DEF AcceptCommand
    <2>2. CASE c.kind = "TerminalRestored" /\ v.allowance \in {"armed", "consumed"}
      <3>1. PICK u : u = [v EXCEPT !.allowance = "inactive", !.window = "none"]
        OBVIOUS
      <3>2. u \in Validator
        BY <3>1 DEF Validator
      <3>3. w \in OrdinaryCommand(u, c)
        BY <2>1, <2>2, <3>1 DEF accept_recovery_superseded_command
      <3> QED BY <3>2, <3>3, OrdinaryTyped
    <2>3. CASE ~(c.kind = "TerminalRestored" /\ v.allowance \in {"armed", "consumed"})
      <3>1. w = [v EXCEPT !.allowance = "consumed", !.window = "none", !.superseded_gate = FALSE]
        BY <2>1, <2>3 DEF accept_recovery_superseded_command
      <3> QED BY <3>1 DEF Validator
    <2> QED BY <2>2, <2>3
  <1> QED BY <1>1, <1>2

LEMMA FailureTyped ==
  ASSUME NEW v \in Validator, NEW f \in FailureKind, NEW w \in accept_failure(v, f)
  PROVE  w \in Validator
  <1>1. PICK b \in BOOLEAN, a \in {"armed", v.allowance}, q \in {"FailedAwaitQuiesced", v.state} :
          w = [v EXCEPT !.superseded_gate = b, !.allowance = a, !.failure = f, !.state = q,
                        !.sig = "none", !.was_suspended = FALSE]
    <2>1. PICK b \in BOOLEAN : b = (v.state = "ReadyForGate" /\ ~(v.allowance = "awaiting" /\ f = "recovery"))
      OBVIOUS
    <2>2. PICK a \in {"armed", v.allowance} :
            a = IF v.allowance = "awaiting" /\ f = "recovery" THEN "armed" ELSE v.allowance
      OBVIOUS
    <2>3. PICK q \in {"FailedAwaitQuiesced", v.state} :
            q = IF v.state \in {"Quiesced", "AwaitRecoveryDisarmed", "RecoveryDisarmed"} THEN v.state
                ELSE "FailedAwaitQuiesced"
      OBVIOUS
    <2>4. w = [v EXCEPT !.superseded_gate = (v.state = "ReadyForGate" /\ ~(v.allowance = "awaiting" /\ f = "recovery")),
                        !.allowance = IF v.allowance = "awaiting" /\ f = "recovery" THEN "armed" ELSE @,
                        !.failure = f,
                        !.state = IF v.state \in {"Quiesced", "AwaitRecoveryDisarmed", "RecoveryDisarmed"} THEN @
                                  ELSE "FailedAwaitQuiesced",
                        !.sig = "none", !.was_suspended = FALSE]
      BY DEF accept_failure
    <2> QED BY <2>1, <2>2, <2>3, <2>4
  <1>2. a \in {"inactive", "awaiting", "armed", "consumed"} /\ q \in LifecycleState
    BY DEF Validator, LifecycleState
  <1>3. PICK u : u = [v EXCEPT !.superseded_gate = b, !.allowance = a, !.failure = f]
    OBVIOUS
  <1>4. u \in Validator
    BY <1>2, <1>3, ZenonT(60) DEF Validator
  <1>5. w = [u EXCEPT !.state = q, !.sig = "none", !.was_suspended = FALSE]
    BY <1>1, <1>3
  <1> QED BY <1>2, <1>4, <1>5 DEF Validator

LEMMA AcceptEventTyped ==
  ASSUME NEW v \in Validator, NEW e \in Event, NEW w \in AcceptEvent(v, e)
  PROVE  w \in Validator
  <1>0. v.cause \in Cause \cup {"none"} /\ v.started \subseteq ChildRole /\ v.was_suspended \in BOOLEAN
    BY DEF Validator
  <1>1. CASE e.kind = "Failed"
    BY <1>1, EventFields, FailureTyped DEF AcceptEvent
  <1>2. CASE e.kind = "ChildStarted" /\ v.state = (IF e.arg = "app" THEN "AwaitApp" ELSE "AwaitTui")
    <2>1. e.arg \in ChildRole
      BY <1>2, EventFields
    <2>2. PICK r \in SUBSET ChildRole : r = v.started \cup {e.arg}
      BY <1>0, <2>1
    <2>3. PICK q \in LifecycleState :
            q = IF e.arg = "app" THEN "AwaitAppDescriptorVerification" ELSE "AwaitTuiDescriptorVerification"
      BY DEF LifecycleState
    <2>4. w = [v EXCEPT !.started = r, !.state = q]
      BY <1>2, <2>2, <2>3 DEF AcceptEvent
    <2> QED BY <2>4 DEF Validator
  <1>3. CASE e.kind = "InputGateOpened" /\ v.state = "AwaitGateOpened"
    <2>1. w = [v EXCEPT !.state = "Active", !.gate_ever_opened = TRUE]
      BY <1>3 DEF AcceptEvent
    <2> QED BY <2>1, ZenonT(60) DEF Validator, LifecycleState
  <1>4. CASE e.kind = "SignalForwarded" /\ v.state = "AwaitSignalForwarded" /\ v.sig = e.arg
    <2>1. PICK x : x = forwarded_cause(v, e.arg)
      OBVIOUS
    <2>2. x \in Cause \cup {"none"}
      BY <1>0, <1>4, <2>1, EventFields DEF forwarded_cause, Cause, UnixSignal, Interactive
    <2>3. PICK q : q = IF e.arg \notin Interactive THEN "AwaitQuiesced"
                       ELSE IF v.was_suspended THEN "Suspended" ELSE "Active"
      OBVIOUS
    <2>4. q \in LifecycleState
      BY <2>3 DEF LifecycleState
    <2>5. w = [v EXCEPT !.sig = "none", !.was_suspended = FALSE, !.cause = x, !.state = q]
      BY <1>4, <2>1, <2>3 DEF AcceptEvent
    <2> QED BY <2>2, <2>4, <2>5 DEF Validator
  <1>5. CASE e.kind = "TerminalQuiesced" /\ NaturalExitStates(v)
    <2>1. PICK x : x = IF v.cause = "none" THEN "natural" ELSE v.cause
      OBVIOUS
    <2>2. x \in Cause \cup {"none"}
      BY <1>0, <2>1 DEF Cause
    <2>3. w = [v EXCEPT !.state = "Quiesced", !.sig = "none", !.cause = x]
      BY <1>5, <2>1 DEF AcceptEvent
    <2> QED BY <2>2, <2>3, ZenonT(60) DEF Validator, LifecycleState
  <1>6. CASE e.kind = "UsageExhausted" /\ v.state = "Active"
    <2>1. w = [v EXCEPT !.state = "AwaitQuiesced", !.cause = "usage"]
      BY <1>6 DEF AcceptEvent
    <2> QED BY <2>1, ZenonT(60) DEF Validator, LifecycleState, Cause
  <1>7. CASE e.kind = "ChildrenReaped" /\ v.state = "RecoveryDisarmed"
    <2>1. w = [v EXCEPT !.state = "Terminal", !.exit = e.arg] /\ e.arg \in Disposition
      BY <1>7, EventFields DEF AcceptEvent
    <2> QED BY <2>1, ZenonT(60) DEF Validator, LifecycleState
  <1>8. CASE /\ e.kind # "Failed"
             /\ ~(e.kind = "ChildStarted" /\ v.state = (IF e.arg = "app" THEN "AwaitApp" ELSE "AwaitTui"))
             /\ ~(e.kind = "InputGateOpened" /\ v.state = "AwaitGateOpened")
             /\ ~(e.kind = "SignalForwarded" /\ v.state = "AwaitSignalForwarded" /\ v.sig = e.arg)
             /\ ~(e.kind = "TerminalQuiesced" /\ NaturalExitStates(v))
             /\ ~(e.kind = "UsageExhausted" /\ v.state = "Active")
             /\ ~(e.kind = "ChildrenReaped" /\ v.state = "RecoveryDisarmed")
    <2>1. PICK m \in EventMoves : w = [v EXCEPT !.state = m[3]]
      BY <1>8 DEF AcceptEvent
    <2>2. m[3] \in LifecycleState
      BY DEF EventMoves, LifecycleState
    <2> QED BY <2>1, <2>2, StateMoves
  <1> QED BY <1>1, <1>2, <1>3, <1>4, <1>5, <1>6, <1>7, <1>8

------------------------------------------------------------------------------
(* The coordinator *)

(* What a frame that a validator refuses leaves in the history. *)
Refusals == {"coordinator", "guardian"} \X LifecycleState \X
              {f.kind : f \in Command \cup Event} \X {f.arg : f \in Command \cup Event}

LEMMA RefusalTyped ==
  ASSUME refused \subseteq Refusals, NEW who \in {"coordinator", "guardian"}, NEW v \in Validator,
         NEW c \in Command \cup Event
  PROVE  refused \cup {<<who, v.state, c.kind, c.arg>>} \subseteq Refusals
  <1>1. v.state \in LifecycleState
    BY DEF Validator
  <1>2. c.kind \in {f.kind : f \in Command \cup Event} /\ c.arg \in {f.arg : f \in Command \cup Event}
    OBVIOUS
  <1>3. <<who, v.state, c.kind, c.arg>> \in Refusals
    BY <1>1, <1>2 DEF Refusals
  <1> QED BY <1>3

(* What a step of the coordinator must keep so that the guardian and the    *)
(* anchor keep what they know of it.                                        *)
LEMMA CoordinatorStep ==
  ASSUME SessionInv, UNCHANGED <<gvars, apc, completion>>, SessionTypeOK', CoordinatorInStep',
         StaysCooked => StaysCooked', ~COpen => ~COpen', ~CoordinatorGone
  PROVE  SessionInv'
  <1>1. GuardianInStep'
    BY DEF SessionInv, GuardianInStep, gvars, gshut, session, ChildLive
  <1>2. AnchorInStep'
    BY DEF SessionInv, AnchorInStep, gvars, gshut, session, CoordinatorGone
  <1> QED BY <1>1, <1>2 DEF SessionInv

LEMMA CSendTyped ==
  ASSUME SessionTypeOK, NEW c \in Command, NEW next \in CoordinatorPc, CSend(c, next)
  PROVE  /\ cpc' \in {next, "retain"} /\ cpc' \in CoordinatorPc
         /\ cv' \in Validator /\ refused' \subseteq Refusals
         /\ up' \in Seq(Command) /\ UNCHANGED down
         /\ UNCHANGED up \/ (cpc' = next /\ up' = Append(up, c))
  <1> USE DEF SessionTypeOK
  <1>1. PICK w : w = AcceptCommand(cv, c)
    OBVIOUS
  <1>2. CASE w # {} /\ GOpen
    <2>1. cv' \in w /\ up' = Append(up, c) /\ cpc' = next /\ UNCHANGED <<down, refused>>
      BY <1>1, <1>2 DEF CSend
    <2>2. cv' \in Validator
      BY <1>1, <2>1, AcceptCommandTyped
    <2> QED BY <2>1, <2>2 DEF Refusals
  <1>3. CASE ~(w # {} /\ GOpen)
    <2>1. /\ cpc' = "retain" /\ UNCHANGED <<cv, wire>>
          /\ refused' \in {refused, refused \cup {<<"coordinator", cv.state, c.kind, c.arg>>}}
      BY <1>1, <1>3 DEF CSend
    <2>2. refused' \subseteq Refusals
      <3>1. refused \subseteq Refusals
        BY DEF Refusals
      <3> QED BY <2>1, <3>1, RefusalTyped
    <2> QED BY <2>1, <2>2 DEF wire, CoordinatorPc
  <1> QED BY <1>2, <1>3

LEMMA AfterEventPc ==
  ASSUME cpc \in Receiving, NEW e
  PROVE  /\ AfterEvent(e) \in CoordinatorPc \ {"parked"}
         /\ cpc \in Winding => AfterEvent(e) \in {"report", "wait", "retain"}
         /\ cpc \notin Winding => AfterEvent(e) \notin Behind
         /\ cpc \in Ahead /\ e.kind # "Ready" => AfterEvent(e) \in Ahead \cup Winding
  <1>1. CASE cpc = "signal" /\ e.kind = "SignalForwarded"
    BY <1>1 DEF AfterEvent, CoordinatorPc, Winding, Behind, Ahead
  <1>2. CASE ~(cpc = "signal" /\ e.kind = "SignalForwarded")
    <2>1. PICK r : r = {m[3] : m \in {m \in Reads : m[1] = cpc /\ m[2] = e.kind}}
      OBVIOUS
    <2>2. AfterEvent(e) = IF r = {} THEN "retain" ELSE CHOOSE pc \in r : TRUE
      BY <1>2, <2>1 DEF AfterEvent
    <2>3. CASE r = {}
      BY <2>2, <2>3 DEF CoordinatorPc, Winding, Behind, Ahead, Receiving
    <2>4. CASE r # {}
      <3>1. AfterEvent(e) \in r
        BY <2>2, <2>4
      <3>2. PICK m \in Reads : m[1] = cpc /\ m[2] = e.kind /\ AfterEvent(e) = m[3]
        BY <2>1, <3>1
      <3> QED BY <3>2 DEF Reads, CoordinatorPc, Winding, Behind, Ahead
    <2> QED BY <2>3, <2>4
  <1> QED BY <1>1, <1>2

LEMMA TailOf ==
  ASSUME NEW S, NEW s \in Seq(S), s # << >>
  PROVE  /\ Tail(s) \in Seq(S) /\ Head(s) \in S /\ 1 \in DOMAIN s /\ Head(s) = s[1]
         /\ \A i \in DOMAIN Tail(s) : i + 1 \in DOMAIN s /\ Tail(s)[i] = s[i + 1]
  OBVIOUS

LEMMA AppendOf ==
  ASSUME NEW S, NEW s \in Seq(S), NEW x \in S
  PROVE  /\ Append(s, x) \in Seq(S)
         /\ \A i \in DOMAIN Append(s, x) : \/ i \in DOMAIN s /\ Append(s, x)[i] = s[i]
                                           \/ Append(s, x)[i] = x
  OBVIOUS

LEMMA FaultTyped ==
  ASSUME SessionTypeOK, Fault
  PROVE  signals' \in 0..MaxSignals /\ trouble' \in 0..MaxTrouble
  BY SupervisorAssumption DEF SessionTypeOK, Fault

LEMMA KeepsReceive ==
  ASSUME SessionInv, CReceive
  PROVE  SessionInv'
  <1> DEFINE e == Head(down)
  <1>1. SessionTypeOK
    BY DEF SessionInv
  <1>2. e \in Event /\ Tail(down) \in Seq(Event)
    BY <1>1, TailOf DEF SessionTypeOK, CReceive
  <1>3. /\ cpc \in Receiving /\ down # << >> /\ down' = Tail(down) /\ CQuiet
        /\ UNCHANGED <<latch, up, tty, budget>>
    BY DEF CReceive
  <1>4. \/ cv' \in AcceptEvent(cv, e) /\ cpc' = AfterEvent(e) /\ UNCHANGED refused
        \/ /\ cpc' = "retain" /\ UNCHANGED cv
           /\ refused' = refused \cup {<<"coordinator", cv.state, e.kind, e.arg>>}
    BY DEF CReceive
  <1>5. cv' \in Validator
    BY <1>1, <1>2, <1>4, AcceptEventTyped DEF SessionTypeOK
  <1>6. refused' \subseteq Refusals
    <2>1. refused \subseteq Refusals /\ cv \in Validator
      BY <1>1 DEF SessionTypeOK, Refusals
    <2> QED BY <1>2, <1>4, <2>1, RefusalTyped
  <1>7. /\ cpc' \in CoordinatorPc
        /\ cpc \in Winding => cpc' \in {"report", "wait", "retain"}
        /\ cpc \notin Winding => cpc' \notin Behind
        /\ cpc \in Ahead /\ e.kind # "Ready" => cpc' \in Ahead \cup Winding
    BY <1>3, <1>4, AfterEventPc DEF CoordinatorPc, Winding, Behind, Receiving, Ahead
  <1> HIDE DEF e
  <1>8. SessionTypeOK'
    BY <1>1, <1>2, <1>3, <1>5, <1>6, <1>7 DEF SessionTypeOK, CQuiet, gvars, gshut, session, budget, Refusals
  <1>9. CoordinatorInStep'
    <2>1. cpc' # "done"
      BY <1>3, <1>7 DEF Winding, Behind
    <2>2. cpc' \in Behind => tty' = "cooked"
      <3>1. cpc \in Winding => cpc \in Behind
        BY <1>3 DEF Receiving, Winding, Behind
      <3> QED BY <1>3, <1>7, <3>1 DEF SessionInv, CoordinatorInStep
    <2>3. cpc \in Winding => cpc' \in Winding
      BY <1>7 DEF Winding
    <2> QED BY <1>3, <2>1, <2>2, <2>3 DEF SessionInv, CoordinatorInStep
  <1>10. StaysCooked => StaysCooked'
    <2> SUFFICES ASSUME StaysCooked
                 PROVE  StaysCooked'
      OBVIOUS
    <2>1. CASE cpc \in Winding
      BY <1>3, <1>7, <2>1 DEF StaysCooked, Winding
    <2>2. CASE cpc \in Ahead /\ NotAnnounced
      <3>1. e.kind # "Ready" /\ NotAnnounced'
        BY <1>1, <1>3, <2>2, TailOf DEF SessionTypeOK, NotAnnounced, e
      <3> QED BY <1>3, <1>7, <2>2, <3>1 DEF StaysCooked
    <2> QED BY <2>1, <2>2 DEF StaysCooked
  <1>11. COpen /\ ~CoordinatorGone
    BY <1>3 DEF Receiving, COpen, CoordinatorGone
  <1> QED BY <1>3, <1>8, <1>9, <1>10, <1>11, CoordinatorStep DEF CQuiet

(* A step of the coordinator that only moves it towards its end. *)
LEMMA KeepsWinding ==
  ASSUME SessionInv, UNCHANGED <<gvars, apc, completion>>, UNCHANGED <<cv, wire, refused>>, latch' \subseteq SignalLatch,
         signals' \in 0..MaxSignals, trouble' \in 0..MaxTrouble,
         ~CoordinatorGone, cpc' \in CoordinatorPc, tty' \in {tty, "cooked"},
         cpc' \in Winding, cpc' \in Behind => tty' = "cooked", ~COpen => ~COpen',
         cpc' = "done" => gpc = "exited" /\ gexit = cv.exit
  PROVE  SessionInv'
  <1>1. SessionTypeOK'
    BY DEF SessionInv, SessionTypeOK, gvars, gshut, session, wire
  <1>2. CoordinatorInStep'
    BY DEF SessionInv, CoordinatorInStep, gvars, gshut, session, wire
  <1>3. StaysCooked => StaysCooked'
    BY DEF StaysCooked
  <1> QED BY <1>1, <1>2, <1>3, CoordinatorStep

LEMMA KeepsFail ==
  ASSUME SessionInv, CPeerLost \/ CStarved \/ CDeadline
  PROVE  SessionInv'
  <1>1. cpc \in Receiving \cup {"wait"} /\ CFail
    BY DEF CPeerLost, CStarved, CDeadline
  <1>2. signals' \in 0..MaxSignals /\ trouble' \in 0..MaxTrouble
    BY FaultTyped DEF CPeerLost, CStarved, CDeadline, SessionInv, SessionTypeOK, budget
  <1>3. COpen /\ ~CoordinatorGone
    BY <1>1 DEF Receiving, COpen, CoordinatorGone
  <1>4. cpc' = "retain" /\ CQuiet /\ UNCHANGED <<cv, latch, wire, tty, refused>>
    BY <1>1 DEF CFail
  <1> QED BY <1>2, <1>3, <1>4, KeepsWinding DEF CQuiet, SessionInv, SessionTypeOK, CoordinatorPc, Winding, Behind

LEMMA KeepsEnd ==
  ASSUME SessionInv, CRestore \/ CFinish \/ CRetain
  PROVE  SessionInv'
  <1>0. signals' \in 0..MaxSignals /\ trouble' \in 0..MaxTrouble
    BY DEF CRestore, CFinish, CRetain, SessionInv, SessionTypeOK, budget
  <1>1. CASE CRestore
    BY <1>0, <1>1, KeepsWinding DEF CRestore, RestoreFails, CQuiet, SessionInv, SessionTypeOK, CoordinatorPc, Winding, Behind, CoordinatorGone, COpen
  <1>2. CASE CFinish
    <2>1. tty = "cooked"
      BY <1>2 DEF CFinish, SessionInv, CoordinatorInStep, Behind
    <2> QED BY <1>0, <1>2, <2>1, KeepsWinding
             DEF CFinish, CQuiet, SessionInv, SessionTypeOK, CoordinatorPc, Winding, Behind, CoordinatorGone, COpen
  <1>3. CASE CRetain
    <2>1. UNCHANGED <<gvars, apc, completion>> /\ UNCHANGED <<cv, wire, refused, latch>>
      BY <1>3 DEF CRetain
    <2>2. cpc \in {"retain", "retained"} /\ cpc' \in {"retained", "parked"} /\ tty' \in {tty, "cooked"}
      BY <1>3 DEF CRetain, LastRestore
    <2> QED BY <1>0, <2>1, <2>2, KeepsWinding DEF SessionInv, SessionTypeOK, CoordinatorPc, Winding, Behind, CoordinatorGone, COpen
  <1> QED BY <1>1, <1>2, <1>3

LEMMA LeastOf ==
  ASSUME NEW i \in SUBSET (1..6), i # {}
  PROVE  \E n \in i : \A m \in i : n <= m
  <1>1. CASE 1 \in i
    BY <1>1
  <1>2. CASE 1 \notin i /\ 2 \in i
    BY <1>2
  <1>3. CASE 1 \notin i /\ 2 \notin i /\ 3 \in i
    BY <1>3
  <1>4. CASE 1 \notin i /\ 2 \notin i /\ 3 \notin i /\ 4 \in i
    BY <1>4
  <1>5. CASE 1 \notin i /\ 2 \notin i /\ 3 \notin i /\ 4 \notin i /\ 5 \in i
    BY <1>5
  <1>6. CASE 1 \notin i /\ 2 \notin i /\ 3 \notin i /\ 4 \notin i /\ 5 \notin i
    <2>1. PICK k \in i : TRUE
      OBVIOUS
    <2>2. \A m \in i : m = 6
      BY <1>6
    <2> QED BY <2>1, <2>2
  <1> QED BY <1>1, <1>2, <1>3, <1>4, <1>5, <1>6

LEMMA FirstActive ==
  next_active \in {"none", "hup", "term", "tstp", "int", "quit", "winch"}
  <1> DEFINE order == <<"hup", "term", "tstp", "int", "quit", "winch">>
             i == {n \in DOMAIN order : order[n] \in latch}
  <1>1. DOMAIN order = 1..6
    OBVIOUS
  <1>2. next_active = IF i = {} THEN "none" ELSE order[CHOOSE n \in i : \A m \in i : n <= m]
    BY DEF next_active, FirstOf
  <1>3. CASE i # {}
    <2>1. \E n \in i : \A m \in i : n <= m
      <3> HIDE DEF order
      <3>1. i \in SUBSET (1..6)
        BY <1>1
      <3> HIDE DEF i
      <3> QED BY <1>3, <3>1, LeastOf
    <2>2. (CHOOSE n \in i : \A m \in i : n <= m) \in i
      <3> HIDE DEF i
      <3> QED BY <2>1
    <2>3. PICK k \in 1..6 : next_active = order[k]
      <3> HIDE DEF order
      <3> QED BY <1>1, <1>2, <1>3, <2>2
    <2> QED BY <2>3
  <1> QED BY <1>2, <1>3

LEMMA FirstSuspended ==
  next_suspended \in {"none", "hup", "term", "int", "quit", "cont"}
  <1> DEFINE order == <<"hup", "term", "int", "quit", "cont">>
             i == {n \in DOMAIN order : order[n] \in latch}
  <1>1. DOMAIN order = 1..5
    OBVIOUS
  <1>2. next_suspended = IF i = {} THEN "none" ELSE order[CHOOSE n \in i : \A m \in i : n <= m]
    BY DEF next_suspended, FirstOf
  <1>3. CASE i # {}
    <2>1. \E n \in i : \A m \in i : n <= m
      <3> HIDE DEF order
      <3>1. i \in SUBSET (1..6)
        BY <1>1
      <3> HIDE DEF i
      <3> QED BY <1>3, <3>1, LeastOf
    <2>2. (CHOOSE n \in i : \A m \in i : n <= m) \in i
      <3> HIDE DEF i
      <3> QED BY <2>1
    <2>3. PICK k \in 1..5 : next_suspended = order[k]
      <3> HIDE DEF order
      <3> QED BY <1>1, <1>2, <1>3, <2>2
    <2> QED BY <2>3
  <1> QED BY <1>2, <1>3

LEMMA KeepsSend ==
  ASSUME SessionInv, NEW c \in Command, NEW next \in CoordinatorPc, CSend(c, next), CQuiet,
         latch' \subseteq SignalLatch, UNCHANGED <<tty, budget>>, COpen, next # "done",
         cpc \in Ahead => next \in Ahead, cpc \in Winding => next \in Winding,
         next \in Behind => tty = "cooked",
         c.kind = "TerminalRestored" => next \in Winding /\ tty = "cooked"
  PROVE  SessionInv'
  <1>1. SessionTypeOK
    BY DEF SessionInv
  <1>2. /\ cpc' \in {next, "retain"} /\ cpc' \in CoordinatorPc
        /\ cv' \in Validator /\ refused' \subseteq Refusals
        /\ up' \in Seq(Command) /\ UNCHANGED down
        /\ UNCHANGED up \/ (cpc' = next /\ up' = Append(up, c))
    BY <1>1, CSendTyped
  <1>3. SessionTypeOK'
    BY <1>1, <1>2 DEF SessionTypeOK, CQuiet, gvars, gshut, session, budget, Refusals
  <1>4. \A i \in DOMAIN up' : up'[i].kind = "TerminalRestored" => cpc' \in Winding /\ tty' = "cooked"
    <2> SUFFICES ASSUME NEW i \in DOMAIN up', up'[i].kind = "TerminalRestored"
                 PROVE  cpc' \in Winding /\ tty' = "cooked"
      OBVIOUS
    <2>1. CASE i \in DOMAIN up /\ up'[i] = up[i]
      <3>1. cpc \in Winding /\ tty = "cooked"
        BY <2>1 DEF SessionInv, CoordinatorInStep
      <3> QED BY <1>2, <3>1 DEF Winding
    <2>2. CASE cpc' = next /\ up'[i] = c
      BY <2>2
    <2>3. up \in Seq(Command)
      BY <1>1 DEF SessionTypeOK
    <2> QED BY <1>2, <2>1, <2>2, <2>3, AppendOf
  <1>5. CoordinatorInStep'
    <2>1. cpc' \in Behind => tty' = "cooked"
      BY <1>2 DEF Behind
    <2>2. cpc' # "done"
      BY <1>2
    <2> QED BY <1>4, <2>1, <2>2 DEF CoordinatorInStep
  <1>6. StaysCooked => StaysCooked'
    BY <1>2 DEF StaysCooked, NotAnnounced, Winding
  <1>7. ~CoordinatorGone
    BY DEF COpen, CoordinatorGone
  <1> QED BY <1>3, <1>5, <1>6, <1>7, CoordinatorStep DEF CQuiet

LEMMA PlainCommands ==
  /\ \A k \in {"Start", "TerminalArmAccepted", "OpenInputGate", "Resize", "Suspend", "Resume", "Stop",
               "TerminalRestored"} : Plain(k) \in Command /\ Plain(k).kind = k
  /\ \A r \in ChildRole : Frame("ChildDescriptorsVerified", r) \in Command
  /\ \A s \in UnixSignal : Frame("Signal", s) \in Command
  /\ \A k, a : Frame(k, a).kind = k /\ Frame(k, a).arg = a
  BY DEF Command, Plain, Frame

LEMMA KeepsCommand ==
  ASSUME SessionInv, CCommand
  PROVE  SessionInv'
  <1>1. PICK m \in CCommands : cpc = m[1] /\ CSend(m[2], m[3])
    BY DEF CCommand
  <1>2. CQuiet /\ UNCHANGED <<latch, tty, budget>> /\ latch' \subseteq SignalLatch
    BY DEF CCommand, SessionInv, SessionTypeOK
  <1> HIDE DEF Plain
  <1>3. m[2] \in Command
    BY PlainCommands DEF CCommands
  <1>4. /\ m[3] \in CoordinatorPc /\ m[3] # "done" /\ COpen
        /\ cpc \in Ahead => m[3] \in Ahead
        /\ cpc \in Winding => m[3] \in Winding
        /\ m[3] \in Behind => cpc \in Behind
    BY <1>1 DEF CCommands, CoordinatorPc, COpen, Ahead, Winding, Behind
  <1>5. m[2].kind = "TerminalRestored" => m[3] \in Winding /\ cpc \in Behind
    BY <1>1, PlainCommands DEF CCommands, Winding, Behind
  <1>6. cpc \in Behind => tty = "cooked"
    BY DEF SessionInv, CoordinatorInStep
  <1> QED BY <1>1, <1>2, <1>3, <1>4, <1>5, <1>6, KeepsSend

LEMMA KeepsVerify ==
  ASSUME SessionInv, CVerify
  PROVE  SessionInv'
  <1>1. PICK r \in ChildRole : CSend(Frame("ChildDescriptorsVerified", r), "boot")
    BY DEF CVerify, ChildRole
  <1>2. CQuiet /\ UNCHANGED <<latch, tty, budget>> /\ latch' \subseteq SignalLatch /\ cpc = "verify"
    BY DEF CVerify, SessionInv, SessionTypeOK
  <1>3. PICK c \in Command : c = Frame("ChildDescriptorsVerified", r) /\ c.kind # "TerminalRestored"
    BY PlainCommands
  <1>4. "boot" \in CoordinatorPc /\ COpen /\ "boot" \in Ahead /\ cpc \notin Winding /\ "boot" \notin Behind
    BY <1>2 DEF CoordinatorPc, COpen, Ahead, Winding, Behind
  <1> QED BY <1>1, <1>2, <1>3, <1>4, KeepsSend

(* A move inside the session proper sends no frame and restores nothing     *)
(* that anyone relies on.                                                   *)
LEMMA KeepsMove ==
  ASSUME SessionInv, CQuiet, UNCHANGED <<cv, wire, refused, budget>>, latch' \subseteq SignalLatch,
         COpen, cpc \notin Winding, cpc \notin Ahead, tty' \in {"cooked", "raw"},
         cpc' \in CoordinatorPc, cpc' \notin Behind
  PROVE  SessionInv'
  <1>1. SessionTypeOK'
    BY DEF SessionInv, SessionTypeOK, CQuiet, gvars, gshut, session, wire, budget
  <1>2. CoordinatorInStep'
    BY DEF SessionInv, CoordinatorInStep, CQuiet, gvars, gshut, session, wire, Behind
  <1>3. ~StaysCooked
    BY DEF StaysCooked
  <1>4. ~CoordinatorGone
    BY DEF COpen, CoordinatorGone
  <1> QED BY <1>1, <1>2, <1>3, <1>4, CoordinatorStep DEF CQuiet

LEMMA KeepsMoves ==
  ASSUME SessionInv, CEnterRaw \/ CStop \/ CPollIdle
  PROVE  SessionInv'
  <1>1. /\ CQuiet /\ UNCHANGED <<cv, wire, refused, budget>> /\ latch' \subseteq latch
        /\ cpc \in {"ready", "resuming", "stopping", "poll"} /\ tty' \in {tty, "raw", "cooked"}
        /\ cpc' \in {"gate", "resumed", "stopped", "suspended", "retain"}
    BY DEF CEnterRaw, CStop, RestoreFails, CPollIdle
  <1>2. latch' \subseteq SignalLatch /\ tty' \in {"cooked", "raw"}
    BY <1>1 DEF SessionInv, SessionTypeOK
  <1>3. COpen /\ cpc \notin Winding /\ cpc \notin Ahead /\ cpc' \in CoordinatorPc /\ cpc' \notin Behind
    BY <1>1 DEF COpen, Winding, Ahead, CoordinatorPc, Behind
  <1> QED BY <1>1, <1>2, <1>3, KeepsMove

LEMMA KeepsControl ==
  ASSUME SessionInv, CControl
  PROVE  SessionInv'
  <1>1. /\ CQuiet /\ UNCHANGED <<tty, budget>> /\ cpc = "active" /\ next_active # "none"
        /\ latch' = latch \ {next_active}
    BY DEF CControl
  <1>2. latch' \subseteq SignalLatch /\ tty' \in {"cooked", "raw"}
    BY <1>1 DEF SessionInv, SessionTypeOK
  <1>3. COpen /\ cpc \notin Winding /\ cpc \notin Ahead
    BY <1>1 DEF COpen, Winding, Ahead
  <1>4. CASE next_active = "tstp"
    <2>1. cpc' = "suspend" /\ UNCHANGED <<cv, wire, refused>>
      BY <1>4 DEF CControl
    <2> QED BY <1>1, <1>2, <1>3, <2>1, KeepsMove DEF CoordinatorPc, Behind
  <1>5. CASE next_active # "tstp"
    <2>1. PICK c \in Command, next \in {"resize", "signal"} : CSend(c, next) /\ c.kind # "TerminalRestored"
      <3>1. CASE next_active = "winch"
        <4>1. CSend(Plain("Resize"), "resize")
          BY <3>1 DEF CControl
        <4> QED BY <4>1, PlainCommands
      <3>2. CASE next_active # "winch"
        <4>1. CSend(Frame("Signal", next_active), "signal")
          BY <1>5, <3>2 DEF CControl
        <4>2. next_active \in UnixSignal
          BY <1>1, <1>5, <3>2, FirstActive DEF UnixSignal
        <4> QED BY <4>1, <4>2, PlainCommands
      <3> QED BY <3>1, <3>2
    <2>2. next \in CoordinatorPc /\ next # "done" /\ next \notin Behind
      BY DEF CoordinatorPc, Behind
    <2> QED BY <1>1, <1>2, <1>3, <2>1, <2>2, KeepsSend
  <1> QED BY <1>4, <1>5

LEMMA KeepsSuspended ==
  ASSUME SessionInv, CSuspended
  PROVE  SessionInv'
  <1>1. /\ CQuiet /\ UNCHANGED <<tty, budget>> /\ cpc = "suspended" /\ next_suspended # "none"
        /\ latch' = latch \ {next_suspended}
    BY DEF CSuspended
  <1>2. latch' \subseteq SignalLatch /\ tty' \in {"cooked", "raw"}
    BY <1>1 DEF SessionInv, SessionTypeOK
  <1>3. COpen /\ cpc \notin Winding /\ cpc \notin Ahead
    BY <1>1 DEF COpen, Winding, Ahead
  <1>4. CASE next_suspended = "cont"
    <2>1. cpc' = "resuming" /\ UNCHANGED <<cv, wire, refused>>
      BY <1>4 DEF CSuspended
    <2> QED BY <1>1, <1>2, <1>3, <2>1, KeepsMove DEF CoordinatorPc, Behind
  <1>5. CASE next_suspended # "cont"
    <2>1. CSend(Frame("Signal", next_suspended), "signal")
      BY <1>5 DEF CSuspended
    <2>2. next_suspended \in UnixSignal
      BY <1>1, <1>5, FirstSuspended DEF UnixSignal
    <2>3. PICK c \in Command : CSend(c, "signal") /\ c.kind # "TerminalRestored"
      BY <2>1, <2>2, PlainCommands
    <2>4. "signal" \in CoordinatorPc /\ "signal" \notin Behind
      BY DEF CoordinatorPc, Behind
    <2> QED BY <1>1, <1>2, <1>3, <2>3, <2>4, KeepsSend
  <1> QED BY <1>4, <1>5

------------------------------------------------------------------------------
(* The guardian *)

(* What every step of the guardian does to its transcript and to the wire:  *)
(* it keeps their types and adds no command.                                *)
Exchanged ==
  /\ gv' \in Validator /\ gbad' \in BOOLEAN /\ refused' \subseteq Refusals
  /\ down' \in Seq(Event) /\ up' \in Seq(Command)
  /\ \A i \in DOMAIN up' : \E j \in DOMAIN up : up'[i] = up[j]
  /\ signals' \in 0..MaxSignals /\ trouble' \in 0..MaxTrouble

GuardianTyped ==
  /\ gpc \in GuardianPc /\ gcond \in {"healthy", "lost", "invalid"}
  /\ gend \in Disposition \cup {"none"} /\ gexit \in Disposition \cup {"none"}
  /\ retry \in BOOLEAN /\ stage \in {"none", "quiesce", "restore", "cleanup"}
  /\ app \in {"none", "live", "gone"} /\ tui \in {"none", "live", "gone"}
  /\ worker \in {"none", "clean", "dirty"}
  /\ completion \in {"open", "released", "retained", "closed"}

LEMMA TypedParts ==
  SessionTypeOK => /\ GuardianTyped /\ cv \in Validator /\ gv \in Validator /\ gbad \in BOOLEAN
            /\ refused \subseteq Refusals /\ down \in Seq(Event) /\ up \in Seq(Command)
            /\ signals \in 0..MaxSignals /\ trouble \in 0..MaxTrouble
  BY DEF SessionTypeOK, GuardianTyped, Refusals

(* What a step of a guardian that has not ended must keep. *)
LEMMA GuardianStep ==
  ASSUME SessionInv, GOpen, Exchanged, GuardianTyped', UNCHANGED <<cvars, apc>>, tty' \in {tty, "cooked"},
         GuardianInStep', GOpen' => completion' = "open",
         completion' = "released" => gpc' = "exited", gpc' # "killed"
  PROVE  SessionInv'
  <1>1. SessionTypeOK'
    BY DEF SessionInv, SessionTypeOK, Exchanged, GuardianTyped, cvars, Refusals
  <1>2. CoordinatorInStep'
    <2>1. cpc # "done" /\ UNCHANGED <<cpc, cv>>
      BY DEF SessionInv, CoordinatorInStep, GOpen, cvars
    <2>2. \A i \in DOMAIN up' : up'[i].kind = "TerminalRestored" => cpc \in Winding /\ tty' = "cooked"
      BY DEF SessionInv, CoordinatorInStep, Exchanged
    <2>3. cpc \in Behind => tty' = "cooked"
      BY DEF SessionInv, CoordinatorInStep
    <2> QED BY <2>1, <2>2, <2>3 DEF CoordinatorInStep
  <1>3. AnchorInStep'
    <2>1. completion = "open" /\ apc # "done"
      BY DEF SessionInv, AnchorInStep, GOpen
    <2>2. apc = "parked" => CoordinatorGone'
      BY <2>1 DEF SessionInv, AnchorInStep, CoordinatorGone, cvars
    <2> QED BY <2>1, <2>2 DEF AnchorInStep, GOpen
  <1> QED BY <1>1, <1>2, <1>3 DEF SessionInv

LEMMA EmitTyped ==
  ASSUME SessionTypeOK, NEW v \in Validator, NEW e, GEmitFrom(v, e), AcceptEvent(v, e) # {} => e \in Event,
         e.kind \in {f.kind : f \in Command \cup Event}, e.arg \in {f.arg : f \in Command \cup Event}
  PROVE  /\ gv' \in Validator /\ gbad' \in BOOLEAN /\ down' \in Seq(Event) /\ refused' \subseteq Refusals
         /\ UNCHANGED down \/ down' = Append(down, e)
         /\ NotAnnounced /\ e.kind # "Ready" => NotAnnounced'
         /\ Emitted(v, e) \in {"healthy", "lost", "invalid"}
         /\ Emitted(v, e) = "lost" => ~COpen
  <1>0. down \in Seq(Event) /\ refused \subseteq Refusals /\ gbad \in BOOLEAN
    BY TypedParts
  <1>1. CASE gbad \/ AcceptEvent(v, e) = {}
    <2>1. /\ gbad' = TRUE /\ gv' = v /\ UNCHANGED down
          /\ refused' \in {refused, refused \cup {<<"guardian", v.state, e.kind, e.arg>>}}
      BY <1>1 DEF GEmitFrom
    <2>2. <<"guardian", v.state, e.kind, e.arg>> \in Refusals
      BY DEF Refusals, Validator
    <2>3. Emitted(v, e) = "invalid"
      BY <1>1 DEF Emitted
    <2>4. UNCHANGED down /\ (NotAnnounced => NotAnnounced')
      BY <2>1 DEF NotAnnounced
    <2> QED BY <1>0, <2>1, <2>2, <2>3, <2>4
  <1>2. CASE ~(gbad \/ AcceptEvent(v, e) = {})
    <2>1. /\ gv' \in AcceptEvent(v, e) /\ gbad' \in BOOLEAN
          /\ down' \in {down, Append(down, e)} /\ UNCHANGED refused
      BY <1>2 DEF GEmitFrom
    <2>2. e \in Event
      BY <1>2
    <2>3. gv' \in Validator
      BY <2>1, <2>2, AcceptEventTyped
    <2>4. down' \in Seq(Event) /\ (NotAnnounced /\ e.kind # "Ready" => NotAnnounced')
      BY <1>0, <2>1, <2>2, AppendOf DEF NotAnnounced
    <2>5. Emitted(v, e) = IF COpen THEN "healthy" ELSE "lost"
      BY <1>2 DEF Emitted
    <2> QED BY <1>0, <2>1, <2>3, <2>4, <2>5
  <1> QED BY <1>1, <1>2

LEMMA EmitEvent ==
  ASSUME SessionTypeOK, NEW v \in Validator, NEW e \in Event, GEmitFrom(v, e)
  PROVE  /\ gv' \in Validator /\ gbad' \in BOOLEAN /\ down' \in Seq(Event) /\ refused' \subseteq Refusals
         /\ NotAnnounced /\ e.kind # "Ready" => NotAnnounced'
         /\ Emitted(v, e) \in {"healthy", "lost", "invalid"}
         /\ Emitted(v, e) = "lost" => ~COpen
  <1>1. e.kind \in {f.kind : f \in Command \cup Event} /\ e.arg \in {f.arg : f \in Command \cup Event}
    OBVIOUS
  <1> QED BY <1>1, EmitTyped

LEMMA PlainEvents ==
  /\ \A k \in {"LeaseCommitted", "TerminalArmed", "Ready", "InputGateOpened", "ResizeApplied", "Suspended",
               "Resumed", "UsageExhausted", "TerminalQuiesced", "TerminalRecoveryDisarmed"} : Plain(k) \in Event
  /\ \A k : Plain(k).kind = k
  /\ \A r \in ChildRole : Frame("ChildStarted", r) \in Event
  /\ \A s \in UnixSignal : Frame("SignalForwarded", s) \in Event
  /\ \A f \in FailureKind : Failed(f) \in Event /\ Failed(f).kind = "Failed"
  <1>1. \A k \in {"LeaseCommitted", "TerminalArmed", "Ready", "InputGateOpened", "ResizeApplied", "Suspended",
               "Resumed", "UsageExhausted", "TerminalQuiesced", "TerminalRecoveryDisarmed"} : Plain(k) \in Event
    BY DEF Event
  <1>2. \A k : Plain(k).kind = k
    BY DEF Plain, Frame
  <1>3. \A r \in ChildRole : Frame("ChildStarted", r) \in Event
    BY DEF Event
  <1>4. \A s \in UnixSignal : Frame("SignalForwarded", s) \in Event
    BY DEF Event
  <1>5. \A f \in FailureKind : Failed(f) \in Event
    BY DEF Event, Failed
  <1>6. \A f : Failed(f).kind = "Failed"
    BY DEF Failed, Frame
  <1> QED BY <1>1, <1>2, <1>3, <1>4, <1>5, <1>6

(* The wire when the guardian reads a command, and when it reads none. *)
LEMMA WireKept ==
  ASSUME SessionTypeOK, up' \in {up, Tail(up)}, up' # up => up # << >>
  PROVE  up' \in Seq(Command) /\ \A i \in DOMAIN up' : \E j \in DOMAIN up : up'[i] = up[j]
  <1>1. up \in Seq(Command)
    BY TypedParts
  <1>2. CASE up' = up
    BY <1>1, <1>2
  <1>3. CASE up' # up
    BY <1>1, <1>3, TailOf
  <1> QED BY <1>2, <1>3

(* A step into the shutdown. *)
LEMMA KeepsShut ==
  ASSUME SessionInv, GOpen, Exchanged, NEW d \in Disposition, NEW k \in {"healthy", "lost", "invalid"}, Shut(d, k),
         k = "lost" => ~COpen, GQuiet, UNCHANGED <<worker, completion>>,
         app' \in {"none", "live", "gone"}, tui' \in {"none", "live", "gone"}
  PROVE  SessionInv'
  <1>1. GuardianTyped'
    BY TypedParts DEF SessionInv, Shut, GuardianTyped, GuardianPc
  <1>2. GuardianInStep'
    <2>1. gpc' = "quiesce" /\ gend' = d /\ gcond' = k /\ d # "none" /\ (COpen' <=> COpen)
      BY DEF Shut, GQuiet, cvars, COpen, Disposition, Cause
    <2> QED BY <2>1 DEF GuardianInStep, Bootstrap, Closing, Stopped
  <1>3. completion' = "open" /\ gpc' = "quiesce"
    BY DEF SessionInv, AnchorInStep, GOpen, Shut
  <1>4. UNCHANGED <<cvars, apc, tty>>
    BY DEF GQuiet
  <1> QED BY <1>1, <1>2, <1>3, <1>4, GuardianStep

(* A step between the start of the children and the shutdown. *)
Running == {"app", "vapp", "tui", "vtui", "ready", "gate", "active", "suspended"}

LEMMA KeepsRun ==
  ASSUME SessionInv, GOpen, Exchanged, NEW pc \in Running, Goto(pc), GQuiet, UNCHANGED <<worker, completion>>,
         app' \in {"none", "live", "gone"}, tui' \in {"none", "live", "gone"}
  PROVE  SessionInv'
  <1>1. GuardianTyped'
    BY TypedParts DEF SessionInv, Goto, GuardianTyped, GuardianPc, gshut, Running
  <1>2. GuardianInStep'
    <2>1. gpc' = pc /\ gcond' = gcond /\ (COpen' <=> COpen)
      BY DEF Goto, GQuiet, cvars, COpen, gshut
    <2>2. pc \notin Bootstrap \cup Closing \cup Stopped \cup {"quiesce", "retained"}
      BY DEF Running, Bootstrap, Closing, Stopped
    <2>3. gcond = "lost" => ~COpen
      BY DEF SessionInv, GuardianInStep
    <2> QED BY <2>1, <2>2, <2>3 DEF GuardianInStep
  <1>3. completion' = "open" /\ gpc' = pc /\ pc # "killed"
    BY DEF SessionInv, AnchorInStep, GOpen, Goto, Running
  <1>4. UNCHANGED <<cvars, apc, tty>>
    BY DEF GQuiet
  <1> QED BY <1>1, <1>2, <1>3, <1>4, GuardianStep

LEMMA EmitKeeps ==
  ASSUME SessionTypeOK, NEW v \in Validator, NEW e \in Event, GEmitFrom(v, e),
         up' \in {up, Tail(up)}, up' # up => up # << >>, UNCHANGED budget
  PROVE  Exchanged
  <1>1. signals' \in 0..MaxSignals /\ trouble' \in 0..MaxTrouble
    BY DEF SessionTypeOK, budget
  <1> QED BY <1>1, EmitEvent, WireKept DEF Exchanged

LEMMA SilentKeeps ==
  ASSUME SessionTypeOK, gv' \in Validator, gbad' \in BOOLEAN, UNCHANGED <<down, refused>>,
         up' \in {up, Tail(up)}, up' # up => up # << >>, UNCHANGED budget \/ Fault
  PROVE  Exchanged
  <1>1. signals' \in 0..MaxSignals /\ trouble' \in 0..MaxTrouble
    BY FaultTyped DEF SessionTypeOK, budget
  <1> QED BY <1>1, TypedParts, WireKept DEF Exchanged

LEMMA KeepsShutFailed ==
  ASSUME SessionInv, GOpen, NEW v \in Validator, NEW f \in FailureKind, ShutFailed(v, f), GQuiet,
         UNCHANGED <<session, completion, budget>>, up' \in {up, Tail(up)}, up' # up => up # << >>
  PROVE  SessionInv'
  <1>1. PICK e \in Event : e = Failed(f)
    BY PlainEvents
  <1>2. GEmitFrom(v, e) /\ Shut("failure", Emitted(v, e)) /\ SessionTypeOK
    BY <1>1 DEF ShutFailed, SessionInv
  <1>3. Exchanged
    BY <1>2, EmitKeeps
  <1>4. Emitted(v, e) \in {"healthy", "lost", "invalid"} /\ (Emitted(v, e) = "lost" => ~COpen)
    BY <1>2, EmitEvent
  <1>5. "failure" \in Disposition /\ UNCHANGED <<worker, completion>>
    BY DEF Disposition, session
  <1>6. app' \in {"none", "live", "gone"} /\ tui' \in {"none", "live", "gone"}
    BY <1>2 DEF SessionTypeOK, session
  <1> QED BY <1>2, <1>3, <1>4, <1>5, <1>6, KeepsShut

LEMMA KeepsStartChild ==
  ASSUME SessionInv, GStartChild
  PROVE  SessionInv'
  <1>1. /\ gpc \in ChildRole /\ GQuiet /\ UNCHANGED <<worker, completion, up, budget>> /\ SessionTypeOK /\ GOpen
        /\ gv \in Validator
    BY DEF GStartChild, SessionInv, SessionTypeOK, GOpen, ChildRole
  <1>2. CASE ShutFailed(gv, "other") /\ UNCHANGED <<app, tui>>
    BY <1>1, <1>2, KeepsShutFailed DEF FailureKind, session
  <1>3. CASE /\ app' = IF gpc = "app" THEN "live" ELSE app
             /\ tui' = IF gpc = "tui" THEN "live" ELSE tui
             /\ GEmitFrom(gv, Frame("ChildStarted", gpc))
             /\ IF Emitted(gv, Frame("ChildStarted", gpc)) = "healthy"
                THEN Goto(IF gpc = "app" THEN "vapp" ELSE "vtui")
                ELSE Shut("failure", Emitted(gv, Frame("ChildStarted", gpc)))
    <2>1. PICK e \in Event : e = Frame("ChildStarted", gpc)
      BY <1>1, PlainEvents
    <2>2. Exchanged
      BY <1>1, <1>3, <2>1, EmitKeeps
    <2>3. app' \in {"none", "live", "gone"} /\ tui' \in {"none", "live", "gone"}
      BY <1>1, <1>3 DEF SessionTypeOK
    <2>4. CASE Emitted(gv, e) = "healthy"
      <3>1. PICK pc \in Running : Goto(pc)
        BY <1>3, <2>1, <2>4 DEF Running
      <3> QED BY <1>1, <2>2, <2>3, <3>1, KeepsRun
    <2>5. CASE Emitted(gv, e) # "healthy"
      <3>1. Emitted(gv, e) \in {"healthy", "lost", "invalid"} /\ (Emitted(gv, e) = "lost" => ~COpen)
        BY <1>1, <1>3, <2>1, EmitEvent
      <3>2. Shut("failure", Emitted(gv, e)) /\ "failure" \in Disposition
        BY <1>3, <2>1, <2>5 DEF Disposition
      <3> QED BY <1>1, <2>2, <2>3, <3>1, <3>2, KeepsShut
    <2> QED BY <2>4, <2>5
  <1> QED BY <1>2, <1>3 DEF GStartChild

LEMMA KeepsRefuse ==
  ASSUME SessionInv, GOpen, NEW c \in Command, GRefuse(c), GQuiet,
         UNCHANGED <<session, completion, budget>>, up' = Tail(up), up # << >>
  PROVE  SessionInv'
  <1>1. SessionTypeOK /\ refused \subseteq Refusals /\ gv \in Validator
    BY TypedParts DEF SessionInv
  <1>2. /\ gv' \in Validator /\ gbad' \in BOOLEAN /\ UNCHANGED down
        /\ refused' = refused \cup {<<"guardian", gv.state, c.kind, c.arg>>} /\ Shut("failure", "invalid")
    BY <1>1 DEF GRefuse
  <1>3. refused' \subseteq Refusals
    BY <1>1, <1>2, RefusalTyped
  <1>4. Exchanged
    <2>1. signals' \in 0..MaxSignals /\ trouble' \in 0..MaxTrouble /\ down' \in Seq(Event)
      BY <1>1, <1>2 DEF SessionTypeOK, budget
    <2> QED BY <1>1, <1>2, <1>3, <2>1, WireKept DEF Exchanged
  <1>5. "failure" \in Disposition /\ UNCHANGED <<worker, completion>>
    BY DEF Disposition, session
  <1>6. app' \in {"none", "live", "gone"} /\ tui' \in {"none", "live", "gone"}
    BY <1>1 DEF SessionTypeOK, session
  <1> QED BY <1>2, <1>4, <1>5, <1>6, KeepsShut

LEMMA KeepsVerified ==
  ASSUME SessionInv, GVerified
  PROVE  SessionInv'
  <1>1. /\ gpc \in {"vapp", "vtui"} /\ up # << >> /\ up' = Tail(up)
        /\ GQuiet /\ UNCHANGED <<session, completion, budget>> /\ SessionTypeOK /\ gv \in Validator /\ GOpen
    BY DEF GVerified, SessionInv, SessionTypeOK, GOpen
  <1>2. PICK c \in Command : c = Head(up)
    BY <1>1, TypedParts, TailOf
  <1>3. CASE AcceptCommand(gv, c) = {}
    <2>1. GRefuse(c)
      BY <1>2, <1>3 DEF GVerified
    <2> QED BY <1>1, <2>1, KeepsRefuse
  <1>4. CASE AcceptCommand(gv, c) # {}
    <2>1. /\ gv' \in AcceptCommand(gv, c) /\ Goto(IF gpc = "vapp" THEN "tui" ELSE "ready")
          /\ UNCHANGED <<gbad, down, refused>>
      BY <1>2, <1>4 DEF GVerified
    <2>2. gv' \in Validator /\ gbad' \in BOOLEAN
      BY <1>1, <2>1, AcceptCommandTyped DEF SessionTypeOK
    <2>3. Exchanged
      BY <1>1, <2>1, <2>2, SilentKeeps
    <2>4. PICK pc \in Running : Goto(pc)
      BY <2>1 DEF Running
    <2>5. app' \in {"none", "live", "gone"} /\ tui' \in {"none", "live", "gone"} /\ UNCHANGED <<worker, completion>>
      BY <1>1 DEF SessionTypeOK, session
    <2> QED BY <1>1, <2>3, <2>4, <2>5, KeepsRun
  <1> QED BY <1>3, <1>4

LEMMA KeepsReady ==
  ASSUME SessionInv, GReady
  PROVE  SessionInv'
  <1>1. /\ GQuiet /\ UNCHANGED <<session, completion, up, budget>> /\ SessionTypeOK /\ gv \in Validator /\ GOpen
    BY DEF GReady, SessionInv, SessionTypeOK, GOpen
  <1>2. PICK e \in Event : e = Plain("Ready")
    BY PlainEvents
  <1>3. GEmitFrom(gv, e) /\ IF Emitted(gv, e) = "healthy" THEN Goto("gate") ELSE Shut("failure", Emitted(gv, e))
    BY <1>2 DEF GReady
  <1>4. Exchanged
    BY <1>1, <1>3, EmitKeeps
  <1>5. app' \in {"none", "live", "gone"} /\ tui' \in {"none", "live", "gone"} /\ UNCHANGED <<worker, completion>>
    BY <1>1 DEF SessionTypeOK, session
  <1>6. CASE Emitted(gv, e) = "healthy"
    <2>1. "gate" \in Running
      BY DEF Running
    <2> QED BY <1>1, <1>3, <1>4, <1>5, <1>6, <2>1, KeepsRun
  <1>7. CASE Emitted(gv, e) # "healthy"
    <2>1. Emitted(gv, e) \in {"healthy", "lost", "invalid"} /\ (Emitted(gv, e) = "lost" => ~COpen)
      BY <1>1, <1>3, EmitEvent
    <2>2. "failure" \in Disposition
      BY DEF Disposition
    <2> QED BY <1>1, <1>3, <1>4, <1>5, <1>7, <2>1, <2>2, KeepsShut
  <1> QED BY <1>6, <1>7

LEMMA LoopOpen ==
  ASSUME SessionTypeOK, gpc \in Loop \cup {"ready", "vapp", "vtui", "quiesce", "quiet", "await", "cleanup", "disarm",
                                    "joined", "publish", "retained"}
  PROVE  GOpen /\ gv \in Validator /\ gbad \in BOOLEAN
  BY DEF SessionTypeOK, Loop, GOpen

LEMMA KeepsComponentFails ==
  ASSUME SessionInv, GComponentFails
  PROVE  SessionInv'
  <1>1. /\ gpc \in Loop \cup {"ready"} /\ ShutFailed(gv, "other") /\ GQuiet
        /\ UNCHANGED <<session, completion, up, budget>>
    BY DEF GComponentFails
  <1>2. GOpen /\ gv \in Validator
    BY <1>1, LoopOpen DEF SessionInv
  <1> QED BY <1>1, <1>2, KeepsShutFailed DEF FailureKind

LEMMA KeepsNaturalExit ==
  ASSUME SessionInv, GNaturalExit
  PROVE  SessionInv'
  <1>1. /\ gpc \in Loop /\ Shut("natural", "healthy") /\ GQuiet
        /\ UNCHANGED <<gv, gbad, session, completion, wire, refused, budget>> /\ SessionTypeOK
    BY DEF GNaturalExit, Loop, SessionInv
  <1>2. GOpen /\ gv' \in Validator /\ gbad' \in BOOLEAN
    BY <1>1, LoopOpen
  <1>3. Exchanged
    BY <1>1, <1>2, SilentKeeps DEF wire
  <1>4. app' \in {"none", "live", "gone"} /\ tui' \in {"none", "live", "gone"} /\ UNCHANGED <<worker, completion>>
    BY <1>1 DEF SessionTypeOK, session
  <1>5. "natural" \in Disposition
    BY DEF Disposition, Cause
  <1> QED BY <1>1, <1>2, <1>3, <1>4, <1>5, KeepsShut

LEMMA KeepsUsageExhausted ==
  ASSUME SessionInv, GUsageExhausted
  PROVE  SessionInv'
  <1>1. gpc \in Loop /\ GQuiet /\ UNCHANGED <<session, completion, up, budget>> /\ SessionTypeOK
    BY DEF GUsageExhausted, Loop, SessionInv
  <1>2. GOpen /\ gv \in Validator
    BY <1>1, LoopOpen
  <1>3. PICK e \in Event : e = Plain("UsageExhausted")
    BY PlainEvents
  <1>4. GEmitFrom(gv, e) /\ Shut(IF Emitted(gv, e) = "healthy" THEN "usage" ELSE "failure", Emitted(gv, e))
    BY <1>3 DEF GUsageExhausted
  <1>5. PICK d \in Disposition : d = IF Emitted(gv, e) = "healthy" THEN "usage" ELSE "failure"
    BY DEF Disposition, Cause
  <1>6. Exchanged
    BY <1>1, <1>2, <1>4, EmitKeeps
  <1>7. Emitted(gv, e) \in {"healthy", "lost", "invalid"} /\ (Emitted(gv, e) = "lost" => ~COpen)
    BY <1>1, <1>2, <1>4, EmitEvent
  <1>8. app' \in {"none", "live", "gone"} /\ tui' \in {"none", "live", "gone"} /\ UNCHANGED <<worker, completion>>
    BY <1>1 DEF SessionTypeOK, session
  <1>9. Shut(d, Emitted(gv, e))
    BY <1>4, <1>5
  <1> QED BY <1>1, <1>2, <1>6, <1>7, <1>8, <1>9, KeepsShut

LEMMA KeepsRecover ==
  ASSUME SessionInv, GRecover
  PROVE  SessionInv'
  <1>1. gpc \in Loop /\ GQuiet /\ UNCHANGED <<session, completion, up, budget>> /\ SessionTypeOK
    BY DEF GRecover, SessionInv
  <1>2. PICK v \in arm_recovery_command_race(gv) : ShutFailed(v, "recovery")
    BY DEF GRecover
  <1>3. GOpen /\ gv \in Validator
    BY <1>1, LoopOpen
  <1>4. v \in Validator
    <2>1. v = [gv EXCEPT !.allowance = "awaiting", !.window = gv.state] /\ gv.state \in Window
      BY <1>2 DEF arm_recovery_command_race
    <2> QED BY <1>3, <2>1 DEF Validator
  <1> QED BY <1>1, <1>2, <1>3, <1>4, KeepsShutFailed DEF FailureKind

LEMMA KeepsPeerLost ==
  ASSUME SessionInv, GPeerLost
  PROVE  SessionInv'
  <1>1. /\ gpc \in Loop \cup {"vapp", "vtui"} /\ Shut("failure", "lost") /\ GQuiet /\ gbad' = TRUE /\ ~COpen
        /\ UNCHANGED <<gv, session, completion, wire, refused, budget>> /\ SessionTypeOK
    BY DEF GPeerLost, SessionInv, GLost
  <1>2. GOpen /\ gv' \in Validator /\ gbad' \in BOOLEAN
    BY <1>1, LoopOpen
  <1>3. Exchanged
    BY <1>1, <1>2, SilentKeeps DEF wire
  <1>4. app' \in {"none", "live", "gone"} /\ tui' \in {"none", "live", "gone"} /\ UNCHANGED <<worker, completion>>
    BY <1>1 DEF SessionTypeOK, session
  <1>5. "failure" \in Disposition
    BY DEF Disposition
  <1> QED BY <1>1, <1>2, <1>3, <1>4, <1>5, KeepsShut

LEMMA KeepsDeadline ==
  ASSUME SessionInv, GDeadline
  PROVE  SessionInv'
  <1>1. /\ gpc \in {"vapp", "vtui"} /\ Shut("failure", "invalid") /\ GQuiet /\ gbad' = TRUE /\ Fault
        /\ UNCHANGED <<gv, session, completion, wire, refused>> /\ SessionTypeOK
    BY DEF GDeadline, SessionInv
  <1>2. GOpen /\ gv' \in Validator /\ gbad' \in BOOLEAN
    BY <1>1, LoopOpen
  <1>3. Exchanged
    BY <1>1, <1>2, SilentKeeps DEF wire
  <1>4. app' \in {"none", "live", "gone"} /\ tui' \in {"none", "live", "gone"} /\ UNCHANGED <<worker, completion>>
    BY <1>1 DEF SessionTypeOK, session
  <1>5. "failure" \in Disposition
    BY DEF Disposition
  <1> QED BY <1>1, <1>2, <1>3, <1>4, <1>5, KeepsShut

(* Only a signal puts a transcript into AwaitSignalForwarded. *)
LEMMA OnlySignals ==
  ASSUME NEW v \in Validator, NEW c \in Command, NEW w \in AcceptCommand(v, c),
         w.state = "AwaitSignalForwarded"
  PROVE  c.kind = "Signal"
  <1> SUFFICES ASSUME c.kind # "Signal"
               PROVE  FALSE
    OBVIOUS
  <1>1. \A u \in Validator : \A x \in OrdinaryCommand(u, c) : x.state # "AwaitSignalForwarded"
    <2> SUFFICES ASSUME NEW u \in Validator, NEW x \in OrdinaryCommand(u, c)
                 PROVE  x.state # "AwaitSignalForwarded"
      OBVIOUS
    <2>1. CASE c.kind = "Stop" /\ u.state \in Window
      <3>1. x = [u EXCEPT !.state = "AwaitQuiesced", !.cause = "stop"]
        BY <2>1 DEF OrdinaryCommand
      <3> QED BY <3>1 DEF Validator
    <2>2. CASE c.kind = "OpenInputGate" /\ u.state = "Quiesced"
      <3>1. x = [u EXCEPT !.superseded_gate = FALSE]
        BY <2>2 DEF OrdinaryCommand
      <3> QED BY <2>2, <3>1 DEF Validator
    <2>3. CASE c.kind = "TerminalRestored" /\ u.state = "Quiesced"
      <3>1. x = [u EXCEPT !.state = "AwaitRecoveryDisarmed", !.superseded_gate = FALSE]
        BY <2>3 DEF OrdinaryCommand
      <3> QED BY <3>1 DEF Validator
    <2>4. CASE /\ ~(c.kind = "Stop" /\ u.state \in Window)
               /\ ~(c.kind = "OpenInputGate" /\ u.state = "Quiesced")
               /\ ~(c.kind = "TerminalRestored" /\ u.state = "Quiesced")
      <3>1. PICK m \in CommandMoves : x = [u EXCEPT !.state = m[4]]
        BY <2>4 DEF OrdinaryCommand
      <3>2. m[4] # "AwaitSignalForwarded"
        BY DEF CommandMoves
      <3> QED BY <3>1, <3>2 DEF Validator
    <2> QED BY <2>1, <2>2, <2>3, <2>4
  <1>2. CASE ~(v.state = "Quiesced" /\ v.allowance # "inactive")
    BY <1>1, <1>2 DEF AcceptCommand
  <1>3. CASE v.state = "Quiesced" /\ v.allowance # "inactive"
    <2>1. w \in accept_recovery_superseded_command(v, c)
      BY <1>3 DEF AcceptCommand
    <2>2. CASE c.kind = "TerminalRestored" /\ v.allowance \in {"armed", "consumed"}
      <3>1. PICK u : u = [v EXCEPT !.allowance = "inactive", !.window = "none"]
        OBVIOUS
      <3>2. u \in Validator
        BY <3>1 DEF Validator
      <3>3. w \in OrdinaryCommand(u, c)
        BY <2>1, <2>2, <3>1 DEF accept_recovery_superseded_command
      <3> QED BY <1>1, <3>2, <3>3
    <2>3. CASE ~(c.kind = "TerminalRestored" /\ v.allowance \in {"armed", "consumed"})
      <3>1. w = [v EXCEPT !.allowance = "consumed", !.window = "none", !.superseded_gate = FALSE]
        BY <2>1, <2>3 DEF accept_recovery_superseded_command
      <3> QED BY <1>3, <3>1 DEF Validator
    <2> QED BY <2>2, <2>3
  <1> QED BY <1>2, <1>3

(* The acknowledgement of a command that a loop accepted is an event, or    *)
(* the transcript refuses it.                                               *)
LEMMA AcknowledgedTyped ==
  ASSUME NEW u \in Validator, NEW c \in Command, NEW v \in AcceptCommand(u, c), NEW e, e = Acknowledged(c)
  PROVE  /\ AcceptEvent(v, e) # {} => e \in Event
         /\ e.kind \in {f.kind : f \in Command \cup Event}
         /\ e.arg \in {f.arg : f \in Command \cup Event}
  <1>1. CASE c.kind \in {"OpenInputGate", "Resize", "Suspend", "Resume"}
    <2>1. PICK k \in {"InputGateOpened", "ResizeApplied", "Suspended", "Resumed"} : e = Plain(k)
      BY <1>1 DEF Acknowledged
    <2>2. e \in Event
      BY <2>1, PlainEvents
    <2> QED BY <2>2
  <1>2. CASE c.kind = "Signal"
    <2>1. e = Frame("SignalForwarded", c.arg) /\ c.arg \in UnixSignal
      BY <1>2, CommandFields DEF Acknowledged
    <2>2. e \in Event
      BY <2>1, PlainEvents
    <2> QED BY <2>2
  <1>3. CASE c.kind \notin {"OpenInputGate", "Resize", "Suspend", "Resume", "Signal"}
    <2>1. e = Frame("SignalForwarded", c.arg)
      BY <1>3 DEF Acknowledged
    <2>2. e.kind = "SignalForwarded" /\ e.arg = c.arg
      BY <2>1 DEF Frame
    <2>3. v.state # "AwaitSignalForwarded"
      BY <1>3, OnlySignals
    <2>4. AcceptEvent(v, e) = {}
      BY <2>2, <2>3 DEF AcceptEvent, EventMoves
    <2>5. PICK f \in Event : f.kind = "SignalForwarded"
      <3>1. Frame("SignalForwarded", "hup") \in Event /\ Frame("SignalForwarded", "hup").kind = "SignalForwarded"
        BY PlainEvents DEF UnixSignal, Frame
      <3> QED BY <3>1
    <2> QED BY <2>2, <2>4, <2>5
  <1> QED BY <1>1, <1>2, <1>3

LEMMA KeepsGCommand ==
  ASSUME SessionInv, GCommand
  PROVE  SessionInv'
  <1>1. /\ gpc \in Loop /\ up # << >> /\ up' = Tail(up) /\ GQuiet
        /\ UNCHANGED <<session, completion, budget>> /\ SessionTypeOK
    BY DEF GCommand, SessionInv
  <1>2. GOpen /\ gv \in Validator
    BY <1>1, LoopOpen
  <1>3. PICK c \in Command : c = Head(up)
    BY <1>1, TypedParts, TailOf
  <1>4. CASE AcceptCommand(gv, c) = {}
    <2>1. GRefuse(c)
      BY <1>3, <1>4 DEF GCommand
    <2> QED BY <1>1, <1>2, <2>1, KeepsRefuse
  <1>5. CASE AcceptCommand(gv, c) # {}
    <2>1. PICK v \in AcceptCommand(gv, c) :
            \/ /\ GEmitFrom(v, Acknowledged(c))
               /\ IF Emitted(v, Acknowledged(c)) # "healthy" THEN Shut("failure", Emitted(v, Acknowledged(c)))
                  ELSE IF c.kind = "Signal" /\ c.arg \notin Interactive THEN Shut(c.arg, "healthy")
                  ELSE Goto(NextLoop(c))
            \/ ShutFailed(v, "other")
      BY <1>3, <1>5 DEF GCommand
    <2>2. v \in Validator
      BY <1>2, AcceptCommandTyped
    <2>3. CASE ShutFailed(v, "other")
      BY <1>1, <1>2, <2>2, <2>3, KeepsShutFailed DEF FailureKind
    <2>4. CASE /\ GEmitFrom(v, Acknowledged(c))
               /\ IF Emitted(v, Acknowledged(c)) # "healthy" THEN Shut("failure", Emitted(v, Acknowledged(c)))
                  ELSE IF c.kind = "Signal" /\ c.arg \notin Interactive THEN Shut(c.arg, "healthy")
                  ELSE Goto(NextLoop(c))
      <3>1. PICK e : e = Acknowledged(c)
        OBVIOUS
      <3>2. /\ gv' \in Validator /\ gbad' \in BOOLEAN /\ down' \in Seq(Event) /\ refused' \subseteq Refusals
            /\ Emitted(v, e) \in {"healthy", "lost", "invalid"}
            /\ Emitted(v, e) = "lost" => ~COpen
        <4>1. /\ AcceptEvent(v, e) # {} => e \in Event
              /\ e.kind \in {f.kind : f \in Command \cup Event} /\ e.arg \in {f.arg : f \in Command \cup Event}
          BY <1>2, <3>1, AcknowledgedTyped
        <4>2. GEmitFrom(v, e)
          BY <2>4, <3>1
        <4> QED BY <1>1, <2>2, <4>1, <4>2, EmitTyped
      <3>3. Exchanged
        <4>1. signals' \in 0..MaxSignals /\ trouble' \in 0..MaxTrouble
          BY <1>1 DEF SessionTypeOK, budget
        <4> QED BY <1>1, <3>2, <4>1, WireKept DEF Exchanged
      <3>4. app' \in {"none", "live", "gone"} /\ tui' \in {"none", "live", "gone"} /\ UNCHANGED <<worker, completion>>
        BY <1>1 DEF SessionTypeOK, session
      <3>5. CASE Emitted(v, e) # "healthy"
        <4>1. Shut("failure", Emitted(v, e)) /\ "failure" \in Disposition
          BY <2>4, <3>1, <3>5 DEF Disposition
        <4> QED BY <1>1, <1>2, <3>2, <3>3, <3>4, <4>1, KeepsShut
      <3>6. CASE Emitted(v, e) = "healthy" /\ c.kind = "Signal" /\ c.arg \notin Interactive
        <4>1. Shut(c.arg, "healthy")
          BY <2>4, <3>1, <3>6
        <4>2. c.arg \in Disposition
          BY <3>6, CommandFields DEF UnixSignal, Interactive, Disposition, Cause
        <4> QED BY <1>1, <1>2, <3>3, <3>4, <4>1, <4>2, KeepsShut
      <3>7. CASE Emitted(v, e) = "healthy" /\ ~(c.kind = "Signal" /\ c.arg \notin Interactive)
        <4>1. Goto(NextLoop(c))
          BY <2>4, <3>1, <3>7
        <4>2. NextLoop(c) \in Running
          BY <1>1 DEF NextLoop, Running, Loop
        <4> QED BY <1>1, <1>2, <3>3, <3>4, <4>1, <4>2, KeepsRun
      <3> QED BY <3>5, <3>6, <3>7
    <2> QED BY <2>1, <2>3, <2>4
  <1> QED BY <1>4, <1>5

(* The end of a guardian that has no live child, after the terminal was     *)
(* restored or before it was made raw.                                      *)
LEMMA KeepsExit ==
  ASSUME SessionInv, GOpen, Exchanged, NEW d \in Disposition \cup {"none"}, GExit(d), GQuiet, UNCHANGED session,
         completion' \in {"released", "closed", "retained"}, ~ChildLive, StaysCooked'
  PROVE  SessionInv'
  <1>1. GuardianTyped'
    BY TypedParts DEF SessionInv, GExit, GuardianTyped, GuardianPc, session
  <1>2. GuardianInStep'
    <2>1. gpc' = "exited" /\ UNCHANGED gcond /\ (COpen' <=> COpen) /\ ~ChildLive'
      BY DEF GExit, GQuiet, cvars, COpen, session, ChildLive
    <2>2. gcond = "lost" => ~COpen
      BY DEF SessionInv, GuardianInStep
    <2> QED BY <2>1, <2>2 DEF GuardianInStep, Bootstrap
  <1>3. UNCHANGED <<cvars, apc, tty>> /\ gpc' = "exited" /\ ~GOpen'
    BY DEF GQuiet, GExit, GOpen
  <1> QED BY <1>1, <1>2, <1>3, GuardianStep

LEMMA CookedKept ==
  ASSUME StaysCooked, GQuiet, NotAnnounced => NotAnnounced'
  PROVE  StaysCooked'
  BY DEF StaysCooked, GQuiet, cvars

LEMMA KeepsBootEmit ==
  ASSUME SessionInv, GBootEmit
  PROVE  SessionInv'
  <1>1. /\ gpc \in {"lease", "arm"} /\ GQuiet /\ UNCHANGED <<up, session, budget>> /\ SessionTypeOK /\ GOpen
        /\ gv \in Validator
    BY DEF GBootEmit, SessionInv, SessionTypeOK, GOpen
  <1>2. PICK e \in Event : /\ e = Plain(IF gpc = "lease" THEN "LeaseCommitted" ELSE "TerminalArmed")
                           /\ e.kind # "Ready"
    BY PlainEvents
  <1>3. /\ GEmitFrom(gv, e)
        /\ IF Emitted(gv, e) = "healthy"
           THEN Goto(IF gpc = "lease" THEN "start" ELSE "armed") /\ UNCHANGED completion
           ELSE GExit("failure") /\ completion' = Unpublished
    BY <1>2 DEF GBootEmit
  <1>4. Exchanged
    BY <1>1, <1>3, EmitKeeps
  <1>5. StaysCooked'
    <2>1. NotAnnounced => NotAnnounced'
      BY <1>1, <1>2, <1>3, EmitEvent
    <2>2. StaysCooked
      BY <1>1 DEF SessionInv, GuardianInStep, Bootstrap
    <2> QED BY <1>1, <2>1, <2>2, CookedKept
  <1>6. app = "none" /\ tui = "none" /\ completion = "open"
    BY <1>1 DEF SessionInv, GuardianInStep, AnchorInStep, Bootstrap
  <1>7. CASE Emitted(gv, e) = "healthy"
    <2>1. gpc' \in {"start", "armed"} /\ UNCHANGED gshut /\ completion' = "open"
      BY <1>3, <1>6, <1>7 DEF Goto
    <2>2. GuardianTyped'
      BY <1>1, <2>1, TypedParts DEF GuardianTyped, GuardianPc, gshut, session
    <2>3. GuardianInStep'
      <3>1. gcond' = "lost" => ~COpen'
        BY <1>1, <2>1 DEF SessionInv, GuardianInStep, COpen, GQuiet, cvars, gshut
      <3>2. app' = "none" /\ tui' = "none"
        BY <1>1, <1>6 DEF session
      <3> QED BY <1>5, <2>1, <3>1, <3>2 DEF GuardianInStep, Stopped, Closing
    <2>4. UNCHANGED <<cvars, apc, tty>>
      BY <1>1 DEF GQuiet
    <2> QED BY <1>1, <1>4, <2>1, <2>2, <2>3, <2>4, GuardianStep
  <1>8. CASE Emitted(gv, e) # "healthy"
    <2>1. GExit("failure") /\ completion' = "closed" /\ "failure" \in Disposition
      BY <1>3, <1>6, <1>8 DEF Unpublished, Disposition
    <2>2. ~ChildLive
      BY <1>6 DEF ChildLive
    <2> QED BY <1>1, <1>4, <1>5, <2>1, <2>2, KeepsExit
  <1> QED BY <1>7, <1>8

LEMMA KeepsBootReceive ==
  ASSUME SessionInv, GBootReceive
  PROVE  SessionInv'
  <1>1. /\ gpc \in {"start", "armed"} /\ GQuiet /\ UNCHANGED <<session, down, refused, budget>> /\ SessionTypeOK /\ GOpen
        /\ gv \in Validator /\ gbad \in BOOLEAN
    BY DEF GBootReceive, SessionInv, SessionTypeOK, GOpen
  <1>2. StaysCooked'
    <2>1. NotAnnounced => NotAnnounced'
      BY <1>1 DEF NotAnnounced
    <2>2. StaysCooked
      BY <1>1 DEF SessionInv, GuardianInStep, Bootstrap
    <2> QED BY <1>1, <2>1, <2>2, CookedKept
  <1>3. app = "none" /\ tui = "none" /\ completion = "open"
    BY <1>1 DEF SessionInv, GuardianInStep, AnchorInStep, Bootstrap
  <1>4. CASE /\ up # << >> /\ gv' \in AcceptCommand(gv, Head(up)) /\ up' = Tail(up)
             /\ Goto(IF gpc = "start" THEN "arm" ELSE "app") /\ UNCHANGED <<gbad, completion>>
    <2>1. gv' \in Validator
      <3>1. Head(up) \in Command
        BY <1>1, <1>4, TypedParts, TailOf
      <3> QED BY <1>1, <1>4, <3>1, AcceptCommandTyped
    <2>2. Exchanged
      BY <1>1, <1>4, <2>1, SilentKeeps
    <2>3. gpc' \in {"arm", "app"} /\ UNCHANGED gshut /\ completion' = "open"
      BY <1>3, <1>4 DEF Goto
    <2>4. GuardianTyped'
      BY <1>1, <2>3, TypedParts DEF GuardianTyped, GuardianPc, gshut, session
    <2>5. GuardianInStep'
      <3>1. gcond' = "lost" => ~COpen'
        BY <1>1, <2>3 DEF SessionInv, GuardianInStep, COpen, GQuiet, cvars, gshut
      <3>2. app' = "none" /\ tui' = "none"
        BY <1>1, <1>3 DEF session
      <3> QED BY <1>2, <2>3, <3>1, <3>2 DEF GuardianInStep, Stopped, Closing
    <2>6. UNCHANGED <<cvars, apc, tty>>
      BY <1>1 DEF GQuiet
    <2> QED BY <1>1, <2>2, <2>3, <2>4, <2>5, <2>6, GuardianStep
  <1>5. CASE GLost /\ GExit("failure") /\ completion' = Unpublished /\ UNCHANGED <<gv, gbad, up>>
    <2>1. completion' = "closed" /\ "failure" \in Disposition
      BY <1>3, <1>5 DEF Unpublished, Disposition
    <2>2. ~ChildLive
      BY <1>3 DEF ChildLive
    <2>3. Exchanged
      BY <1>1, <1>5, SilentKeeps
    <2> QED BY <1>1, <1>2, <1>5, <2>1, <2>2, <2>3, KeepsExit
  <1> QED BY <1>4, <1>5 DEF GBootReceive

LEMMA ShuttingDown ==
  ASSUME SessionInv, gpc \in {"quiesce", "quiet", "await", "cleanup", "disarm", "joined", "publish", "retained"}
  PROVE  /\ SessionTypeOK /\ GOpen /\ gv \in Validator /\ gbad \in BOOLEAN /\ completion = "open"
         /\ gend # "none" /\ gend \in Disposition /\ (gcond = "lost" => ~COpen)
         /\ gpc \notin {"quiesce", "retained"} => ~ChildLive
         /\ gpc \notin {"quiesce", "quiet", "await", "retained"} => StaysCooked
  <1>1. SessionTypeOK /\ gv \in Validator /\ gbad \in BOOLEAN /\ GOpen
    BY LoopOpen DEF SessionInv
  <1>2. completion = "open"
    BY <1>1 DEF SessionInv, AnchorInStep, GOpen
  <1>3. gend # "none" /\ (gcond = "lost" => ~COpen)
    BY DEF SessionInv, GuardianInStep, Stopped, Closing
  <1>4. gend \in Disposition
    BY <1>1, <1>3 DEF SessionTypeOK
  <1>5. gpc \notin {"quiesce", "retained"} => ~ChildLive
    BY DEF SessionInv, GuardianInStep, Stopped, Closing
  <1>6. gpc \notin {"quiesce", "quiet", "await", "retained"} => StaysCooked
    BY DEF SessionInv, GuardianInStep, Closing
  <1> QED BY <1>1, <1>2, <1>3, <1>4, <1>5, <1>6

(* A step within the shutdown: the children stay stopped and the terminal   *)
(* cooked from where they are.                                              *)
LEMMA KeepsShutdown ==
  ASSUME SessionInv, GOpen, Exchanged, UNCHANGED <<cvars, apc>>, tty' \in {tty, "cooked"}, GuardianTyped',
         gpc' \in {"quiesce", "quiet", "await", "cleanup", "disarm", "joined", "publish", "retained"},
         completion' = "open", gend' # "none", gcond' = "lost" => ~COpen,
         gpc' \in {"quiet", "await", "cleanup", "disarm", "joined", "publish"}
           \/ (gpc' = "retained" /\ stage' # "quiesce") => ~ChildLive',
         gpc' \in {"cleanup", "disarm", "joined", "publish"}
           \/ (gpc' = "retained" /\ stage' \notin {"quiesce", "restore"}) => StaysCooked'
  PROVE  SessionInv'
  <1>1. COpen' <=> COpen
    BY DEF COpen, cvars
  <1>2. GuardianInStep'
    BY <1>1 DEF GuardianInStep, Bootstrap, Stopped, Closing
  <1> QED BY <1>2, GuardianStep

LEMMA KeepsPark ==
  ASSUME SessionInv, GOpen, Exchanged, UNCHANGED <<cvars, apc>>, tty' \in {tty, "cooked"},
         UNCHANGED <<session, gcond>>, UNCHANGED <<gend, gexit, retry>>,
         gpc' = "parked", completion' = "retained", stage' \in {"none", "quiesce", "restore", "cleanup"}
  PROVE  SessionInv'
  <1>1. GuardianTyped'
    BY TypedParts DEF SessionInv, GuardianTyped, GuardianPc, session
  <1>2. COpen' <=> COpen
    BY DEF COpen, cvars
  <1>3. GuardianInStep'
    BY <1>2 DEF SessionInv, GuardianInStep, Bootstrap, Stopped, Closing
  <1> QED BY <1>1, <1>3, GuardianStep DEF GOpen

LEMMA KeepsRetain ==
  ASSUME SessionInv, gpc \in {"quiesce", "await", "cleanup"}, Exchanged,
         UNCHANGED <<cvars, apc, tty>>, UNCHANGED <<session, gcond>>,
         NEW where \in {"quiesce", "restore", "cleanup"}, Retain(where),
         where # "quiesce" => ~ChildLive, where = "cleanup" => StaysCooked'
  PROVE  SessionInv'
  <1>1. /\ GOpen /\ completion = "open" /\ gend # "none" /\ (gcond = "lost" => ~COpen) /\ SessionTypeOK
    BY ShuttingDown
  <1>2. CASE retry
    <2>1. gpc' = "retained" /\ completion' = "open" /\ stage' = where /\ UNCHANGED <<gend, gexit, retry>>
      BY <1>1, <1>2 DEF Retain
    <2>2. GuardianTyped'
      BY <1>1, <2>1, TypedParts DEF GuardianTyped, GuardianPc, session
    <2>3. where # "quiesce" => ~ChildLive'
      BY DEF ChildLive, session
    <2> QED BY <1>1, <2>1, <2>2, <2>3, KeepsShutdown
  <1>3. CASE ~retry
    <2>1. gpc' = "parked" /\ completion' = "retained" /\ stage' = where /\ UNCHANGED <<gend, gexit, retry>>
      BY <1>1, <1>3 DEF Retain
    <2> QED BY <1>1, <2>1, KeepsPark
  <1> QED BY <1>2, <1>3

LEMMA KeepsReap ==
  ASSUME SessionInv, GReapTui \/ GStopApp \/ GQuiesceFails
  PROVE  SessionInv'
  <1>1. gpc = "quiesce" /\ UNCHANGED <<cvars, apc, tty>> /\ UNCHANGED <<gv, gbad, wire, refused>>
    BY DEF GReapTui, GStopApp, GQuiesceFails, GQuiet
  <1>2. /\ SessionTypeOK /\ GOpen /\ gv \in Validator /\ gbad \in BOOLEAN /\ completion = "open"
        /\ gend # "none" /\ (gcond = "lost" => ~COpen)
    BY <1>1, ShuttingDown
  <1>3. Exchanged
    <2>1. UNCHANGED budget \/ Fault
      BY DEF GReapTui, GStopApp, GQuiesceFails
    <2> QED BY <1>1, <1>2, <2>1, SilentKeeps DEF wire
  <1>4. CASE GReapTui
    <2>1. UNCHANGED <<gpc, gshut, app, worker, completion>> /\ tui' = "gone"
      BY <1>4 DEF GReapTui
    <2>2. GuardianTyped'
      BY <1>2, <2>1, TypedParts DEF GuardianTyped, gshut
    <2>3. gpc' = "quiesce" /\ completion' = "open" /\ gend' # "none" /\ (gcond' = "lost" => ~COpen)
      BY <1>1, <1>2, <2>1 DEF gshut
    <2> QED BY <1>1, <1>2, <1>3, <2>2, <2>3, KeepsShutdown
  <1>5. CASE GStopApp
    <2>1. /\ UNCHANGED <<gcond, gexit, retry, stage, tui, completion>> /\ gpc' = "quiet"
          /\ app' = IF app = "live" THEN "gone" ELSE app
          /\ worker' \in {"none", "clean", "dirty"} /\ gend' \in {gend, "failure"} /\ tui # "live"
      BY <1>5 DEF GStopApp
    <2>2. GuardianTyped'
      BY <1>2, <2>1, TypedParts DEF GuardianTyped, GuardianPc, Disposition
    <2>3. completion' = "open" /\ gend' # "none" /\ (gcond' = "lost" => ~COpen)
      BY <1>2, <2>1
    <2>4. ~ChildLive'
      BY <2>1 DEF ChildLive
    <2> QED BY <1>1, <1>2, <1>3, <2>1, <2>2, <2>3, <2>4, KeepsShutdown
  <1>6. CASE GQuiesceFails
    <2>1. Retain("quiesce") /\ UNCHANGED <<session, gcond>>
      BY <1>6 DEF GQuiesceFails
    <2> QED BY <1>1, <1>2, <1>3, <2>1, KeepsRetain
  <1> QED BY <1>4, <1>5, <1>6

LEMMA KeepsQuiesced ==
  ASSUME SessionInv, GQuiesced
  PROVE  SessionInv'
  <1>1. gpc = "quiet" /\ GQuiet /\ UNCHANGED <<cvars, apc, tty>> /\ UNCHANGED <<session, up, budget>>
    BY DEF GQuiesced, GQuiet
  <1>2. /\ SessionTypeOK /\ GOpen /\ gv \in Validator /\ completion = "open" /\ ~ChildLive
        /\ gend # "none" /\ (gcond = "lost" => ~COpen)
    BY <1>1, ShuttingDown
  <1>3. PICK e \in Event : e = Plain("TerminalQuiesced")
    BY PlainEvents
  <1>4. GEmitFrom(gv, e)
    BY <1>3 DEF GQuiesced
  <1>5. Exchanged
    BY <1>1, <1>2, <1>4, EmitKeeps
  <1>6. Emitted(gv, e) \in {"healthy", "lost", "invalid"} /\ (Emitted(gv, e) = "lost" => ~COpen)
    BY <1>2, <1>4, EmitEvent
  <1>7. ~ChildLive'
    BY <1>1, <1>2 DEF ChildLive, session
  <1>8. CASE Emitted(gv, e) = "healthy"
    <2>1. gpc' = "await" /\ UNCHANGED <<gshut, completion>>
      BY <1>3, <1>8 DEF GQuiesced, Goto
    <2>2. GuardianTyped'
      BY <1>1, <1>2, <2>1, TypedParts DEF GuardianTyped, GuardianPc, session, gshut
    <2>3. completion' = "open" /\ gend' # "none" /\ (gcond' = "lost" => ~COpen)
      BY <1>2, <2>1 DEF gshut
    <2> QED BY <1>1, <1>2, <1>5, <1>7, <2>1, <2>2, <2>3, KeepsShutdown
  <1>9. CASE Emitted(gv, e) = "lost"
    <2>1. gcond' = "lost" /\ UNCHANGED <<gpc, gend, gexit, retry, stage, completion>>
      BY <1>3, <1>9 DEF GQuiesced
    <2>2. GuardianTyped'
      BY <1>1, <1>2, <2>1, TypedParts DEF GuardianTyped, session
    <2>3. gpc' = "quiet" /\ completion' = "open" /\ gend' # "none" /\ (gcond' = "lost" => ~COpen)
      BY <1>1, <1>2, <1>6, <1>9, <2>1
    <2> QED BY <1>1, <1>2, <1>5, <1>7, <2>1, <2>2, <2>3, KeepsShutdown
  <1>10. CASE Emitted(gv, e) = "invalid"
    <2>1. Park /\ UNCHANGED gcond
      BY <1>3, <1>10 DEF GQuiesced
    <2>2. stage' \in {"none", "quiesce", "restore", "cleanup"} /\ completion' = "retained"
      BY <1>2, <2>1 DEF Park, SessionTypeOK
    <2>3. gpc' = "parked" /\ UNCHANGED <<session, gcond>> /\ UNCHANGED <<gend, gexit, retry>>
      BY <1>1, <2>1 DEF Park
    <2> QED BY <1>1, <1>2, <1>5, <2>2, <2>3, KeepsPark
  <1> QED BY <1>6, <1>8, <1>9, <1>10

LEMMA KeepsFallback ==
  ASSUME SessionInv, GInvalid \/ GFallbackRestore
  PROVE  SessionInv'
  <1>1. gpc = "quiet" /\ UNCHANGED <<cvars, apc>> /\ UNCHANGED <<gv, gbad, session, wire, refused>>
    BY DEF GInvalid, GFallbackRestore, GQuiet
  <1>2. /\ SessionTypeOK /\ GOpen /\ gv \in Validator /\ gbad \in BOOLEAN /\ completion = "open" /\ ~ChildLive
        /\ gend # "none" /\ (gcond = "lost" => ~COpen)
    BY <1>1, ShuttingDown
  <1>3. Exchanged
    <2>1. UNCHANGED budget \/ Fault
      BY DEF GInvalid, GFallbackRestore
    <2> QED BY <1>1, <1>2, <2>1, SilentKeeps DEF wire
  <1>4. CASE Park /\ UNCHANGED gcond /\ tty' \in {tty, "cooked"}
    <2>1. stage' \in {"none", "quiesce", "restore", "cleanup"} /\ completion' = "retained"
      BY <1>2, <1>4 DEF Park, SessionTypeOK
    <2>2. gpc' = "parked" /\ UNCHANGED <<session, gcond>> /\ UNCHANGED <<gend, gexit, retry>>
      BY <1>1, <1>4 DEF Park
    <2> QED BY <1>1, <1>2, <1>3, <1>4, <2>1, <2>2, KeepsPark
  <1>5. CASE gcond = "lost" /\ tty' = "cooked" /\ Goto("cleanup") /\ UNCHANGED completion
    <2>1. gpc' = "cleanup" /\ UNCHANGED gshut
      BY <1>5 DEF Goto
    <2>2. GuardianTyped'
      BY <1>1, <1>2, <1>5, <2>1, TypedParts DEF GuardianTyped, GuardianPc, session, gshut
    <2>3. completion' = "open" /\ gend' # "none" /\ (gcond' = "lost" => ~COpen)
      BY <1>2, <1>5, <2>1 DEF gshut
    <2>4. StaysCooked'
      BY <1>1, <1>2, <1>5 DEF StaysCooked, COpen, cvars, Winding, SessionTypeOK, CoordinatorPc
    <2>5. ~ChildLive'
      BY <1>1, <1>2 DEF ChildLive, session
    <2> QED BY <1>1, <1>2, <1>3, <1>5, <2>1, <2>2, <2>3, <2>4, <2>5, KeepsShutdown
  <1> QED BY <1>4, <1>5 DEF GInvalid, GFallbackRestore, RestoreFails, GQuiet

LEMMA KeepsAwaitRestore ==
  ASSUME SessionInv, GAwaitRestore
  PROVE  SessionInv'
  <1>1. gpc = "await" /\ GQuiet /\ UNCHANGED <<cvars, apc, tty>> /\ UNCHANGED <<session, down, budget>>
    BY DEF GAwaitRestore, GQuiet
  <1>2. /\ SessionTypeOK /\ GOpen /\ gv \in Validator /\ gbad \in BOOLEAN /\ completion = "open" /\ ~ChildLive
        /\ gend # "none" /\ (gcond = "lost" => ~COpen)
    BY <1>1, ShuttingDown
  <1>3. ~ChildLive'
    BY <1>1, <1>2 DEF ChildLive, session
  <1>4. CASE /\ up # << >> /\ gv' \in AcceptCommand(gv, Head(up)) /\ up' = Tail(up)
             /\ Goto(IF Head(up).kind = "TerminalRestored" THEN "cleanup" ELSE "await")
             /\ UNCHANGED <<gbad, completion, refused>>
    <2>1. Head(up) \in Command /\ 1 \in DOMAIN up /\ Head(up) = up[1]
      BY <1>2, <1>4, TypedParts, TailOf
    <2>2. gv' \in Validator
      BY <1>2, <1>4, <2>1, AcceptCommandTyped
    <2>3. Exchanged
      BY <1>1, <1>2, <1>4, <2>2, SilentKeeps
    <2>4. gpc' \in {"cleanup", "await"} /\ UNCHANGED gshut /\ (gpc' = "cleanup" => up[1].kind = "TerminalRestored")
      BY <1>4, <2>1 DEF Goto
    <2>5. GuardianTyped'
      BY <1>1, <1>2, <1>4, <2>4, TypedParts DEF GuardianTyped, GuardianPc, session, gshut
    <2>6. completion' = "open" /\ gend' # "none" /\ (gcond' = "lost" => ~COpen)
      BY <1>2, <1>4, <2>4 DEF gshut
    <2>7. gpc' = "cleanup" => StaysCooked'
      BY <1>1, <2>1, <2>4 DEF SessionInv, CoordinatorInStep, StaysCooked, cvars
    <2> QED BY <1>1, <1>2, <1>3, <2>3, <2>4, <2>5, <2>6, <2>7, KeepsShutdown
  <1>5. CASE /\ up # << >> /\ up' = Tail(up) /\ gbad' = TRUE
             /\ refused' = refused \cup {<<"guardian", gv.state, Head(up).kind, Head(up).arg>>}
             /\ Park /\ UNCHANGED <<gv, gcond>>
    <2>1. PICK c \in Command : c = Head(up)
      BY <1>2, <1>5, TypedParts, TailOf
    <2>2. refused' \subseteq Refusals
      <3>1. refused \subseteq Refusals
        BY <1>2, TypedParts
      <3> QED BY <1>2, <1>5, <2>1, <3>1, RefusalTyped
    <2>3. Exchanged
      <3>1. signals' \in 0..MaxSignals /\ trouble' \in 0..MaxTrouble /\ down' \in Seq(Event)
        BY <1>1, <1>2 DEF SessionTypeOK, budget
      <3> QED BY <1>2, <1>5, <2>2, <3>1, WireKept DEF Exchanged
    <2>4. stage' \in {"none", "quiesce", "restore", "cleanup"} /\ completion' = "retained"
      BY <1>2, <1>5 DEF Park, SessionTypeOK
    <2>5. gpc' = "parked" /\ UNCHANGED <<session, gcond>> /\ UNCHANGED <<gend, gexit, retry>>
      BY <1>1, <1>5 DEF Park
    <2> QED BY <1>1, <1>2, <2>3, <2>4, <2>5, KeepsPark
  <1>6. CASE /\ GLost /\ gpc' = "quiet" /\ gcond' = "lost" /\ gbad' = TRUE
             /\ UNCHANGED <<gv, gend, gexit, retry, stage, up, completion, refused>>
    <2>1. Exchanged
      BY <1>1, <1>2, <1>6, SilentKeeps
    <2>2. GuardianTyped'
      BY <1>1, <1>2, <1>6, TypedParts DEF GuardianTyped, GuardianPc, session
    <2>3. completion' = "open" /\ gend' # "none" /\ ~COpen
      BY <1>2, <1>6 DEF GLost
    <2> QED BY <1>1, <1>2, <1>3, <1>6, <2>1, <2>2, <2>3, KeepsShutdown
  <1> QED BY <1>4, <1>5, <1>6 DEF GAwaitRestore

LEMMA KeepsRestoreDeadline ==
  ASSUME SessionInv, GRestoreDeadline \/ GRestoreStarved
  PROVE  SessionInv'
  <1>1. RestoreDeadline /\ (UNCHANGED budget \/ Fault)
    BY DEF GRestoreDeadline, GRestoreStarved
  <1>2. /\ gpc = "await" /\ UNCHANGED <<cvars, apc, tty>> /\ UNCHANGED <<gv, session, wire, refused>>
        /\ gbad' = TRUE /\ Retain("restore") /\ UNCHANGED gcond
    BY <1>1 DEF RestoreDeadline, GQuiet
  <1>3. SessionTypeOK /\ gv \in Validator /\ ~ChildLive
    BY <1>2, ShuttingDown
  <1>4. Exchanged
    BY <1>1, <1>2, <1>3, SilentKeeps DEF wire
  <1>5. UNCHANGED <<session, gcond>>
    BY <1>2
  <1> QED BY <1>2, <1>3, <1>4, <1>5, KeepsRetain

LEMMA KeepsCleanup ==
  ASSUME SessionInv, GCleanup
  PROVE  SessionInv'
  <1>1. gpc = "cleanup" /\ GQuiet /\ UNCHANGED <<cvars, apc, tty>> /\ UNCHANGED <<gv, gbad, session, wire, refused>>
    BY DEF GCleanup, GQuiet
  <1>2. /\ SessionTypeOK /\ GOpen /\ gv \in Validator /\ gbad \in BOOLEAN /\ completion = "open" /\ ~ChildLive
        /\ gend # "none" /\ (gcond = "lost" => ~COpen) /\ StaysCooked
    BY <1>1, ShuttingDown
  <1>3. Exchanged
    <2>1. UNCHANGED budget \/ Fault
      BY DEF GCleanup
    <2> QED BY <1>1, <1>2, <2>1, SilentKeeps DEF wire
  <1>4. StaysCooked' /\ ~ChildLive'
    <2>1. NotAnnounced => NotAnnounced'
      BY <1>1 DEF NotAnnounced, wire
    <2> QED BY <1>1, <1>2, <2>1, CookedKept DEF ChildLive, session
  <1>5. CASE Goto("disarm") /\ UNCHANGED completion
    <2>1. gpc' = "disarm" /\ UNCHANGED gshut
      BY <1>5 DEF Goto
    <2>2. GuardianTyped'
      BY <1>1, <1>2, <1>5, <2>1, TypedParts DEF GuardianTyped, GuardianPc, session, gshut
    <2>3. completion' = "open" /\ gend' # "none" /\ (gcond' = "lost" => ~COpen)
      BY <1>2, <1>5, <2>1 DEF gshut
    <2> QED BY <1>1, <1>2, <1>3, <1>4, <2>1, <2>2, <2>3, KeepsShutdown
  <1>6. CASE GExit("failure") /\ completion' = IF completion = "open" /\ ~OwnerLost THEN "released" ELSE Unpublished
    <2>1. completion' \in {"released", "closed", "retained"} /\ "failure" \in Disposition
      BY <1>2, <1>6 DEF Unpublished, Disposition
    <2> QED BY <1>1, <1>2, <1>3, <1>4, <1>6, <2>1, KeepsExit
  <1>7. CASE Retain("cleanup") /\ UNCHANGED gcond
    <2>1. UNCHANGED <<session, gcond>>
      BY <1>1, <1>7
    <2> QED BY <1>1, <1>2, <1>3, <1>4, <1>7, <2>1, KeepsRetain
  <1> QED BY <1>5, <1>6, <1>7 DEF GCleanup

LEMMA ReportTyped ==
  ASSUME SessionInv, gpc = "joined"
  PROVE  Report \in Event /\ Report.kind = "ChildrenReaped"
  <1>1. gend \in Disposition /\ SessionTypeOK
    BY ShuttingDown
  <1>2. PICK w \in SUBSET {"app", "tui", "clean", "dirty"} :
          w = {r \in ChildRole : (IF r = "app" THEN app ELSE tui) # "none"} \cup ({worker} \ {"none"})
    BY <1>1 DEF SessionTypeOK, ChildRole
  <1>3. PICK x \in Disposition : x = IF gv.failure # "none" \/ worker # "clean" THEN "failure" ELSE gend
    BY <1>1 DEF Disposition
  <1>4. Report = ChildrenReaped(w, x)
    BY <1>2, <1>3 DEF Report
  <1>5. ChildrenReaped(w, x) \in Event
    BY DEF Event
  <1>6. ChildrenReaped(w, x).kind = "ChildrenReaped"
    BY DEF ChildrenReaped
  <1> QED BY <1>4, <1>5, <1>6

LEMMA KeepsReport ==
  ASSUME SessionInv, GReport
  PROVE  SessionInv'
  <1>1. gpc \in {"disarm", "joined"} /\ GQuiet /\ UNCHANGED <<cvars, apc, tty>> /\ UNCHANGED <<session, up, budget>>
    BY DEF GReport, GQuiet
  <1>2. /\ SessionTypeOK /\ GOpen /\ gv \in Validator /\ completion = "open" /\ ~ChildLive
        /\ gend # "none" /\ (gcond = "lost" => ~COpen) /\ StaysCooked
    BY <1>1, ShuttingDown
  <1>3. PICK e \in Event :
          /\ e.kind # "Ready" /\ GEmitFrom(gv, e)
          /\ \/ GExit("failure") /\ completion' = Unpublished
             \/ \E pc \in {"joined", "publish"} : Goto(pc) /\ UNCHANGED completion
    <2>1. PICK e : /\ e = IF gpc = "disarm" THEN Plain("TerminalRecoveryDisarmed")
                          ELSE IF gpc = "joined" /\ worker # "clean" /\ gv.failure = "none" THEN Failed("worker")
                          ELSE Report
                   /\ GEmitFrom(gv, e)
                   /\ \/ GExit("failure") /\ completion' = Unpublished
                      \/ \E pc \in {"joined", "publish"} : Goto(pc) /\ UNCHANGED completion
      BY DEF GReport
    <2>2. e \in Event /\ e.kind # "Ready"
      <3>1. "worker" \in FailureKind
        BY DEF FailureKind
      <3> QED BY <1>1, <2>1, <3>1, ReportTyped, PlainEvents
    <2> QED BY <2>1, <2>2
  <1>4. Exchanged
    BY <1>1, <1>2, <1>3, EmitKeeps
  <1>5. StaysCooked' /\ ~ChildLive'
    <2>1. NotAnnounced => NotAnnounced'
      BY <1>2, <1>3, EmitEvent
    <2> QED BY <1>1, <1>2, <2>1, CookedKept DEF ChildLive, session
  <1>6. CASE GExit("failure") /\ completion' = Unpublished
    <2>1. completion' \in {"released", "closed", "retained"} /\ "failure" \in Disposition /\ UNCHANGED session
      BY <1>1, <1>2, <1>6 DEF Unpublished, Disposition
    <2> QED BY <1>1, <1>2, <1>4, <1>5, <1>6, <2>1, KeepsExit
  <1>7. CASE \E pc \in {"joined", "publish"} : Goto(pc) /\ UNCHANGED completion
    <2>1. gpc' \in {"joined", "publish"} /\ UNCHANGED gshut /\ UNCHANGED completion
      BY <1>7 DEF Goto
    <2>2. GuardianTyped'
      BY <1>1, <1>2, <2>1, TypedParts DEF GuardianTyped, GuardianPc, session, gshut
    <2>3. completion' = "open" /\ gend' # "none" /\ (gcond' = "lost" => ~COpen)
      BY <1>2, <2>1 DEF gshut
    <2> QED BY <1>1, <1>2, <1>4, <1>5, <2>1, <2>2, <2>3, KeepsShutdown
  <1> QED BY <1>3, <1>6, <1>7

LEMMA KeepsPublish ==
  ASSUME SessionInv, GPublish
  PROVE  SessionInv'
  <1>1. gpc = "publish" /\ GQuiet /\ UNCHANGED <<gv, gbad, session, wire, refused, budget>>
    BY DEF GPublish
  <1>2. /\ SessionTypeOK /\ GOpen /\ gv \in Validator /\ gbad \in BOOLEAN /\ completion = "open" /\ ~ChildLive
        /\ StaysCooked
    BY <1>1, ShuttingDown
  <1>3. Exchanged
    BY <1>1, <1>2, SilentKeeps DEF wire
  <1>4. StaysCooked'
    <2>1. NotAnnounced => NotAnnounced'
      BY <1>1 DEF NotAnnounced, wire
    <2> QED BY <1>1, <1>2, <2>1, CookedKept
  <1>5. PICK d \in Disposition \cup {"none"} : GExit(d)
    BY <1>2 DEF GPublish, Validator, Disposition
  <1>6. completion' \in {"released", "closed", "retained"}
    BY <1>2 DEF GPublish, Unpublished
  <1> QED BY <1>1, <1>2, <1>3, <1>4, <1>5, <1>6, KeepsExit

LEMMA KeepsRetry ==
  ASSUME SessionInv, GRetry
  PROVE  SessionInv'
  <1>1. /\ gpc = "retained" /\ GQuiet /\ UNCHANGED <<cvars, apc, tty>> /\ retry' = FALSE /\ gcond' = "healthy"
        /\ UNCHANGED <<gv, gbad, gend, gexit, stage, session, completion, wire, refused, budget>>
    BY DEF GRetry, GQuiet
  <1>2. SessionTypeOK /\ GOpen /\ gv \in Validator /\ gbad \in BOOLEAN /\ completion = "open" /\ gend # "none"
    BY <1>1, ShuttingDown
  <1>3. Exchanged
    BY <1>1, <1>2, SilentKeeps DEF wire
  <1>4. gpc' = IF stage = "quiesce" THEN "quiesce" ELSE IF stage = "restore" THEN "quiet" ELSE "cleanup"
    BY DEF GRetry
  <1>5. GuardianTyped'
    BY <1>1, <1>2, <1>4, TypedParts DEF GuardianTyped, GuardianPc, session
  <1>6. gpc' # "quiesce" => ~ChildLive'
    <2>1. stage # "quiesce" => ~ChildLive
      BY <1>1 DEF SessionInv, GuardianInStep
    <2> QED BY <1>1, <1>4, <2>1 DEF ChildLive, session
  <1>7. gpc' = "cleanup" => StaysCooked'
    <2>1. NotAnnounced => NotAnnounced'
      BY <1>1 DEF NotAnnounced, wire
    <2>2. gpc' = "cleanup" => StaysCooked
      BY <1>1, <1>4 DEF SessionInv, GuardianInStep
    <2> QED BY <1>1, <2>1, <2>2, CookedKept
  <1> QED BY <1>1, <1>2, <1>3, <1>4, <1>5, <1>6, <1>7, KeepsShutdown

------------------------------------------------------------------------------
(* The anchor and the environment *)

(* A step that leaves the guardian alone and may kill or continue the       *)
(* coordinator.                                                             *)
LEMMA OuterStep ==
  ASSUME SessionInv, UNCHANGED <<cv, gvars, completion, wire, refused>>,
         tty' \in {tty, "cooked"}, latch' \subseteq SignalLatch, apc' \in AnchorPc,
         signals' \in 0..MaxSignals, trouble' \in 0..MaxTrouble,
         \/ cpc' = cpc
         \/ cpc' = "killed" /\ ~CoordinatorGone
         \/ cpc' = "suspended" /\ cpc = "stopped",
         apc' = "done" => completion = "released" /\ CoordinatorGone' /\ tty' = "cooked",
         apc' = "parked" => completion = "retained" \/ CoordinatorGone'
  PROVE  SessionInv'
  <1>0. UNCHANGED <<gpc, gv, gbad, gcond, gend, gexit, retry, stage, app, tui, worker, up, down>>
    BY DEF gvars, gshut, session, wire
  <1>1. SessionTypeOK'
    BY <1>0 DEF SessionInv, SessionTypeOK, CoordinatorPc
  <1>2. /\ cpc \in Winding => cpc' \in Winding
        /\ cpc' \in Behind => cpc' = cpc
        /\ cpc \in Ahead => cpc' \in Ahead \cup Winding
        /\ ~COpen => ~COpen'
    BY DEF Winding, Behind, Ahead, COpen
  <1>3. CoordinatorInStep'
    BY <1>0, <1>2 DEF SessionInv, CoordinatorInStep, Behind
  <1>4. StaysCooked => StaysCooked'
    BY <1>0, <1>2 DEF StaysCooked, NotAnnounced
  <1>5. GuardianInStep'
    BY <1>0, <1>2, <1>4 DEF SessionInv, GuardianInStep, ChildLive
  <1>6. AnchorInStep'
    BY <1>0 DEF SessionInv, AnchorInStep
  <1> QED BY <1>1, <1>3, <1>5, <1>6 DEF SessionInv

LEMMA KeepsAnchorSteps ==
  ASSUME SessionInv, ASteps
  PROVE  SessionInv'
  <1>0. /\ SessionTypeOK
        /\ latch \subseteq SignalLatch /\ latch \cup {"term"} \subseteq SignalLatch
    BY DEF SessionInv, SessionTypeOK, SignalLatch, UnixSignal
  <1>1. CASE ARelayStop \/ ANotStopped \/ APark \/ AEmergency
    <2>1. /\ UNCHANGED <<cv, gvars, completion, wire, refused>> /\ UNCHANGED <<cpc, budget>>
          /\ tty' \in {tty, "cooked"} /\ latch' \in {latch, latch \cup {"term"}}
          /\ apc' \in {"stopped", "watch", "emergency"} \/ (apc' = "parked" /\ completion = "retained")
      BY <1>1 DEF ARelayStop, ANotStopped, APark, AEmergency, Emergency, AQuiet
    <2>2. signals' \in 0..MaxSignals /\ trouble' \in 0..MaxTrouble
      BY <1>0, <2>1 DEF SessionTypeOK, budget
    <2> QED BY <1>0, <2>1, <2>2, OuterStep DEF AnchorPc
  <1>2. CASE AForce
    <2>1. /\ UNCHANGED <<cv, gvars, completion, wire, refused>> /\ UNCHANGED <<apc, tty, budget>>
          /\ cpc' = "killed" /\ ~CoordinatorGone /\ latch' = {} /\ apc = "emergency"
      BY <1>2 DEF AForce, AQuiet
    <2>2. signals' \in 0..MaxSignals /\ trouble' \in 0..MaxTrouble
      BY <1>0, <2>1 DEF SessionTypeOK, budget
    <2> QED BY <2>1, <2>2, OuterStep DEF AnchorPc
  <1>3. CASE AFinish \/ AContained
    <2>1. /\ UNCHANGED <<cvars, gvars, completion, wire, refused>> /\ UNCHANGED budget /\ CoordinatorGone
          /\ tty' \in {tty, "cooked"}
          /\ apc' = "parked" \/ (apc' = "done" /\ completion = "released" /\ tty' = "cooked")
      BY <1>3 DEF AFinish, AContained, ARestore, LastRestore
    <2>2. UNCHANGED <<cv, gvars, completion, wire, refused>> /\ UNCHANGED <<cpc, latch>> /\ CoordinatorGone'
      BY <2>1 DEF cvars, CoordinatorGone
    <2>3. signals' \in 0..MaxSignals /\ trouble' \in 0..MaxTrouble
      BY <1>0, <2>1 DEF SessionTypeOK, budget
    <2> QED BY <1>0, <2>1, <2>2, <2>3, OuterStep DEF AnchorPc
  <1> QED BY <1>1, <1>2, <1>3 DEF ASteps

LEMMA KeepsTimeout ==
  ASSUME SessionInv, ATimeout
  PROVE  SessionInv'
  <1>1. /\ UNCHANGED <<cv, gvars, completion, wire, refused>> /\ UNCHANGED <<cpc, tty>>
        /\ latch' \subseteq latch \cup {"term"} /\ apc' = "emergency" /\ Fault
    BY DEF ATimeout, Emergency, AQuiet
  <1>2. latch' \subseteq SignalLatch /\ signals' \in 0..MaxSignals /\ trouble' \in 0..MaxTrouble
    BY <1>1, FaultTyped DEF SessionInv, SessionTypeOK, SignalLatch, UnixSignal
  <1> QED BY <1>1, <1>2, OuterStep DEF AnchorPc

LEMMA KeepsKillGuardian ==
  ASSUME SessionInv, KillGuardian
  PROVE  SessionInv'
  <1>1. /\ ~GuardianGone /\ Fault /\ gpc' = "killed" /\ completion' = Unpublished
        /\ UNCHANGED <<cvars, gv, gbad, gshut, session, apc, wire, tty, refused>>
    BY DEF KillGuardian, Kill
  <1>2. signals' \in 0..MaxSignals /\ trouble' \in 0..MaxTrouble
    BY <1>1, FaultTyped DEF SessionInv
  <1>3. UNCHANGED <<cpc, cv, latch, gcond, gend, gexit, retry, stage, app, tui, worker, up, down>>
    BY <1>1 DEF cvars, gshut, session, wire
  <1>4. SessionTypeOK'
    BY <1>1, <1>2, <1>3 DEF SessionInv, SessionTypeOK, GuardianPc, Unpublished
  <1>5. CoordinatorInStep'
    BY <1>1, <1>3 DEF SessionInv, CoordinatorInStep, GuardianGone
  <1>6. GuardianInStep'
    BY <1>1, <1>3 DEF SessionInv, GuardianInStep, Bootstrap, Stopped, Closing, COpen
  <1>7. AnchorInStep'
    <2>1. completion # "released" /\ apc # "done"
      BY <1>1 DEF SessionInv, AnchorInStep, GuardianGone
    <2>2. completion' \in {"closed", "retained"} /\ (completion = "retained" => completion' = "retained")
      BY <1>1, <2>1 DEF SessionInv, SessionTypeOK, Unpublished
    <2>3. apc' = "parked" => completion' = "retained" \/ CoordinatorGone'
      BY <1>1, <1>3, <2>2 DEF SessionInv, AnchorInStep, CoordinatorGone
    <2> QED BY <1>1, <2>1, <2>2, <2>3 DEF AnchorInStep
  <1> QED BY <1>4, <1>5, <1>6, <1>7 DEF SessionInv

LEMMA KeepsEnvironment ==
  ASSUME SessionInv, Environment
  PROVE  SessionInv'
  <1>0. /\ SessionTypeOK
        /\ apc = "done" => completion = "released" /\ CoordinatorGone /\ tty = "cooked"
        /\ apc = "parked" => completion = "retained" \/ CoordinatorGone
    BY DEF SessionInv, AnchorInStep
  <1>1. CASE USignal
    <2>1. UNCHANGED <<cpc, cv, gvars, apc, completion, wire, tty, refused, trouble>> /\ latch' \subseteq SignalLatch
      BY <1>0, <1>1, SupervisorAssumption DEF USignal, SessionTypeOK
    <2>2. signals' \in 0..MaxSignals /\ trouble' \in 0..MaxTrouble
      BY <1>0, <1>1, SupervisorAssumption DEF USignal, SessionTypeOK
    <2>3. UNCHANGED CoordinatorGone /\ apc' \in AnchorPc
      BY <1>0, <2>1 DEF CoordinatorGone, SessionTypeOK
    <2>4. UNCHANGED <<cv, gvars, completion, wire, refused>>
      BY <2>1
    <2> QED BY <1>0, <2>1, <2>2, <2>3, <2>4, OuterStep
  <1>2. CASE ASuspend
    <2>1. UNCHANGED <<cv, gvars, completion, wire, refused>> /\ UNCHANGED <<cpc, tty, trouble>> /\ apc' = "suspending"
      BY <1>2 DEF ASuspend, AQuiet
    <2>2. signals' \in 0..MaxSignals /\ trouble' \in 0..MaxTrouble
      BY <1>0, <1>2, SupervisorAssumption DEF ASuspend, SessionTypeOK
    <2>3. latch' \subseteq SignalLatch
      BY <1>0, <1>2 DEF ASuspend, SessionTypeOK, SignalLatch
    <2> QED BY <2>1, <2>2, <2>3, OuterStep DEF AnchorPc
  <1>3. CASE AContinue
    <2>1. /\ UNCHANGED <<cv, gvars, completion, wire, refused>> /\ UNCHANGED <<tty, budget>>
          /\ apc' \in {"watch", "emergency"} /\ latch' \in {latch, latch \cup {"cont"}, latch \cup {"term"}}
          /\ cpc' = cpc \/ (cpc' = "suspended" /\ cpc = "stopped")
      BY <1>3 DEF AContinue, Emergency, AQuiet
    <2>2. latch' \subseteq SignalLatch /\ signals' \in 0..MaxSignals /\ trouble' \in 0..MaxTrouble
      BY <1>0, <2>1 DEF SessionTypeOK, SignalLatch, UnixSignal, budget
    <2> QED BY <2>1, <2>2, OuterStep DEF AnchorPc
  <1>4. CASE KillCoordinator
    <2>1. /\ UNCHANGED <<cv, gvars, apc, completion, wire, tty, refused>> /\ cpc' = "killed" /\ ~CoordinatorGone
          /\ latch' = {} /\ Fault
      BY <1>4 DEF KillCoordinator, Kill
    <2>2. latch' \subseteq SignalLatch /\ signals' \in 0..MaxSignals /\ trouble' \in 0..MaxTrouble
      BY <1>0, <2>1, FaultTyped
    <2>3. apc' \in AnchorPc /\ UNCHANGED <<cv, gvars, completion, wire, refused>>
      BY <1>0, <2>1 DEF SessionTypeOK
    <2> QED BY <1>0, <2>1, <2>2, <2>3, OuterStep
  <1>5. CASE KillGuardian
    BY <1>5, KeepsKillGuardian
  <1>6. CASE KillAnchor
    <2>1. /\ UNCHANGED <<cv, gvars, completion, wire, refused>> /\ UNCHANGED tty /\ apc' = "killed" /\ Fault
          /\ cpc' = cpc \/ (cpc' = "suspended" /\ cpc = "stopped")
      BY <1>6 DEF KillAnchor, Kill
    <2>2. latch' \subseteq SignalLatch
      BY <1>0, <1>6 DEF KillAnchor, SessionTypeOK, SignalLatch, UnixSignal
    <2>3. signals' \in 0..MaxSignals /\ trouble' \in 0..MaxTrouble
      BY <1>0, <2>1, FaultTyped
    <2> QED BY <2>1, <2>2, <2>3, OuterStep DEF AnchorPc
  <1> QED BY <1>1, <1>2, <1>3, <1>4, <1>5, <1>6 DEF Environment

------------------------------------------------------------------------------
(* The session *)

LEMMA SessionInit ==
  Init => SessionInv
  <1> SUFFICES ASSUME Init
               PROVE  SessionInv
    OBVIOUS
  <1>1. before_start \in Validator
    BY DEF before_start, Validator, LifecycleState
  <1>2. SessionTypeOK
    <2>1. 0 \in 0..MaxSignals /\ 0 \in 0..MaxTrouble
      BY SupervisorAssumption
    <2>2. << >> \in Seq(Command) /\ << >> \in Seq(Event)
      OBVIOUS
    <2>3. cpc \in CoordinatorPc /\ gpc \in GuardianPc /\ apc \in AnchorPc
      BY DEF Init, CoordinatorPc, GuardianPc, AnchorPc
    <2> QED BY <1>1, <2>1, <2>2, <2>3 DEF Init, SessionTypeOK
  <1>3. CoordinatorInStep
    BY DEF Init, CoordinatorInStep, Behind
  <1>4. StaysCooked
    BY DEF Init, StaysCooked, Ahead, NotAnnounced
  <1>5. GuardianInStep
    BY <1>4 DEF Init, GuardianInStep, Stopped, Closing
  <1>6. AnchorInStep
    BY DEF Init, AnchorInStep
  <1> QED BY <1>2, <1>3, <1>5, <1>6 DEF SessionInv

LEMMA SessionNext ==
  SessionInv /\ [Next]_vars => SessionInv'
  <1> SUFFICES ASSUME SessionInv, [Next]_vars
               PROVE  SessionInv'
    OBVIOUS
  <1>1. CASE CStep
    BY <1>1, KeepsReceive, KeepsFail, KeepsCommand, KeepsVerify, KeepsMoves, KeepsControl, KeepsSuspended, KeepsEnd
       DEF CStep
  <1>2. CASE CDeadline
    BY <1>2, KeepsFail
  <1>3. CASE GSteps
    BY <1>3, KeepsStartChild, KeepsBootEmit, KeepsBootReceive, KeepsVerified, KeepsReady, KeepsRecover, KeepsGCommand,
       KeepsPeerLost, KeepsReap, KeepsQuiesced, KeepsFallback, KeepsAwaitRestore, KeepsRestoreDeadline, KeepsCleanup,
       KeepsReport, KeepsPublish, KeepsRetry DEF GSteps
  <1>4. CASE GEnds
    BY <1>4, KeepsComponentFails, KeepsNaturalExit, KeepsUsageExhausted DEF GEnds
  <1>5. CASE GFaults
    BY <1>5, KeepsDeadline, KeepsRestoreDeadline, KeepsReap DEF GFaults
  <1>6. CASE ASteps
    BY <1>6, KeepsAnchorSteps
  <1>7. CASE ATimeout
    BY <1>7, KeepsTimeout
  <1>8. CASE Environment
    BY <1>8, KeepsEnvironment
  <1>9. CASE UNCHANGED vars
    BY <1>9 DEF vars, cvars, gvars, gshut, session, wire, budget, SessionInv, SessionTypeOK, CoordinatorInStep, GuardianInStep,
                AnchorInStep, StaysCooked, NotAnnounced, ChildLive, COpen, CoordinatorGone
  <1> QED BY <1>1, <1>2, <1>3, <1>4, <1>5, <1>6, <1>7, <1>8, <1>9 DEF Next

(* The inductive invariant of a supervised session: the three processes'    *)
(* control points, the terminal, the wire and the completion channel agree  *)
(* after any interleaving of signals, kills, deadlines, failed cleanups and *)
(* failed restores.                                                         *)
THEOREM SessionInvariant == Spec => []SessionInv
  <1>1. Init => SessionInv
    BY SessionInit
  <1>2. SessionInv /\ [Next]_vars => SessionInv'
    BY SessionNext
  <1> QED BY <1>1, <1>2, PTL DEF Spec

------------------------------------------------------------------------------
(* The terminal at the end *)

(* An end that parked left the terminal cooked, or tried to restore it and  *)
(* failed; an anchor that parked on a retained completion never tried.      *)
LastAttempts ==
  /\ unrestored \subseteq {"anchor", "coordinator"}
  /\ cpc = "parked" => tty = "cooked" \/ "coordinator" \in unrestored
  /\ apc = "parked" => completion = "retained" \/ tty = "cooked" \/ "anchor" \in unrestored

LEMMA AttemptsKept ==
  ASSUME LastAttempts, UNCHANGED unrestored, tty' \in {tty, "cooked"}, cpc' = "parked" => cpc = "parked",
         apc' = "parked" => apc = "parked" \/ completion' = "retained",
         completion = "retained" => completion' = "retained"
  PROVE  LastAttempts'
  BY DEF LastAttempts

LEMMA AttemptsOfCoordinator ==
  ASSUME SessionInv, LastAttempts, CStep \/ CDeadline
  PROVE  LastAttempts'
  <1>1. CASE CReceive
    <2>1. cpc \in Receiving /\ (cpc' = AfterEvent(Head(down)) \/ cpc' = "retain")
      BY <1>1 DEF CReceive
    <2>2. cpc' # "parked"
      BY <2>1, AfterEventPc
    <2> QED BY <1>1, <2>2, AttemptsKept DEF CReceive, CQuiet
  <1>2. CASE CPeerLost \/ CStarved \/ CDeadline
    BY <1>2, AttemptsKept DEF CPeerLost, CStarved, CDeadline, CFail, CQuiet
  <1>3. CASE CCommand \/ CVerify \/ CControl \/ CSuspended
    <2>1. cpc' # "parked" /\ UNCHANGED <<apc, completion, unrestored, tty>>
      BY <1>3 DEF CCommand, CCommands, CVerify, CControl, CSuspended, CSend, CQuiet
    <2> QED BY <2>1, AttemptsKept
  <1>4. CASE CStop \/ CPollIdle \/ CRestore \/ CFinish
    <2>1. cpc' # "parked" /\ tty' \in {tty, "cooked"} /\ UNCHANGED <<apc, completion, unrestored>>
      BY <1>4 DEF CStop, CPollIdle, CRestore, CFinish, RestoreFails, CQuiet
    <2> QED BY <2>1, AttemptsKept
  <1>5. CASE CEnterRaw
    <2>1. cpc \in {"ready", "resuming"} /\ cpc' # "parked" /\ UNCHANGED <<apc, completion, unrestored>>
      BY <1>5 DEF CEnterRaw, CQuiet
    <2>2. apc = "parked" => completion = "retained"
      BY <2>1 DEF SessionInv, AnchorInStep, CoordinatorGone
    <2> QED BY <2>1, <2>2 DEF LastAttempts
  <1>6. CASE CRetain
    <2>1. UNCHANGED <<apc, completion>>
      BY <1>6 DEF CRetain
    <2>2. CASE cpc' = "retained" /\ UNCHANGED <<tty, unrestored>>
      BY <2>1, <2>2, AttemptsKept
    <2>3. CASE LastRestore("coordinator")
      BY <2>1, <2>3 DEF LastRestore, LastAttempts
    <2> QED BY <1>6, <2>2, <2>3 DEF CRetain
  <1> QED BY <1>1, <1>2, <1>3, <1>4, <1>5, <1>6 DEF CStep

LEMMA AttemptsOfGuardian ==
  ASSUME SessionInv, LastAttempts, GSteps \/ GEnds \/ GFaults
  PROVE  LastAttempts'
  <1>1. GQuiet \/ (GFallbackRestore /\ UNCHANGED <<cvars, apc, unrestored>> /\ tty' \in {tty, "cooked"})
    BY DEF GSteps, GStartChild, GBootEmit, GBootReceive, GVerified, GReady, GRecover, GCommand, GPeerLost, GReapTui,
           GStopApp, GQuiesced, GInvalid, GFallbackRestore, RestoreFails, GAwaitRestore, GRestoreStarved, GCleanup,
           GReport, GPublish, GRetry, GEnds, GComponentFails, GNaturalExit, GUsageExhausted, GFaults, GDeadline,
           GRestoreDeadline, RestoreDeadline, GQuiesceFails
  <1>2. gpc \notin {"parked", "exited", "killed"}
    BY DEF GSteps, GStartChild, GBootEmit, GBootReceive, GVerified, GReady, GRecover, GCommand, GPeerLost, GReapTui,
           GStopApp, GQuiesced, GInvalid, GFallbackRestore, GAwaitRestore, GRestoreStarved, GCleanup,
           GReport, GPublish, GRetry, GEnds, GComponentFails, GNaturalExit, GUsageExhausted, GFaults, GDeadline,
           GRestoreDeadline, RestoreDeadline, GQuiesceFails, Loop, ChildRole
  <1>3. completion # "retained"
    BY <1>2 DEF SessionInv, AnchorInStep
  <1>4. UNCHANGED <<cpc, apc, unrestored>> /\ tty' \in {tty, "cooked"}
    BY <1>1 DEF GQuiet, cvars
  <1> QED BY <1>3, <1>4, AttemptsKept

LEMMA AttemptsOfAnchor ==
  ASSUME SessionInv, LastAttempts, ASteps \/ ATimeout \/ Environment
  PROVE  LastAttempts'
  <1>1. CASE ARelayStop \/ ANotStopped \/ APark \/ AEmergency \/ AForce \/ ATimeout
    <2>1. /\ cpc' = cpc \/ cpc' = "killed"
          /\ UNCHANGED <<completion, unrestored>> /\ tty' \in {tty, "cooked"}
          /\ apc' = "parked" => completion' = "retained"
      BY <1>1 DEF ARelayStop, ANotStopped, APark, AEmergency, AForce, ATimeout, Emergency, AQuiet
    <2> QED BY <2>1, AttemptsKept
  <1>2. CASE AFinish \/ AContained
    <2>1. CoordinatorGone /\ UNCHANGED <<cvars, completion>>
      BY <1>2 DEF AFinish, AContained, ARestore
    <2>2. cpc' # "parked"
      BY <2>1 DEF CoordinatorGone, cvars
    <2>3. (tty' = "cooked" /\ UNCHANGED unrestored) \/ unrestored' = unrestored \cup {"anchor"}
      BY <1>2 DEF AFinish, AContained, ARestore, LastRestore
    <2> QED BY <2>2, <2>3 DEF LastAttempts
  <1>3. CASE USignal \/ ASuspend \/ AContinue \/ KillCoordinator \/ KillAnchor
    <2>1. /\ cpc' = cpc \/ cpc' \in {"killed", "suspended"}
          /\ UNCHANGED <<completion, unrestored, tty>>
          /\ apc' = apc \/ apc' \in {"suspending", "watch", "emergency", "killed"}
      BY <1>3 DEF USignal, ASuspend, AContinue, Emergency, KillCoordinator, KillAnchor, AQuiet
    <2> QED BY <2>1, AttemptsKept
  <1>4. CASE KillGuardian
    BY <1>4, AttemptsKept DEF KillGuardian, Unpublished, cvars
  <1> QED BY <1>1, <1>2, <1>3, <1>4 DEF ASteps, Environment

(* Whoever parks has tried to restore the terminal: it is cooked, or the    *)
(* attempt is on record as failed (prepare_terminal_for_retention and       *)
(* restore_anchor_terminal).                                                *)
THEOREM AttemptsRecorded == Spec => []LastAttempts
  <1>1. Init => LastAttempts
    BY DEF Init, LastAttempts
  <1>2. SessionInv /\ LastAttempts /\ [Next]_vars => LastAttempts'
    <2> SUFFICES ASSUME SessionInv, LastAttempts, [Next]_vars
                 PROVE  LastAttempts'
      OBVIOUS
    <2>1. CASE UNCHANGED vars
      BY <2>1 DEF vars, cvars, LastAttempts
    <2> QED BY <2>1, AttemptsOfCoordinator, AttemptsOfGuardian, AttemptsOfAnchor DEF Next
  <1> QED BY <1>1, <1>2, SessionInvariant, PTL DEF Spec

(* Every variable keeps its type: both transcripts stay validators of       *)
(* protocol.rs, and every frame on the wire is one of its commands or       *)
(* events.                                                                  *)
THEOREM SupervisorTypeCorrect == Spec => []TypeOK
  <1>1. SessionInv /\ LastAttempts => TypeOK
    BY DEF SessionInv, LastAttempts, TypeOK
  <1> QED BY <1>1, SessionInvariant, AttemptsRecorded, PTL

(* Whoever exits has released what it held: a coordinator that exits and an *)
(* anchor that returns the shell leave no child, a cooked terminal and an   *)
(* exited guardian, with its status, and a guardian that exits leaves no    *)
(* child (run_session, finish_shutdown and the anchor's release).           *)
THEOREM ReleaseOnExit == Spec => []ExitMeansReleased
  <1>1. SessionInv => ExitMeansReleased
    BY DEF SessionInv, CoordinatorInStep, GuardianInStep, AnchorInStep, ExitMeansReleased, Behind, Stopped, Closing
  <1> QED BY <1>1, SessionInvariant, PTL

(* A session at rest leaves the terminal cooked, whichever processes were   *)
(* killed, unless each end that could have restored it was killed, failed   *)
(* to or retained its shutdown (finish_shutdown, the retention of the       *)
(* coordinator, the guardian's fallback restore and the anchor's restore).  *)
THEOREM TerminalComesBack == Spec => []TerminalRestored
  <1>1. SessionInv /\ LastAttempts => TerminalRestored
    <2> SUFFICES ASSUME SessionInv, LastAttempts, AtRest, tty = "raw"
                 PROVE  /\ cpc = "killed" \/ "coordinator" \in unrestored
                        /\ \/ gpc \in {"retained", "parked"} \/ completion = "retained"
                           \/ gpc = "killed" /\ (apc = "killed" \/ "anchor" \in unrestored)
      BY DEF TerminalRestored
    <2>1. cpc = "killed" \/ "coordinator" \in unrestored
      BY DEF AtRest, SessionInv, CoordinatorInStep, Behind, LastAttempts
    <2>2. gpc # "exited"
      BY DEF SessionInv, GuardianInStep, Closing, StaysCooked
    <2>3. CASE gpc = "killed" /\ completion # "retained"
      <3>1. completion = "closed"
        BY <2>3 DEF SessionInv, AnchorInStep
      <3>2. apc \in {"parked", "done", "killed"}
        BY <3>1 DEF AtRest
      <3>3. apc = "killed" \/ "anchor" \in unrestored
        BY <2>3, <3>2 DEF SessionInv, AnchorInStep, LastAttempts
      <3> QED BY <2>1, <2>3, <3>3
    <2> QED BY <2>1, <2>2, <2>3 DEF AtRest
  <1> QED BY <1>1, SessionInvariant, AttemptsRecorded, PTL

------------------------------------------------------------------------------
(* The gate: the coordinator's drive and its transcript *)

(* The coordinator that has given up, or is gone. *)
Dead == {"retain", "retained", "parked", "killed"}

(* The state of the transcript at each control point of the drive. *)
CoordinatorAt ==
  {<<"lease", "AwaitLeaseBeforeStart">>, <<"start", "AwaitStart">>, <<"boot", "AwaitTerminalArmed">>,
   <<"arm", "AwaitTerminalArmAcceptance">>, <<"boot", "AwaitApp">>, <<"verify", "AwaitAppDescriptorVerification">>,
   <<"boot", "AwaitTui">>, <<"verify", "AwaitTuiDescriptorVerification">>, <<"boot", "AwaitReady">>,
   <<"ready", "ReadyForGate">>, <<"gate", "ReadyForGate">>, <<"gateack", "AwaitGateOpened">>,
   <<"active", "Active">>, <<"suspend", "Active">>, <<"signal", "AwaitSignalForwarded">>,
   <<"resize", "AwaitResizeApplied">>, <<"suspending", "AwaitSuspended">>, <<"resume", "AwaitResumed">>,
   <<"stopping", "Suspended">>, <<"stopped", "Suspended">>, <<"suspended", "Suspended">>, <<"poll", "Suspended">>,
   <<"resuming", "Suspended">>, <<"resumed", "Suspended">>,
   <<"quiesce", "AwaitQuiesced">>, <<"quiesce", "FailedAwaitQuiesced">>, <<"restore", "Quiesced">>,
   <<"restored", "Quiesced">>, <<"disarm", "AwaitRecoveryDisarmed">>, <<"report", "RecoveryDisarmed">>,
   <<"wait", "Terminal">>, <<"done", "Terminal">>}

DriveInStep == cv.allowance = "inactive" /\ (cpc \in Dead \/ <<cpc, cv.state>> \in CoordinatorAt)

LEMMA MovedState ==
  ASSUME NEW v \in Validator, NEW q, NEW w, w = [v EXCEPT !.state = q]
  PROVE  w.state = q /\ w.allowance = v.allowance /\ w.was_suspended = v.was_suspended
  BY DEF Validator

LEMMA FailureState ==
  ASSUME NEW v \in Validator, NEW f, NEW w \in accept_failure(v, f), v.allowance = "inactive"
  PROVE  /\ w.allowance = "inactive"
         /\ v.state \notin {"AwaitLeaseBeforeStart", "AwaitStart", "Terminal", "FailedAwaitQuiesced"}
         /\ w.state = IF v.state \in {"Quiesced", "AwaitRecoveryDisarmed", "RecoveryDisarmed"} THEN v.state
                      ELSE "FailedAwaitQuiesced"
  <1>1. /\ w = [v EXCEPT !.superseded_gate = (v.state = "ReadyForGate" /\ ~(v.allowance = "awaiting" /\ f = "recovery")),
                         !.allowance = IF v.allowance = "awaiting" /\ f = "recovery" THEN "armed" ELSE @,
                         !.failure = f,
                         !.state = IF v.state \in {"Quiesced", "AwaitRecoveryDisarmed", "RecoveryDisarmed"} THEN @
                                   ELSE "FailedAwaitQuiesced",
                         !.sig = "none", !.was_suspended = FALSE]
        /\ v.state \notin {"AwaitLeaseBeforeStart", "AwaitStart", "Terminal", "FailedAwaitQuiesced"}
    BY DEF accept_failure
  <1>2. PICK q, a, b : /\ q = IF v.state \in {"Quiesced", "AwaitRecoveryDisarmed", "RecoveryDisarmed"} THEN v.state
                              ELSE "FailedAwaitQuiesced"
                       /\ a = IF v.allowance = "awaiting" /\ f = "recovery" THEN "armed" ELSE v.allowance
                       /\ b = (v.state = "ReadyForGate" /\ ~(v.allowance = "awaiting" /\ f = "recovery"))
    OBVIOUS
  <1>3. a = "inactive"
    BY <1>2
  <1>4. w = [v EXCEPT !.superseded_gate = b, !.allowance = a, !.failure = f, !.state = q,
                      !.sig = "none", !.was_suspended = FALSE]
    BY <1>1, <1>2
  <1>5. PICK u : u = [v EXCEPT !.superseded_gate = b, !.allowance = a, !.failure = f]
    OBVIOUS
  <1>6. u.allowance = a /\ w = [u EXCEPT !.state = q, !.sig = "none", !.was_suspended = FALSE]
    BY <1>4, <1>5 DEF Validator
  <1>7. w.state = q /\ w.allowance = a
    BY <1>5, <1>6 DEF Validator
  <1> QED BY <1>1, <1>2, <1>3, <1>7

(* The transcript after the drive has read an event. *)
LEMMA EventState ==
  ASSUME cv \in Validator, cv.allowance = "inactive", cpc \in Receiving, <<cpc, cv.state>> \in CoordinatorAt,
         NEW e \in Event, NEW w \in AcceptEvent(cv, e)
  PROVE  /\ w.allowance = "inactive"
         /\ AfterEvent(e) = "retain" \/ <<AfterEvent(e), w.state>> \in CoordinatorAt
  <1>0. \/ AfterEvent(e) = "retain"
        \/ \E m \in Reads : m[1] = cpc /\ m[2] = e.kind /\ m[3] = AfterEvent(e)
        \/ cpc = "signal" /\ e.kind = "SignalForwarded"
    <2> SUFFICES ASSUME ~(cpc = "signal" /\ e.kind = "SignalForwarded"), AfterEvent(e) # "retain"
                 PROVE  \E m \in Reads : m[1] = cpc /\ m[2] = e.kind /\ m[3] = AfterEvent(e)
      OBVIOUS
    <2>1. PICK r : r = {m[3] : m \in {m \in Reads : m[1] = cpc /\ m[2] = e.kind}}
      OBVIOUS
    <2>2. AfterEvent(e) = IF r = {} THEN "retain" ELSE CHOOSE pc \in r : TRUE
      BY <2>1 DEF AfterEvent
    <2>3. AfterEvent(e) \in r
      BY <2>2
    <2> QED BY <2>1, <2>3
  <1>1. CASE e.kind = "Failed"
    <2>1. w \in accept_failure(cv, e.arg)
      BY <1>1 DEF AcceptEvent
    <2>2. /\ w.allowance = "inactive"
          /\ cv.state \notin {"AwaitLeaseBeforeStart", "AwaitStart", "Terminal", "FailedAwaitQuiesced"}
          /\ w.state = IF cv.state \in {"Quiesced", "AwaitRecoveryDisarmed", "RecoveryDisarmed"} THEN cv.state
                       ELSE "FailedAwaitQuiesced"
      BY <2>1, FailureState
    <2>3. AfterEvent(e) = "retain" \/ (cpc = "report" /\ AfterEvent(e) = "report")
            \/ (cpc \in {"boot", "verify", "gateack", "active", "signal", "resize", "suspending", "poll", "resume",
                         "quiesce"} /\ AfterEvent(e) = "quiesce")
      BY <1>0, <1>1 DEF Reads
    <2> QED BY <2>2, <2>3 DEF CoordinatorAt
  <1>2. CASE e.kind = "ChildStarted" /\ cv.state = (IF e.arg = "app" THEN "AwaitApp" ELSE "AwaitTui")
    <2>1. PICK q, r : /\ q = IF e.arg = "app" THEN "AwaitAppDescriptorVerification"
                             ELSE "AwaitTuiDescriptorVerification"
                      /\ r = cv.started \cup {e.arg}
      OBVIOUS
    <2>2. w = [cv EXCEPT !.started = r, !.state = q]
      BY <1>2, <2>1 DEF AcceptEvent
    <2>3. w.state = q /\ w.allowance = "inactive"
      BY <2>2 DEF Validator
    <2>4. AfterEvent(e) \in {"retain", "verify"}
      BY <1>0, <1>2 DEF Reads
    <2> QED BY <2>1, <2>3, <2>4 DEF CoordinatorAt
  <1>3. CASE e.kind = "InputGateOpened" /\ cv.state = "AwaitGateOpened"
    <2>1. w = [cv EXCEPT !.state = "Active", !.gate_ever_opened = TRUE]
      BY <1>3 DEF AcceptEvent
    <2>2. w.state = "Active" /\ w.allowance = "inactive"
      BY <2>1 DEF Validator
    <2>3. AfterEvent(e) \in {"retain", "active"}
      BY <1>0, <1>3 DEF Reads
    <2> QED BY <2>2, <2>3 DEF CoordinatorAt
  <1>4. CASE e.kind = "SignalForwarded" /\ cv.state = "AwaitSignalForwarded" /\ cv.sig = e.arg
    <2>1. PICK q, x : /\ q = IF e.arg \notin Interactive THEN "AwaitQuiesced"
                             ELSE IF cv.was_suspended THEN "Suspended" ELSE "Active"
                      /\ x = forwarded_cause(cv, e.arg)
      OBVIOUS
    <2>2. w = [cv EXCEPT !.sig = "none", !.was_suspended = FALSE, !.cause = x, !.state = q]
      BY <1>4, <2>1 DEF AcceptEvent
    <2>3. w.state = q /\ w.allowance = "inactive"
      BY <2>2 DEF Validator
    <2>4. cpc = "signal"
      BY <1>4 DEF CoordinatorAt
    <2>5. AfterEvent(e) = IF e.arg \notin Interactive THEN "quiesce"
                          ELSE IF cv.was_suspended THEN "poll" ELSE "active"
      BY <1>4, <2>4 DEF AfterEvent
    <2> QED BY <2>1, <2>3, <2>5 DEF CoordinatorAt
  <1>5. CASE e.kind = "TerminalQuiesced" /\ NaturalExitStates(cv)
    <2>1. PICK x : x = IF cv.cause = "none" THEN "natural" ELSE cv.cause
      OBVIOUS
    <2>2. w = [cv EXCEPT !.state = "Quiesced", !.sig = "none", !.cause = x]
      BY <1>5, <2>1 DEF AcceptEvent
    <2>3. w.state = "Quiesced" /\ w.allowance = "inactive"
      BY <2>2 DEF Validator
    <2>4. AfterEvent(e) \in {"retain", "restore"}
      BY <1>0, <1>5 DEF Reads
    <2> QED BY <2>3, <2>4 DEF CoordinatorAt
  <1>6. CASE e.kind = "UsageExhausted" /\ cv.state = "Active"
    <2>1. w = [cv EXCEPT !.state = "AwaitQuiesced", !.cause = "usage"]
      BY <1>6 DEF AcceptEvent
    <2>2. w.allowance = "inactive"
      BY <2>1 DEF Validator
    <2>3. AfterEvent(e) = "retain"
      BY <1>0, <1>6 DEF Reads
    <2> QED BY <2>2, <2>3
  <1>7. CASE e.kind = "ChildrenReaped" /\ cv.state = "RecoveryDisarmed"
    <2>1. w = [cv EXCEPT !.state = "Terminal", !.exit = e.arg]
      BY <1>7 DEF AcceptEvent
    <2>2. w.state = "Terminal" /\ w.allowance = "inactive"
      BY <2>1 DEF Validator
    <2>3. AfterEvent(e) \in {"retain", "wait"}
      BY <1>0, <1>7 DEF Reads
    <2> QED BY <2>2, <2>3 DEF CoordinatorAt
  <1>8. CASE /\ e.kind # "Failed"
             /\ ~(e.kind = "ChildStarted" /\ cv.state = (IF e.arg = "app" THEN "AwaitApp" ELSE "AwaitTui"))
             /\ ~(e.kind = "InputGateOpened" /\ cv.state = "AwaitGateOpened")
             /\ ~(e.kind = "SignalForwarded" /\ cv.state = "AwaitSignalForwarded" /\ cv.sig = e.arg)
             /\ ~(e.kind = "TerminalQuiesced" /\ NaturalExitStates(cv))
             /\ ~(e.kind = "UsageExhausted" /\ cv.state = "Active")
             /\ ~(e.kind = "ChildrenReaped" /\ cv.state = "RecoveryDisarmed")
    <2>1. PICK m \in EventMoves : w = [cv EXCEPT !.state = m[3]] /\ m[1] = cv.state /\ m[2] = e.kind
      BY <1>8 DEF AcceptEvent
    <2>2. w.state = m[3] /\ w.allowance = "inactive"
      BY <2>1, MovedState
    <2>3. e.kind # "SignalForwarded"
      BY <2>1 DEF EventMoves
    <2>4. CASE AfterEvent(e) # "retain"
      <3>1. PICK n \in Reads : n[1] = cpc /\ n[2] = e.kind /\ n[3] = AfterEvent(e)
        BY <1>0, <2>3, <2>4
      <3>2. <<n[3], m[3]>> \in CoordinatorAt
        <4>1. CASE m[2] = "TerminalQuiesced"
          BY <2>1, <3>1, <4>1 DEF EventMoves, Reads, CoordinatorAt
        <4>2. CASE m[2] \in {"LeaseCommitted", "TerminalArmed", "Ready"}
          BY <2>1, <3>1, <4>2 DEF EventMoves, Reads, CoordinatorAt
        <4>3. CASE m[2] \in {"ResizeApplied", "Suspended", "Resumed", "TerminalRecoveryDisarmed"}
          BY <2>1, <3>1, <4>3 DEF EventMoves, Reads, CoordinatorAt
        <4> QED BY <4>1, <4>2, <4>3 DEF EventMoves
      <3> QED BY <2>2, <3>1, <3>2
    <2> QED BY <2>2, <2>4
  <1> QED BY <1>1, <1>2, <1>3, <1>4, <1>5, <1>6, <1>7, <1>8

(* The transcript after the drive has sent a command. *)
LEMMA CommandState ==
  ASSUME NEW v \in Validator, v.allowance = "inactive", NEW c \in Command, NEW w \in AcceptCommand(v, c)
  PROVE  /\ w.allowance = "inactive"
         /\ c.kind = "Signal" /\ v.state \in {"Active", "Suspended"} =>
              w.state = "AwaitSignalForwarded" /\ (w.was_suspended <=> v.state = "Suspended")
         /\ c.kind = "TerminalRestored" => w.state = "AwaitRecoveryDisarmed"
         /\ c.kind \notin {"Signal", "Stop", "TerminalRestored"} /\ v.state # "Quiesced" =>
              \E m \in CommandMoves : m[1] = v.state /\ m[2] = c.kind /\ w.state = m[4]
  <1>0. w \in OrdinaryCommand(v, c)
    BY DEF AcceptCommand
  <1>1. CASE c.kind = "Signal" /\ v.state \in {"Active", "Suspended"}
    <2>1. PICK b \in BOOLEAN : b <=> (v.state = "Suspended")
      OBVIOUS
    <2>2. w = [v EXCEPT !.state = "AwaitSignalForwarded", !.sig = c.arg, !.was_suspended = (v.state = "Suspended")]
      BY <1>0, <1>1 DEF OrdinaryCommand
    <2>3. w = [v EXCEPT !.state = "AwaitSignalForwarded", !.sig = c.arg, !.was_suspended = b]
      BY <2>1, <2>2, Zenon
    <2>4. w.state = "AwaitSignalForwarded" /\ w.was_suspended = b /\ w.allowance = "inactive"
      BY <2>3 DEF Validator
    <2> QED BY <1>1, <2>1, <2>4
  <1>2. CASE c.kind = "Stop" /\ v.state \in Window
    <2>1. w = [v EXCEPT !.state = "AwaitQuiesced", !.cause = "stop"]
      BY <1>0, <1>2 DEF OrdinaryCommand
    <2> QED BY <1>2, <2>1 DEF Validator
  <1>3. CASE c.kind = "OpenInputGate" /\ v.state = "Quiesced"
    <2>1. w = [v EXCEPT !.superseded_gate = FALSE]
      BY <1>0, <1>3 DEF OrdinaryCommand
    <2> QED BY <1>3, <2>1 DEF Validator
  <1>4. CASE c.kind = "TerminalRestored" /\ v.state = "Quiesced"
    <2>1. w = [v EXCEPT !.state = "AwaitRecoveryDisarmed", !.superseded_gate = FALSE]
      BY <1>0, <1>4 DEF OrdinaryCommand
    <2> QED BY <1>4, <2>1 DEF Validator
  <1>5. CASE /\ ~(c.kind = "Signal" /\ v.state \in {"Active", "Suspended"})
             /\ ~(c.kind = "Stop" /\ v.state \in Window)
             /\ ~(c.kind = "OpenInputGate" /\ v.state = "Quiesced")
             /\ ~(c.kind = "TerminalRestored" /\ v.state = "Quiesced")
    <2>1. PICK m \in CommandMoves : w = [v EXCEPT !.state = m[4]] /\ m[1] = v.state /\ m[2] = c.kind
      BY <1>0, <1>5 DEF OrdinaryCommand
    <2>2. w.state = m[4] /\ w.allowance = "inactive"
      BY <2>1, MovedState
    <2>3. c.kind # "TerminalRestored"
      BY <2>1 DEF CommandMoves
    <2> QED BY <1>5, <2>1, <2>2, <2>3
  <1> QED BY <1>1, <1>2, <1>3, <1>4, <1>5

------------------------------------------------------------------------------
(* The gate: both ends before the shutdown *)

(* Until the guardian shuts down, the two ends take turns: nothing is on    *)
(* the wire, or one command, or the one event that answers it, and where    *)
(* each end stands goes with it.                                            *)
Early == Bootstrap \cup Running

Idle == up = << >> /\ down = << >>
Asked(k) == down = << >> /\ Len(up) = 1 /\ up[1].kind = k
Told(k) == /\ up = << >> /\ Len(down) = 1 /\ down[1].kind = k
           /\ k = "SignalForwarded" => down[1].arg \in Interactive

IdlePairs ==
  {<<"lease", "lease">>, <<"start", "start">>, <<"arm", "boot">>, <<"armed", "arm">>, <<"app", "boot">>,
   <<"vapp", "verify">>, <<"tui", "boot">>, <<"vtui", "verify">>, <<"ready", "boot">>,
   <<"gate", "ready">>, <<"gate", "gate">>, <<"active", "active">>, <<"active", "suspend">>,
   <<"suspended", "stopping">>, <<"suspended", "stopped">>, <<"suspended", "suspended">>,
   <<"suspended", "poll">>, <<"suspended", "resuming">>, <<"suspended", "resumed">>}

AskedPairs ==
  {<<"start", "boot", "Start">>, <<"armed", "boot", "TerminalArmAccepted">>,
   <<"vapp", "boot", "ChildDescriptorsVerified">>, <<"vtui", "boot", "ChildDescriptorsVerified">>,
   <<"gate", "gateack", "OpenInputGate">>, <<"active", "signal", "Signal">>, <<"active", "resize", "Resize">>,
   <<"active", "suspending", "Suspend">>, <<"suspended", "signal", "Signal">>, <<"suspended", "resume", "Resume">>}

ToldPairs ==
  {<<"start", "lease", "LeaseCommitted">>, <<"armed", "boot", "TerminalArmed">>,
   <<"vapp", "boot", "ChildStarted">>, <<"vtui", "boot", "ChildStarted">>, <<"gate", "boot", "Ready">>,
   <<"active", "gateack", "InputGateOpened">>, <<"active", "signal", "SignalForwarded">>,
   <<"active", "resize", "ResizeApplied">>, <<"suspended", "suspending", "Suspended">>,
   <<"suspended", "signal", "SignalForwarded">>, <<"gate", "resume", "Resumed">>}

InTurn ==
  \/ Idle /\ <<gpc, cpc>> \in IdlePairs
  \/ \E m \in AskedPairs : m[1] = gpc /\ m[2] = cpc /\ Asked(m[3])
  \/ \E m \in ToldPairs : m[1] = gpc /\ m[2] = cpc /\ Told(m[3])

Paired == gpc \in Early /\ cpc \notin Dead => InTurn

(* A signal goes back to the loop it came from. *)
SignalSide == cpc = "signal" /\ gpc \in {"active", "suspended"} => (cv.was_suspended <=> gpc = "suspended")

GateInv == DriveInStep /\ Paired /\ SignalSide

LEMMA GateDead ==
  ASSUME cpc' \in Dead, cv'.allowance = "inactive"
  PROVE  GateInv'
  BY DEF GateInv, DriveInStep, Paired, SignalSide, Dead

LEMMA GateLeft ==
  ASSUME GateInv, gpc' \notin Early, UNCHANGED <<cpc, cv>>
  PROVE  GateInv'
  BY DEF GateInv, DriveInStep, Paired, SignalSide, Early, Running

LEMMA GateSame ==
  ASSUME GateInv, UNCHANGED <<cpc, cv, gpc, wire>>
  PROVE  GateInv'
  BY DEF GateInv, DriveInStep, Paired, SignalSide, InTurn, Idle, Asked, Told, wire

(* A move of the drive that sends and reads nothing. *)
LEMMA GateMove ==
  ASSUME GateInv, UNCHANGED <<cv, gpc, wire>>, cpc \notin Dead, <<cpc', cv.state>> \in CoordinatorAt,
         cpc' # "signal", gpc \in Early => Idle /\ <<gpc, cpc'>> \in IdlePairs
  PROVE  GateInv'
  BY DEF GateInv, DriveInStep, Paired, SignalSide, InTurn, Idle, wire

LEMMA GateSend ==
  ASSUME SessionTypeOK, GateInv, NEW c \in Command, NEW next, CSend(c, next), UNCHANGED gpc,
         \A w \in AcceptCommand(cv, c) :
           /\ <<next, w.state>> \in CoordinatorAt /\ w.allowance = "inactive"
           /\ next = "signal" /\ gpc \in {"active", "suspended"} => (w.was_suspended <=> gpc = "suspended"),
         gpc \in Early => Idle /\ <<gpc, next, c.kind>> \in AskedPairs
  PROVE  GateInv'
  <1>1. CASE AcceptCommand(cv, c) # {} /\ GOpen
    <2>1. cv' \in AcceptCommand(cv, c) /\ up' = Append(up, c) /\ cpc' = next /\ UNCHANGED down
      BY <1>1 DEF CSend
    <2>2. DriveInStep'
      BY <2>1 DEF DriveInStep
    <2>3. SignalSide'
      BY <2>1 DEF SignalSide
    <2>4. Paired'
      <3> SUFFICES ASSUME gpc \in Early
                   PROVE  InTurn'
        BY DEF Paired
      <3>1. up' = <<c>> /\ down' = << >> /\ <<gpc, next, c.kind>> \in AskedPairs
        BY <2>1 DEF Idle
      <3>2. Asked(c.kind)'
        BY <3>1 DEF Asked
      <3>3. \E m \in AskedPairs : m[1] = gpc' /\ m[2] = cpc' /\ Asked(m[3])'
        <4>1. PICK m \in AskedPairs : m = <<gpc, next, c.kind>>
          BY <3>1
        <4> QED BY <2>1, <3>2, <4>1
      <3> QED BY <3>3 DEF InTurn
    <2> QED BY <2>2, <2>3, <2>4 DEF GateInv
  <1>2. CASE ~(AcceptCommand(cv, c) # {} /\ GOpen)
    <2>1. cpc' = "retain" /\ UNCHANGED cv
      BY <1>2 DEF CSend
    <2>2. cv'.allowance = "inactive"
      BY <2>1 DEF GateInv, DriveInStep
    <2> QED BY <2>1, <2>2, GateDead DEF Dead
  <1> QED BY <1>1, <1>2

(* Where the drive stands when it is its turn. *)
LEMMA DriveTurn ==
  ASSUME GateInv, gpc \in Early, cpc \notin Dead
  PROVE  /\ cpc \in {"start", "arm", "verify", "ready", "gate", "active", "suspend", "stopping", "stopped",
                     "suspended", "poll", "resuming", "resumed"} => Idle /\ <<gpc, cpc>> \in IdlePairs
         /\ cpc \notin {"quiesce", "restore", "restored", "disarm", "report", "wait", "done"}
         /\ down # << >> => \E m \in ToldPairs : m[1] = gpc /\ m[2] = cpc /\ Told(m[3])
         /\ up # << >> => \E m \in AskedPairs : m[1] = gpc /\ m[2] = cpc /\ Asked(m[3])
  <1>1. InTurn
    BY DEF GateInv, Paired
  <1>2. CASE Idle /\ <<gpc, cpc>> \in IdlePairs
    BY <1>2 DEF Idle, IdlePairs
  <1>3. CASE \E m \in AskedPairs : m[1] = gpc /\ m[2] = cpc /\ Asked(m[3])
    BY <1>3 DEF AskedPairs, Asked
  <1>4. CASE \E m \in ToldPairs : m[1] = gpc /\ m[2] = cpc /\ Told(m[3])
    BY <1>4 DEF ToldPairs, Told
  <1> QED BY <1>1, <1>2, <1>3, <1>4 DEF InTurn

LEMMA GateReceive ==
  ASSUME SessionInv, GateInv, CReceive
  PROVE  GateInv'
  <1>1. SessionTypeOK /\ cv \in Validator /\ down \in Seq(Event) /\ up \in Seq(Command)
    BY TypedParts DEF SessionInv
  <1>2. cpc \in Receiving /\ down # << >> /\ down' = Tail(down) /\ UNCHANGED <<gpc, up>>
    BY DEF CReceive, CQuiet, gvars
  <1>3. PICK e \in Event : e = Head(down) /\ e = down[1]
    BY <1>1, <1>2, TailOf
  <1>4. cpc \notin Dead /\ cv.allowance = "inactive" /\ <<cpc, cv.state>> \in CoordinatorAt
    BY <1>2 DEF GateInv, DriveInStep, Receiving, Dead
  <1>5. CASE AcceptEvent(cv, e) = {}
    <2>1. cpc' = "retain" /\ UNCHANGED cv
      BY <1>3, <1>5 DEF CReceive
    <2>2. cv'.allowance = "inactive"
      BY <1>4, <2>1
    <2> QED BY <2>1, <2>2, GateDead DEF Dead
  <1>6. CASE AcceptEvent(cv, e) # {}
    <2>1. cv' \in AcceptEvent(cv, e) /\ cpc' = AfterEvent(e)
      BY <1>3, <1>6 DEF CReceive
    <2>2. cv'.allowance = "inactive" /\ (cpc' = "retain" \/ <<cpc', cv'.state>> \in CoordinatorAt)
      BY <1>1, <1>2, <1>4, <2>1, EventState
    <2>3. CASE cpc' = "retain"
      BY <2>2, <2>3, GateDead DEF Dead
    <2>4. CASE cpc' # "retain"
      <3>1. DriveInStep'
        BY <2>2, <2>4 DEF DriveInStep
      <3>2. \/ \E n \in Reads : n[1] = cpc /\ n[2] = e.kind /\ n[3] = cpc'
            \/ /\ cpc = "signal" /\ e.kind = "SignalForwarded"
               /\ cpc' = IF e.arg \notin Interactive THEN "quiesce" ELSE IF cv.was_suspended THEN "poll" ELSE "active"
        <4>1. CASE cpc = "signal" /\ e.kind = "SignalForwarded"
          BY <2>1, <4>1 DEF AfterEvent
        <4>2. CASE ~(cpc = "signal" /\ e.kind = "SignalForwarded")
          <5>1. PICK r : r = {m[3] : m \in {m \in Reads : m[1] = cpc /\ m[2] = e.kind}}
            OBVIOUS
          <5>2. cpc' = IF r = {} THEN "retain" ELSE CHOOSE pc \in r : TRUE
            BY <2>1, <4>2, <5>1 DEF AfterEvent
          <5>3. cpc' \in r
            BY <2>4, <5>2
          <5> QED BY <5>1, <5>3
        <4> QED BY <4>1, <4>2
      <3>3. SignalSide'
        BY <3>2 DEF SignalSide, Reads
      <3>4. ASSUME gpc \in Early
            PROVE  InTurn'
        <4>1. PICK m \in ToldPairs : m[1] = gpc /\ m[2] = cpc /\ Told(m[3])
          BY <1>2, <1>4, <3>4, DriveTurn
        <4>2. up' = << >> /\ down' = << >> /\ m[3] = e.kind /\ (e.kind = "SignalForwarded" => e.arg \in Interactive)
          BY <1>1, <1>2, <1>3, <4>1 DEF Told
        <4>3. <<gpc, cpc'>> \in IdlePairs
          <5>1. CASE e.kind = "SignalForwarded"
            <6>1. cpc = "signal" /\ gpc \in {"active", "suspended"}
              BY <4>1, <4>2, <5>1 DEF ToldPairs
            <6>2. cpc' = IF gpc = "suspended" THEN "poll" ELSE "active"
              BY <3>2, <4>2, <5>1, <6>1 DEF GateInv, SignalSide, Reads
            <6> QED BY <6>1, <6>2 DEF IdlePairs
          <5>2. CASE e.kind # "SignalForwarded"
            <6>1. PICK n \in Reads : n[1] = cpc /\ n[2] = e.kind /\ n[3] = cpc'
              BY <3>2, <5>2
            <6>2. CASE cpc = "boot"
              BY <4>1, <4>2, <6>1, <6>2 DEF ToldPairs, Reads, IdlePairs
            <6>3. CASE cpc # "boot"
              BY <4>1, <4>2, <5>2, <6>1, <6>3 DEF ToldPairs, Reads, IdlePairs
            <6> QED BY <6>2, <6>3
          <5> QED BY <5>1, <5>2
        <4> QED BY <1>2, <4>2, <4>3 DEF InTurn, Idle
      <3>5. Paired'
        BY <1>2, <3>4 DEF Paired
      <3> QED BY <3>1, <3>3, <3>5 DEF GateInv
    <2> QED BY <2>3, <2>4
  <1> QED BY <1>5, <1>6

LEMMA GateGivesUp ==
  ASSUME GateInv, cpc' \in Dead, UNCHANGED cv
  PROVE  GateInv'
  <1>1. cv'.allowance = "inactive"
    BY DEF GateInv, DriveInStep
  <1> QED BY <1>1, GateDead

LEMMA GateFail ==
  ASSUME GateInv, CPeerLost \/ CStarved \/ CDeadline \/ CRetain
  PROVE  GateInv'
  <1>1. cpc' \in Dead /\ UNCHANGED cv
    BY DEF CPeerLost, CStarved, CDeadline, CRetain, CFail, Dead
  <1> QED BY <1>1, GateGivesUp

(* The end of the drive: the guardian has shut down. *)
LEMMA GateEnd ==
  ASSUME GateInv, CRestore \/ CFinish
  PROVE  GateInv'
  <1>1. UNCHANGED <<cv, gpc, wire>> /\ cpc \in {"restore", "wait"} /\ cpc' \in {"restored", "done", "retain"}
    BY DEF CRestore, CFinish, CQuiet, gvars
  <1>2. cpc \notin Dead
    BY <1>1 DEF Dead
  <1>3. gpc \notin Early
    BY <1>1, <1>2, DriveTurn
  <1>4. <<cpc, cv.state>> \in CoordinatorAt
    BY <1>2 DEF GateInv, DriveInStep
  <1>5. CASE cpc' = "retain"
    BY <1>1, <1>5, GateGivesUp DEF Dead
  <1>6. CASE cpc' # "retain"
    <2>1. <<cpc', cv.state>> \in CoordinatorAt
      BY <1>1, <1>4, <1>6 DEF CRestore, CFinish, CoordinatorAt
    <2>2. cpc' # "signal"
      BY <1>1
    <2> QED BY <1>1, <1>2, <1>3, <2>1, <2>2, GateMove
  <1> QED BY <1>5, <1>6

(* The moves of the drive between two exchanges. *)
TurnMoves ==
  {<<"ready", "gate">>, <<"resuming", "resumed">>, <<"stopping", "stopped">>, <<"poll", "suspended">>,
   <<"active", "suspend">>, <<"suspended", "resuming">>, <<"stopped", "suspended">>}

LEMMA GateTurn ==
  ASSUME GateInv, UNCHANGED <<cv, gpc, wire>>, <<cpc, cpc'>> \in TurnMoves
  PROVE  GateInv'
  <1>1. cpc \notin Dead /\ cpc' # "signal"
    BY DEF Dead, TurnMoves
  <1>2. <<cpc, cv.state>> \in CoordinatorAt
    BY <1>1 DEF GateInv, DriveInStep
  <1>3. <<cpc', cv.state>> \in CoordinatorAt
    BY <1>2 DEF CoordinatorAt, TurnMoves
  <1>4. ASSUME gpc \in Early
        PROVE  Idle /\ <<gpc, cpc'>> \in IdlePairs
    <2>1. Idle /\ <<gpc, cpc>> \in IdlePairs
      BY <1>1, <1>4, DriveTurn DEF TurnMoves
    <2> QED BY <2>1 DEF TurnMoves, IdlePairs
  <1> QED BY <1>1, <1>3, <1>4, GateMove

LEMMA GateMoves ==
  ASSUME GateInv, CEnterRaw \/ CStop \/ CPollIdle
  PROVE  GateInv'
  <1>1. UNCHANGED <<cv, gpc, wire>> /\ (<<cpc, cpc'>> \in TurnMoves \/ cpc' = "retain")
    BY DEF CEnterRaw, CStop, CPollIdle, CQuiet, gvars, TurnMoves
  <1> QED BY <1>1, GateTurn, GateGivesUp DEF Dead

(* A command of the drive, sent in its turn. *)
LEMMA GateCommand ==
  ASSUME SessionInv, GateInv, CCommand
  PROVE  GateInv'
  <1>1. PICK m \in CCommands : cpc = m[1] /\ CSend(m[2], m[3])
    BY DEF CCommand
  <1>2. UNCHANGED gpc /\ SessionTypeOK /\ cv \in Validator
    BY TypedParts DEF CCommand, CQuiet, gvars, SessionInv
  <1> HIDE DEF Plain
  <1>3. PICK k \in {"Start", "TerminalArmAccepted", "OpenInputGate", "Suspend", "Resume", "TerminalRestored"} :
          m[2] = Plain(k) /\ <<m[1], k, m[3]>> \in
             {<<"start", "Start", "boot">>, <<"arm", "TerminalArmAccepted", "boot">>,
              <<"gate", "OpenInputGate", "gateack">>, <<"suspend", "Suspend", "suspending">>,
              <<"resumed", "Resume", "resume">>, <<"restored", "TerminalRestored", "disarm">>}
    BY DEF CCommands
  <1>4. PICK c \in Command : c = m[2] /\ c.kind = k
    BY <1>3, PlainCommands
  <1>5. cpc \notin Dead /\ cv.allowance = "inactive" /\ <<cpc, cv.state>> \in CoordinatorAt
    BY <1>1, <1>3 DEF GateInv, DriveInStep, Dead
  <1>6. ASSUME NEW w \in AcceptCommand(cv, c)
        PROVE  <<m[3], w.state>> \in CoordinatorAt /\ w.allowance = "inactive"
    <2>1. CASE k = "TerminalRestored"
      <3>1. w.state = "AwaitRecoveryDisarmed" /\ w.allowance = "inactive"
        BY <1>2, <1>4, <1>5, <2>1, CommandState
      <3> QED BY <1>3, <2>1, <3>1 DEF CoordinatorAt
    <2>2. CASE k # "TerminalRestored"
      <3>1. cv.state # "Quiesced"
        BY <1>1, <1>3, <1>5, <2>2 DEF CoordinatorAt
      <3>2. /\ w.allowance = "inactive"
            /\ \E n \in CommandMoves : n[1] = cv.state /\ n[2] = k /\ w.state = n[4]
        BY <1>2, <1>4, <1>5, <2>2, <3>1, CommandState
      <3> QED BY <1>3, <2>2, <3>1, <3>2 DEF CommandMoves, CoordinatorAt
    <2> QED BY <2>1, <2>2
  <1>7. ASSUME gpc \in Early
        PROVE  Idle /\ <<gpc, m[3], k>> \in AskedPairs
    <2>1. k # "TerminalRestored"
      BY <1>1, <1>3, <1>5, <1>7, DriveTurn
    <2>2. Idle /\ <<gpc, cpc>> \in IdlePairs
      BY <1>1, <1>3, <1>5, <1>7, <2>1, DriveTurn
    <2> QED BY <1>1, <1>3, <2>1, <2>2 DEF IdlePairs, AskedPairs
  <1>8. m[3] # "signal"
    BY <1>3
  <1> QED BY <1>1, <1>2, <1>4, <1>6, <1>7, <1>8, GateSend

LEMMA GateVerify ==
  ASSUME SessionInv, GateInv, CVerify
  PROVE  GateInv'
  <1>1. PICK r \in ChildRole : CSend(Frame("ChildDescriptorsVerified", r), "boot")
    BY DEF CVerify, ChildRole
  <1>2. UNCHANGED gpc /\ SessionTypeOK /\ cv \in Validator /\ cpc = "verify"
    BY TypedParts DEF CVerify, CQuiet, gvars, SessionInv
  <1>3. PICK c \in Command : c = Frame("ChildDescriptorsVerified", r) /\ c.kind = "ChildDescriptorsVerified"
    BY PlainCommands
  <1>4. cpc \notin Dead /\ cv.allowance = "inactive" /\ <<cpc, cv.state>> \in CoordinatorAt
    BY <1>2 DEF GateInv, DriveInStep, Dead
  <1>5. ASSUME NEW w \in AcceptCommand(cv, c)
        PROVE  <<"boot", w.state>> \in CoordinatorAt /\ w.allowance = "inactive"
    <2>1. cv.state \in {"AwaitAppDescriptorVerification", "AwaitTuiDescriptorVerification"}
      BY <1>2, <1>4 DEF CoordinatorAt
    <2>2. /\ w.allowance = "inactive"
          /\ \E n \in CommandMoves : n[1] = cv.state /\ n[2] = "ChildDescriptorsVerified" /\ w.state = n[4]
      BY <1>2, <1>3, <1>4, <2>1, CommandState
    <2> QED BY <2>1, <2>2 DEF CommandMoves, CoordinatorAt
  <1>6. ASSUME gpc \in Early
        PROVE  Idle /\ <<gpc, "boot", "ChildDescriptorsVerified">> \in AskedPairs
    <2>1. Idle /\ <<gpc, cpc>> \in IdlePairs
      BY <1>2, <1>4, <1>6, DriveTurn
    <2> QED BY <1>2, <2>1 DEF IdlePairs, AskedPairs
  <1> QED BY <1>1, <1>2, <1>3, <1>5, <1>6, GateSend

(* A signal goes out of the loop the drive is in. *)
LEMMA GateSignal ==
  ASSUME SessionInv, GateInv, cpc \in {"active", "suspended"}, NEW s \in UnixSignal,
         CSend(Frame("Signal", s), "signal"), UNCHANGED gpc
  PROVE  GateInv'
  <1>1. SessionTypeOK /\ cv \in Validator
    BY TypedParts DEF SessionInv
  <1>2. PICK c \in Command : c = Frame("Signal", s) /\ c.kind = "Signal"
    BY PlainCommands
  <1>3. cpc \notin Dead /\ cv.allowance = "inactive" /\ <<cpc, cv.state>> \in CoordinatorAt
    BY DEF GateInv, DriveInStep, Dead
  <1>4. cv.state = IF cpc = "active" THEN "Active" ELSE "Suspended"
    BY <1>3 DEF CoordinatorAt
  <1>5. ASSUME gpc \in Early
        PROVE  /\ Idle /\ <<gpc, "signal", "Signal">> \in AskedPairs
               /\ gpc = cpc
    <2>1. Idle /\ <<gpc, cpc>> \in IdlePairs
      BY <1>3, <1>5, DriveTurn
    <2> QED BY <2>1 DEF IdlePairs, AskedPairs
  <1>6. ASSUME NEW w \in AcceptCommand(cv, c)
        PROVE  /\ <<"signal", w.state>> \in CoordinatorAt /\ w.allowance = "inactive"
               /\ gpc \in {"active", "suspended"} => (w.was_suspended <=> gpc = "suspended")
    <2>1. w.allowance = "inactive" /\ w.state = "AwaitSignalForwarded" /\ (w.was_suspended <=> cv.state = "Suspended")
      BY <1>1, <1>2, <1>3, <1>4, CommandState
    <2>2. gpc \in {"active", "suspended"} => gpc = cpc
      BY <1>5 DEF Early, Running
    <2>3. <<"signal", w.state>> \in CoordinatorAt
      BY <2>1 DEF CoordinatorAt
    <2> QED BY <1>4, <2>1, <2>2, <2>3
  <1> QED BY <1>1, <1>2, <1>5, <1>6, GateSend

LEMMA GateControl ==
  ASSUME SessionInv, GateInv, CControl
  PROVE  GateInv'
  <1>1. cpc = "active" /\ next_active # "none" /\ UNCHANGED gpc /\ SessionTypeOK /\ cv \in Validator
    BY TypedParts DEF CControl, CQuiet, gvars, SessionInv
  <1>2. CASE next_active = "tstp"
    <2>1. cpc' = "suspend" /\ UNCHANGED <<cv, wire>>
      BY <1>2 DEF CControl
    <2> QED BY <1>1, <2>1, GateTurn DEF TurnMoves
  <1>3. CASE next_active = "winch"
    <2>1. PICK c \in Command : c = Plain("Resize") /\ c.kind = "Resize"
      BY PlainCommands
    <2>2. CSend(c, "resize")
      BY <1>3, <2>1 DEF CControl
    <2>3. cpc \notin Dead /\ cv.allowance = "inactive" /\ cv.state = "Active"
      BY <1>1 DEF GateInv, DriveInStep, Dead, CoordinatorAt
    <2>4. ASSUME NEW w \in AcceptCommand(cv, c)
          PROVE  <<"resize", w.state>> \in CoordinatorAt /\ w.allowance = "inactive"
      <3>1. /\ w.allowance = "inactive"
            /\ \E n \in CommandMoves : n[1] = cv.state /\ n[2] = "Resize" /\ w.state = n[4]
        BY <1>1, <2>1, <2>3, CommandState
      <3> QED BY <2>3, <3>1 DEF CommandMoves, CoordinatorAt
    <2>5. ASSUME gpc \in Early
          PROVE  Idle /\ <<gpc, "resize", "Resize">> \in AskedPairs
      <3>1. Idle /\ <<gpc, cpc>> \in IdlePairs
        BY <1>1, <2>3, <2>5, DriveTurn
      <3> QED BY <1>1, <3>1 DEF IdlePairs, AskedPairs
    <2> QED BY <1>1, <2>1, <2>2, <2>4, <2>5, GateSend
  <1>4. CASE next_active \notin {"tstp", "winch"}
    <2>1. next_active \in UnixSignal
      BY <1>1, <1>4, FirstActive DEF UnixSignal
    <2>2. CSend(Frame("Signal", next_active), "signal")
      BY <1>4 DEF CControl
    <2> QED BY <1>1, <2>1, <2>2, GateSignal
  <1> QED BY <1>2, <1>3, <1>4

LEMMA GateSuspended ==
  ASSUME SessionInv, GateInv, CSuspended
  PROVE  GateInv'
  <1>1. cpc = "suspended" /\ next_suspended # "none" /\ UNCHANGED gpc
    BY DEF CSuspended, CQuiet, gvars
  <1>2. CASE next_suspended = "cont"
    <2>1. cpc' = "resuming" /\ UNCHANGED <<cv, wire>>
      BY <1>2 DEF CSuspended
    <2> QED BY <1>1, <2>1, GateTurn DEF TurnMoves
  <1>3. CASE next_suspended # "cont"
    <2>1. next_suspended \in UnixSignal
      BY <1>1, <1>3, FirstSuspended DEF UnixSignal
    <2>2. CSend(Frame("Signal", next_suspended), "signal")
      BY <1>3 DEF CSuspended
    <2> QED BY <1>1, <2>1, <2>2, GateSignal
  <1> QED BY <1>2, <1>3

(* The guardian's steps before the shutdown: it reads the one command, or   *)
(* answers it, while the drive waits.                                       *)
LEMMA GateRead ==
  ASSUME GateInv, UNCHANGED <<cpc, cv>>, gpc' \notin {"active", "suspended"},
         cpc \notin Dead => up' = << >> /\ down' = << >> /\ <<gpc', cpc>> \in IdlePairs
  PROVE  GateInv'
  <1>1. CASE cpc \in Dead
    BY <1>1, GateGivesUp
  <1>2. CASE cpc \notin Dead
    <2>1. DriveInStep' /\ SignalSide'
      BY DEF GateInv, DriveInStep, SignalSide
    <2>2. InTurn'
      BY <1>2 DEF InTurn, Idle
    <2> QED BY <2>1, <2>2 DEF GateInv, Paired
  <1> QED BY <1>1, <1>2

LEMMA EmitHealthy ==
  ASSUME NEW v, NEW e, GEmitFrom(v, e), Emitted(v, e) = "healthy"
  PROVE  down' = Append(down, e)
  BY DEF GEmitFrom, Emitted

LEMMA GateTell ==
  ASSUME GateInv, UNCHANGED <<cpc, cv>>, NEW v, NEW e, GEmitFrom(v, e), Emitted(v, e) = "healthy",
         cpc \notin Dead => /\ up' = << >> /\ down = << >> /\ <<gpc', cpc, e.kind>> \in ToldPairs
                            /\ e.kind = "SignalForwarded" => e.arg \in Interactive
                            /\ cpc = "signal" => gpc' = gpc
  PROVE  GateInv'
  <1>1. CASE cpc \in Dead
    BY <1>1, GateGivesUp
  <1>2. CASE cpc \notin Dead
    <2>1. DriveInStep' /\ SignalSide'
      BY <1>2 DEF GateInv, DriveInStep, SignalSide
    <2>2. up' = << >> /\ down' = <<e>>
      BY <1>2, EmitHealthy
    <2>3. Told(e.kind)'
      BY <1>2, <2>2 DEF Told
    <2>4. \E m \in ToldPairs : m[1] = gpc' /\ m[2] = cpc' /\ Told(m[3])'
      <3>1. PICK m \in ToldPairs : m = <<gpc', cpc, e.kind>>
        BY <1>2
      <3> QED BY <2>3, <3>1
    <2> QED BY <2>1, <2>4 DEF GateInv, Paired, InTurn
  <1> QED BY <1>1, <1>2

(* Where the guardian stands when nothing has been asked of it. *)
LEMMA GuardianTurn ==
  ASSUME GateInv, cpc \notin Dead, gpc \in {"lease", "arm", "app", "tui", "ready"}
  PROVE  Idle /\ <<gpc, cpc>> \in IdlePairs
  <1>1. InTurn
    BY DEF GateInv, Paired, Early, Bootstrap, Running
  <1>2. CASE \E m \in AskedPairs : m[1] = gpc /\ m[2] = cpc /\ Asked(m[3])
    BY <1>2 DEF AskedPairs
  <1>3. CASE \E m \in ToldPairs : m[1] = gpc /\ m[2] = cpc /\ Told(m[3])
    BY <1>3 DEF ToldPairs
  <1> QED BY <1>1, <1>2, <1>3 DEF InTurn

LEMMA GuardianAsked ==
  ASSUME SessionTypeOK, GateInv, gpc \in Early, cpc \notin Dead, up # << >>, up' = Tail(up)
  PROVE  \E m \in AskedPairs : m[1] = gpc /\ m[2] = cpc /\ Head(up).kind = m[3] /\ up' = << >> /\ down = << >>
  <1>1. PICK m \in AskedPairs : m[1] = gpc /\ m[2] = cpc /\ Asked(m[3])
    BY DriveTurn
  <1>2. up \in Seq(Command) /\ Len(up) = 1 /\ up[1].kind = m[3] /\ down = << >>
    BY <1>1, TypedParts DEF Asked
  <1>3. Head(up) = up[1] /\ up' = << >>
    BY <1>2
  <1> QED BY <1>1, <1>2, <1>3

LEMMA GateBootEmit ==
  ASSUME GateInv, GBootEmit
  PROVE  GateInv'
  <1>1. UNCHANGED <<cpc, cv, up>> /\ gpc \in {"lease", "arm"}
    BY DEF GBootEmit, GQuiet, cvars
  <1>2. CASE gpc' \notin Early
    BY <1>1, <1>2, GateLeft
  <1>3. CASE gpc' \in Early
    <2>1. PICK e : e = Plain(IF gpc = "lease" THEN "LeaseCommitted" ELSE "TerminalArmed")
      OBVIOUS
    <2>2. GEmitFrom(gv, e) /\ (Emitted(gv, e) = "healthy" => gpc' = IF gpc = "lease" THEN "start" ELSE "armed")
            /\ (Emitted(gv, e) # "healthy" => gpc' = "exited")
      BY <2>1 DEF GBootEmit, Goto, GExit
    <2>3. Emitted(gv, e) = "healthy" /\ gpc' = IF gpc = "lease" THEN "start" ELSE "armed"
      BY <1>3, <2>2 DEF Early, Bootstrap, Running
    <2>4. e.kind = IF gpc = "lease" THEN "LeaseCommitted" ELSE "TerminalArmed"
      BY <2>1, PlainEvents
    <2>5. cpc \notin Dead => up' = << >> /\ down = << >> /\ <<gpc', cpc, e.kind>> \in ToldPairs /\ cpc # "signal"
      <3> SUFFICES ASSUME cpc \notin Dead
                   PROVE  up' = << >> /\ down = << >> /\ <<gpc', cpc, e.kind>> \in ToldPairs /\ cpc # "signal"
        OBVIOUS
      <3>1. Idle /\ <<gpc, cpc>> \in IdlePairs
        BY <1>1, GuardianTurn
      <3> QED BY <1>1, <2>3, <2>4, <3>1 DEF Idle, IdlePairs, ToldPairs
    <2> QED BY <1>1, <2>2, <2>3, <2>4, <2>5, GateTell
  <1> QED BY <1>2, <1>3

LEMMA GateBootReceive ==
  ASSUME SessionTypeOK, GateInv, GBootReceive
  PROVE  GateInv'
  <1>1. UNCHANGED <<cpc, cv, down>> /\ gpc \in {"start", "armed"}
    BY DEF GBootReceive, GQuiet, cvars
  <1>2. CASE gpc' = "exited"
    BY <1>1, <1>2, GateLeft DEF Early, Bootstrap, Running
  <1>3. CASE gpc' # "exited"
    <2>1. up # << >> /\ up' = Tail(up) /\ gpc' = IF gpc = "start" THEN "arm" ELSE "app"
      BY <1>3 DEF GBootReceive, GExit, Goto
    <2>2. ASSUME cpc \notin Dead
          PROVE  up' = << >> /\ down' = << >> /\ <<gpc', cpc>> \in IdlePairs
      <3>1. PICK m \in AskedPairs : m[1] = gpc /\ m[2] = cpc /\ up' = << >> /\ down = << >>
        BY <1>1, <2>1, <2>2, GuardianAsked DEF Early, Bootstrap
      <3> QED BY <1>1, <2>1, <3>1 DEF AskedPairs, IdlePairs
    <2> QED BY <1>1, <2>1, <2>2, GateRead
  <1> QED BY <1>2, <1>3

LEMMA GateStartChild ==
  ASSUME GateInv, GStartChild
  PROVE  GateInv'
  <1>1. UNCHANGED <<cpc, cv, up>> /\ gpc \in {"app", "tui"}
    BY DEF GStartChild, GQuiet, cvars, ChildRole
  <1>2. CASE gpc' = "quiesce"
    BY <1>1, <1>2, GateLeft DEF Early, Bootstrap, Running
  <1>3. CASE gpc' # "quiesce"
    <2>1. PICK e : e = Frame("ChildStarted", gpc) /\ e.kind = "ChildStarted"
      BY PlainCommands
    <2>2. /\ GEmitFrom(gv, e) /\ Emitted(gv, e) = "healthy"
          /\ gpc' = IF gpc = "app" THEN "vapp" ELSE "vtui"
      BY <1>3, <2>1 DEF GStartChild, ShutFailed, Shut, Goto
    <2>3. cpc \notin Dead => up' = << >> /\ down = << >> /\ <<gpc', cpc, e.kind>> \in ToldPairs /\ cpc # "signal"
      <3> SUFFICES ASSUME cpc \notin Dead
                   PROVE  up' = << >> /\ down = << >> /\ <<gpc', cpc, e.kind>> \in ToldPairs /\ cpc # "signal"
        OBVIOUS
      <3>1. Idle /\ <<gpc, cpc>> \in IdlePairs
        BY <1>1, GuardianTurn
      <3> QED BY <1>1, <2>1, <2>2, <3>1 DEF Idle, IdlePairs, ToldPairs
    <2> QED BY <1>1, <2>1, <2>2, <2>3, GateTell
  <1> QED BY <1>2, <1>3

LEMMA GateVerified ==
  ASSUME SessionTypeOK, GateInv, GVerified
  PROVE  GateInv'
  <1>1. UNCHANGED <<cpc, cv>> /\ gpc \in {"vapp", "vtui"} /\ up # << >> /\ up' = Tail(up)
    BY DEF GVerified, GQuiet, cvars
  <1>2. CASE gpc' = "quiesce"
    BY <1>1, <1>2, GateLeft DEF Early, Bootstrap, Running
  <1>3. CASE gpc' # "quiesce"
    <2>1. UNCHANGED down /\ gpc' = IF gpc = "vapp" THEN "tui" ELSE "ready"
      BY <1>3 DEF GVerified, GRefuse, Shut, Goto
    <2>2. ASSUME cpc \notin Dead
          PROVE  up' = << >> /\ down' = << >> /\ <<gpc', cpc>> \in IdlePairs
      <3>1. PICK m \in AskedPairs : m[1] = gpc /\ m[2] = cpc /\ up' = << >> /\ down = << >>
        BY <1>1, <2>2, GuardianAsked DEF Early, Running
      <3> QED BY <1>1, <2>1, <3>1 DEF AskedPairs, IdlePairs
    <2> QED BY <1>1, <2>1, <2>2, GateRead
  <1> QED BY <1>2, <1>3

LEMMA GateReady ==
  ASSUME GateInv, GReady
  PROVE  GateInv'
  <1>1. UNCHANGED <<cpc, cv, up>> /\ gpc = "ready"
    BY DEF GReady, GQuiet, cvars
  <1>2. CASE gpc' = "quiesce"
    BY <1>1, <1>2, GateLeft DEF Early, Bootstrap, Running
  <1>3. CASE gpc' # "quiesce"
    <2>1. PICK e : e = Plain("Ready") /\ e.kind = "Ready"
      BY PlainEvents
    <2>2. GEmitFrom(gv, e) /\ Emitted(gv, e) = "healthy" /\ gpc' = "gate"
      BY <1>3, <2>1 DEF GReady, Shut, Goto
    <2>3. cpc \notin Dead => up' = << >> /\ down = << >> /\ <<gpc', cpc, e.kind>> \in ToldPairs /\ cpc # "signal"
      <3> SUFFICES ASSUME cpc \notin Dead
                   PROVE  up' = << >> /\ down = << >> /\ <<gpc', cpc, e.kind>> \in ToldPairs /\ cpc # "signal"
        OBVIOUS
      <3>1. Idle /\ <<gpc, cpc>> \in IdlePairs
        BY <1>1, GuardianTurn
      <3> QED BY <1>1, <2>1, <2>2, <3>1 DEF Idle, IdlePairs, ToldPairs
    <2> QED BY <1>1, <2>1, <2>2, <2>3, GateTell
  <1> QED BY <1>2, <1>3

LEMMA AskedFrom ==
  \A m \in AskedPairs :
    /\ m[3] = "Signal" => m[1] \in {"active", "suspended"} /\ m[2] = "signal"
    /\ m[3] = "OpenInputGate" => m[1] = "gate" /\ m[2] = "gateack"
    /\ m[3] = "Resize" => m[1] = "active" /\ m[2] = "resize"
    /\ m[3] = "Suspend" => m[1] = "active" /\ m[2] = "suspending"
    /\ m[3] = "Resume" => m[1] = "suspended" /\ m[2] = "resume"
    /\ m[1] \in Loop => m[3] \in {"Signal", "OpenInputGate", "Resize", "Suspend", "Resume"}
  BY DEF AskedPairs, Loop

LEMMA GateServe ==
  ASSUME SessionTypeOK, GateInv, GCommand
  PROVE  GateInv'
  <1>1. UNCHANGED <<cpc, cv>> /\ gpc \in Loop /\ up # << >> /\ up' = Tail(up)
    BY DEF GCommand, GQuiet, cvars
  <1>2. CASE gpc' = "quiesce"
    BY <1>1, <1>2, GateLeft DEF Early, Bootstrap, Running
  <1>3. CASE gpc' # "quiesce"
    <2>1. PICK c \in Command : c = Head(up)
      BY <1>1, TypedParts, TailOf
    <2>2. PICK v : /\ GEmitFrom(v, Acknowledged(c)) /\ Emitted(v, Acknowledged(c)) = "healthy"
                   /\ gpc' = NextLoop(c) /\ (c.kind = "Signal" => c.arg \in Interactive)
      BY <1>3, <2>1 DEF GCommand, GRefuse, ShutFailed, Shut, Goto
    <2>3. PICK e : e = Acknowledged(c)
      OBVIOUS
    <2>4. ASSUME cpc \notin Dead
          PROVE  /\ up' = << >> /\ down = << >> /\ <<gpc', cpc, e.kind>> \in ToldPairs
                 /\ e.kind = "SignalForwarded" => e.arg \in Interactive
                 /\ cpc = "signal" => gpc' = gpc
      <3>1. PICK m \in AskedPairs : m[1] = gpc /\ m[2] = cpc /\ c.kind = m[3] /\ up' = << >> /\ down = << >>
        BY <1>1, <2>1, <2>4, GuardianAsked DEF Early, Running, Loop
      <3>2. CASE c.kind = "Signal"
        <4>1. e = Frame("SignalForwarded", c.arg) /\ gpc' = gpc
          BY <2>2, <2>3, <3>2 DEF Acknowledged, NextLoop
        <4>2. e.kind = "SignalForwarded" /\ e.arg = c.arg
          BY <4>1, PlainCommands
        <4>3. gpc \in {"active", "suspended"} /\ cpc = "signal"
          BY <3>1, <3>2, AskedFrom
        <4> QED BY <2>2, <3>1, <3>2, <4>1, <4>2, <4>3 DEF ToldPairs
      <3>3. CASE c.kind = "OpenInputGate"
        <4>1. e.kind = "InputGateOpened" /\ gpc' = "active"
          BY <2>2, <2>3, <3>3, PlainEvents DEF Acknowledged, NextLoop
        <4>2. gpc = "gate" /\ cpc = "gateack"
          BY <3>1, <3>3, AskedFrom
        <4> QED BY <3>1, <3>3, <4>1, <4>2 DEF ToldPairs
      <3>4. CASE c.kind = "Resize"
        <4>1. e.kind = "ResizeApplied" /\ gpc' = gpc
          BY <2>2, <2>3, <3>4, PlainEvents DEF Acknowledged, NextLoop
        <4>2. gpc = "active" /\ cpc = "resize"
          BY <3>1, <3>4, AskedFrom
        <4> QED BY <3>1, <3>4, <4>1, <4>2 DEF ToldPairs
      <3>5. CASE c.kind = "Suspend"
        <4>1. e.kind = "Suspended" /\ gpc' = "suspended"
          BY <2>2, <2>3, <3>5, PlainEvents DEF Acknowledged, NextLoop
        <4>2. gpc = "active" /\ cpc = "suspending"
          BY <3>1, <3>5, AskedFrom
        <4> QED BY <3>1, <3>5, <4>1, <4>2 DEF ToldPairs
      <3>6. CASE c.kind = "Resume"
        <4>1. e.kind = "Resumed" /\ gpc' = "gate"
          BY <2>2, <2>3, <3>6, PlainEvents DEF Acknowledged, NextLoop
        <4>2. gpc = "suspended" /\ cpc = "resume"
          BY <3>1, <3>6, AskedFrom
        <4> QED BY <3>1, <3>6, <4>1, <4>2 DEF ToldPairs
      <3>7. c.kind \in {"Signal", "OpenInputGate", "Resize", "Suspend", "Resume"}
        BY <1>1, <3>1, AskedFrom
      <3> QED BY <3>2, <3>3, <3>4, <3>5, <3>6, <3>7
    <2> QED BY <1>1, <2>2, <2>3, <2>4, GateTell
  <1> QED BY <1>2, <1>3

(* The guardian shuts down, or is shutting down: no input is open any more. *)
LEMMA GateShut ==
  ASSUME SessionTypeOK, GateInv,
         \/ GComponentFails \/ GNaturalExit \/ GUsageExhausted \/ GRecover \/ GPeerLost \/ GDeadline
         \/ GReapTui \/ GStopApp \/ GQuiesceFails \/ GQuiesced \/ GInvalid \/ GFallbackRestore
         \/ GAwaitRestore \/ GRestoreStarved \/ GRestoreDeadline \/ GCleanup \/ GReport \/ GPublish
         \/ GRetry \/ KillGuardian
  PROVE  GateInv'
  <1>1. CASE \/ GComponentFails \/ GNaturalExit \/ GUsageExhausted \/ GRecover \/ GPeerLost \/ GDeadline
    <2>1. UNCHANGED <<cpc, cv>> /\ gpc' = "quiesce"
      BY <1>1 DEF GComponentFails, GNaturalExit, GUsageExhausted, GRecover, GPeerLost, GDeadline, ShutFailed, Shut,
                  GQuiet, cvars
    <2> QED BY <2>1, GateLeft DEF Early, Bootstrap, Running
  <1>2. CASE GReapTui \/ GStopApp \/ GQuiesceFails \/ GInvalid \/ GRestoreStarved \/ GRestoreDeadline
    <2>1. UNCHANGED <<cpc, cv>> /\ gpc' \in {"quiesce", "quiet", "retained", "parked"}
      BY <1>2 DEF GReapTui, GStopApp, GQuiesceFails, GInvalid, GRestoreStarved, GRestoreDeadline, RestoreDeadline,
                  Retain, Park, GQuiet, cvars
    <2> QED BY <2>1, GateLeft DEF Early, Bootstrap, Running
  <1>3. CASE GQuiesced \/ GFallbackRestore \/ GAwaitRestore
    <2>1. UNCHANGED <<cpc, cv>> /\ gpc' \in {"quiet", "await", "cleanup", "parked"}
      BY <1>3 DEF GQuiesced, GFallbackRestore, GAwaitRestore, Goto, Park, GQuiet, cvars
    <2> QED BY <2>1, GateLeft DEF Early, Bootstrap, Running
  <1>4. CASE GCleanup \/ GReport \/ GPublish \/ GRetry \/ KillGuardian
    <2>1. /\ UNCHANGED <<cpc, cv>>
          /\ gpc' \in {"disarm", "exited", "retained", "parked", "joined", "publish", "quiesce", "quiet", "cleanup", "killed"}
      BY <1>4 DEF GCleanup, GReport, GPublish, GRetry, KillGuardian, Goto, GExit, Retain, GQuiet, cvars
    <2> QED BY <2>1, GateLeft DEF Early, Bootstrap, Running
  <1> QED BY <1>1, <1>2, <1>3, <1>4

(* The anchor and the environment. *)
LEMMA GateOuter ==
  ASSUME GateInv, ASteps \/ ATimeout \/ Environment, ~KillGuardian
  PROVE  GateInv'
  <1>1. CASE AForce \/ KillCoordinator
    <2>1. cpc' \in Dead /\ UNCHANGED cv
      BY <1>1 DEF AForce, KillCoordinator, AQuiet, Dead
    <2> QED BY <2>1, GateGivesUp
  <1>2. CASE AContinue \/ KillAnchor
    <2>1. UNCHANGED <<cv, gpc, wire>> /\ (UNCHANGED cpc \/ <<cpc, cpc'>> \in TurnMoves)
      BY <1>2 DEF AContinue, Emergency, KillAnchor, AQuiet, gvars, TurnMoves
    <2> QED BY <2>1, GateSame, GateTurn
  <1>3. CASE \/ ARelayStop \/ ANotStopped \/ AFinish \/ APark \/ AEmergency \/ AContained \/ ATimeout
             \/ USignal \/ ASuspend
    <2>1. UNCHANGED <<cpc, cv, gpc, wire>>
      BY <1>3 DEF ARelayStop, ANotStopped, AFinish, APark, AEmergency, Emergency, AContained, ARestore, ATimeout,
                  USignal, ASuspend, AQuiet, cvars, gvars
    <2> QED BY <2>1, GateSame
  <1> QED BY <1>1, <1>2, <1>3 DEF ASteps, Environment

LEMMA GateInit == Init => GateInv
  <1> SUFFICES ASSUME Init
               PROVE  GateInv
    OBVIOUS
  <1>1. cpc = "lease" /\ gpc = "lease" /\ cv = before_start /\ up = << >> /\ down = << >>
    BY DEF Init
  <1>2. cv.state = "AwaitLeaseBeforeStart" /\ cv.allowance = "inactive"
    BY <1>1 DEF before_start
  <1>3. DriveInStep /\ SignalSide
    BY <1>1, <1>2 DEF DriveInStep, CoordinatorAt, SignalSide
  <1>4. InTurn
    BY <1>1 DEF InTurn, Idle, IdlePairs
  <1> QED BY <1>3, <1>4 DEF GateInv, Paired

LEMMA GateNext ==
  ASSUME SessionInv, GateInv, [Next]_vars
  PROVE  GateInv'
  <1>0. SessionTypeOK
    BY DEF SessionInv
  <1>1. CASE CStep
    BY <1>1, GateReceive, GateFail, GateEnd, GateMoves, GateCommand, GateVerify, GateControl, GateSuspended DEF CStep
  <1>2. CASE CDeadline
    BY <1>2, GateFail
  <1>3. CASE GSteps
    BY <1>0, <1>3, GateStartChild, GateBootEmit, GateBootReceive, GateVerified, GateReady, GateServe, GateShut DEF GSteps
  <1>4. CASE GEnds \/ GFaults
    BY <1>0, <1>4, GateShut DEF GEnds, GFaults
  <1>5. CASE ASteps \/ ATimeout \/ Environment
    BY <1>0, <1>5, GateOuter, GateShut
  <1>6. CASE UNCHANGED vars
    <2>1. UNCHANGED <<cpc, cv, gpc, wire>>
      BY <1>6 DEF vars, cvars, gvars
    <2> QED BY <2>1, GateSame
  <1> QED BY <1>1, <1>2, <1>3, <1>4, <1>5, <1>6 DEF Next

(* Until the guardian shuts down the two processes take turns on the        *)
(* socket: the drive of coordinator.rs stands where its transcript says, and *)
(* each control point of one goes with a few of the other and with the one  *)
(* frame that may be on the wire.                                           *)
THEOREM TurnsAreTaken == Spec => []GateInv
  <1>1. Init => GateInv
    BY GateInit
  <1>2. SessionInv /\ GateInv /\ [Next]_vars => GateInv'
    BY GateNext
  <1> QED BY <1>1, <1>2, SessionInvariant, PTL DEF Spec

(* The coordinator forwards input (run_active, coordinator.rs) only         *)
(* while the guardian has acknowledged the gate: never before the gate      *)
(* opened, and never while the guardian is suspended or waits for the gate  *)
(* after a resume, whatever is killed, fails or times out.                  *)
THEOREM InputGated == Spec => []InputOnlyThroughGate
  <1>1. GateInv => InputOnlyThroughGate
    <2> SUFFICES ASSUME GateInv, cpc = "active" \/ (cpc \in {"signal", "resize"} /\ ~cv.was_suspended), gpc \in Early
                 PROVE  gpc = "active"
      BY DEF InputOnlyThroughGate, Early, Bootstrap, Running
    <2>1. InTurn
      BY DEF GateInv, Paired, Dead
    <2>2. gpc \in {"active", "suspended"} /\ (cpc # "signal" => gpc = "active")
      BY <2>1 DEF InTurn, IdlePairs, AskedPairs, ToldPairs
    <2> QED BY <2>2 DEF GateInv, SignalSide
  <1> QED BY <1>1, TurnsAreTaken, PTL


------------------------------------------------------------------------------
(* Crossing frames: the two transcripts *)

(* The states of the guardian's transcript before the end is announced, and *)
(* the ones after.                                                          *)
Opening ==
  {"AwaitLeaseBeforeStart", "AwaitStart", "AwaitTerminalArmed", "AwaitTerminalArmAcceptance", "AwaitApp",
   "AwaitAppDescriptorVerification", "AwaitTui", "AwaitTuiDescriptorVerification", "AwaitReady", "ReadyForGate",
   "Active", "Suspended"}

(* The states in which the drive waits for the answer to a command of the   *)
(* session, and those in which a child has been reported.                   *)
Asking == {"AwaitGateOpened", "AwaitSignalForwarded", "AwaitResizeApplied", "AwaitSuspended", "AwaitResumed"}
Reporting == {"AwaitApp", "AwaitTui", "AwaitReady"}

(* The state of the guardian's transcript at each of its control points. *)
GuardianAt ==
  {<<"lease", "AwaitLeaseBeforeStart">>, <<"start", "AwaitStart">>, <<"arm", "AwaitTerminalArmed">>,
   <<"armed", "AwaitTerminalArmAcceptance">>, <<"app", "AwaitApp">>, <<"vapp", "AwaitAppDescriptorVerification">>,
   <<"tui", "AwaitTui">>, <<"vtui", "AwaitTuiDescriptorVerification">>, <<"ready", "AwaitReady">>,
   <<"gate", "ReadyForGate">>, <<"active", "Active">>, <<"suspended", "Suspended">>,
   <<"quiesce", "Active">>, <<"quiesce", "FailedAwaitQuiesced">>, <<"quiesce", "AwaitQuiesced">>,
   <<"quiet", "Active">>, <<"quiet", "FailedAwaitQuiesced">>, <<"quiet", "AwaitQuiesced">>,
   <<"await", "Quiesced">>, <<"cleanup", "AwaitRecoveryDisarmed">>, <<"disarm", "AwaitRecoveryDisarmed">>,
   <<"joined", "RecoveryDisarmed">>, <<"publish", "Terminal">>}

GuardianOnTrack ==
  /\ gpc \in Early \cup {"await"} => ~gbad
  /\ gcond # "healthy" => gbad
  /\ \/ gbad \/ gpc \in {"parked", "exited", "killed"} \/ <<gpc, gv.state>> \in GuardianAt
     \/ gpc = "retained" /\ stage = "quiesce" /\ <<"quiesce", gv.state>> \in GuardianAt
     \/ gpc = "retained" /\ stage = "cleanup" /\ gv.state = "AwaitRecoveryDisarmed"

(* What a transcript records of the session at each of its states. *)
Recorded(v) ==
  /\ v.state \in LifecycleState \ {"AwaitGateOpened", "AwaitSignalForwarded", "AwaitResizeApplied",
                                   "AwaitSuspended", "AwaitResumed"}
  /\ v.state \in Opening => v.failure = "none" /\ v.cause = "none"
  /\ v.started \in {{}, {"app"}, ChildRole}
  /\ v.state \in {"AwaitLeaseBeforeStart", "AwaitStart", "AwaitTerminalArmed", "AwaitTerminalArmAcceptance",
                   "AwaitApp"} => v.started = {}
  /\ v.state \in {"AwaitAppDescriptorVerification", "AwaitTui"} => v.started = {"app"}
  /\ v.state \in {"AwaitTuiDescriptorVerification", "AwaitReady", "ReadyForGate", "Active", "Suspended"} =>
       v.started = ChildRole
  /\ v.state \in {"Active", "Suspended"} => v.gate_ever_opened
  /\ v.state \notin Opening /\ v.failure = "none" =>
       v.started = ChildRole /\ v.gate_ever_opened /\ v.cause \in {"natural", "usage", "hup", "term"}
  /\ v.state = "FailedAwaitQuiesced" => v.failure \in {"other", "recovery"} /\ v.cause = "none"
  /\ v.state = "AwaitQuiesced" => v.failure = "none" /\ v.cause # "natural"
  /\ v.state = "Quiesced" => v.failure # "worker" /\ (v.failure # "none" => v.cause = "none")
  /\ v.allowance # "inactive" => v.failure = "recovery" /\ v.state \in {"FailedAwaitQuiesced", "Quiesced"}
  /\ v.failure = "recovery" /\ v.state \in {"FailedAwaitQuiesced", "Quiesced"} => v.allowance \in {"armed", "consumed"}

(* The children are those the transcript reports, and the shutdown ends in  *)
(* what it projects.                                                        *)
ChildrenRecorded ==
  ~gbad =>
    /\ gv.started = {r \in ChildRole : (IF r = "app" THEN app ELSE tui) # "none"}
    /\ gpc \in {"quiesce", "quiet", "await", "cleanup", "disarm", "joined", "retained"} /\ gv.failure = "none" =>
         gend \in {"failure", IF gv.state = "Active" THEN "natural" ELSE gv.cause}
    /\ gpc \in {"quiet", "await", "cleanup", "disarm", "joined"} \/ (gpc = "retained" /\ stage # "quiesce") =>
         (worker = "none" => tui = "none")

------------------------------------------------------------------------------
(* Before the end: one transcript, of which one side may have seen one     *)
(* frame more.                                                              *)
InSync ==
  \/ up = << >> /\ down = << >> /\ cv = gv
  \/ down = << >> /\ \E c \in Command : c.kind # "Stop" /\ up = <<c>> /\ cv \in AcceptCommand(gv, c)
  \/ up = << >> /\ \E e \in Event : down = <<e>> /\ gv \in AcceptEvent(cv, e)

Synchronous == gv.state \in Opening /\ (COpen \/ ~gbad) => InSync /\ refused = {}

------------------------------------------------------------------------------
(* After it: the command that crosses, and the frames the drive has to read *)

Crosses(c) ==
  /\ c.kind \in {"OpenInputGate", "Signal", "Resize", "Suspend", "Resume"}
  /\ gv.allowance = "inactive" => (c.kind = "OpenInputGate" => gv.superseded_gate)
  /\ gv.allowance # "inactive" => gv.allowance = "armed" /\ <<gv.window, c.kind>> \in RecoveryRace

MayCross(q) ==
  /\ gv.allowance = "inactive" => (q = "ReadyForGate" => gv.superseded_gate)
  /\ gv.allowance # "inactive" => gv.allowance = "armed" /\ gv.window = q

Winds == {"AwaitRecoveryDisarmed", "RecoveryDisarmed", "Terminal"}

CommandsCross ==
  ~gbad =>
    /\ gv.state \in {"FailedAwaitQuiesced", "AwaitQuiesced", "Quiesced"} =>
         \/ up = << >>
         \/ \E c \in Command : Crosses(c) /\ up = <<c>>
         \/ /\ gv.state = "Quiesced" /\ cv.state \in Winds
            /\ \/ up = <<Plain("TerminalRestored")>>
               \/ \E c \in Command : Crosses(c) /\ up = <<c, Plain("TerminalRestored")>>
    /\ gv.state \in Winds => up = << >>

SameRecord(v) ==
  /\ v.started = gv.started /\ v.gate_ever_opened = gv.gate_ever_opened
  /\ v.cause = gv.cause /\ v.failure = gv.failure

(* A transcript that has not seen the end announced. *)
Unaware(v) ==
  /\ v.started = gv.started /\ v.gate_ever_opened = gv.gate_ever_opened
  /\ v.cause = "none" /\ v.failure = "none" /\ v.allowance = "inactive"
  /\ v.state \in Window \cup Asking \cup Reporting
  /\ v.state \in Window => MayCross(v.state)
  /\ gv.failure = "none" => /\ v.state \in {"Active", "AwaitSignalForwarded", "AwaitResizeApplied", "AwaitSuspended"}
                            /\ v.state = "AwaitSignalForwarded" => ~v.was_suspended

Quiesced == Plain("TerminalQuiesced")

(* The frames that announce the end, none of them read. *)
Announcement(d) ==
  \/ gv.failure # "none" /\ gv.state = "FailedAwaitQuiesced" /\ d = <<Failed(gv.failure)>>
  \/ gv.failure # "none" /\ gv.state = "Quiesced" /\ d = <<Failed(gv.failure), Quiesced>>
  \/ gv.failure = "none" /\ gv.cause = "usage" /\ gv.state = "AwaitQuiesced" /\ d = <<Plain("UsageExhausted")>>
  \/ gv.failure = "none" /\ gv.cause = "usage" /\ gv.state = "Quiesced" /\ d = <<Plain("UsageExhausted"), Quiesced>>
  \/ gv.failure = "none" /\ gv.cause = "natural" /\ gv.state = "Quiesced" /\ d = <<Quiesced>>

Unheard ==
  \/ Announcement(down) /\ Unaware(cv) /\ (cv.state \in Window => up = << >>)
  \/ /\ up = << >> /\ down # << >> /\ Announcement(Tail(down))
     /\ AcceptEvent(cv, Head(down)) # {}
     /\ \A w \in AcceptEvent(cv, Head(down)) : Unaware(w) /\ w.state \in Window

(* A forwarded HUP or TERM is answer and announcement in one. *)
Forwarded ==
  /\ gv.failure = "none" /\ gv.cause \in {"hup", "term"} /\ up = << >>
  /\ cv.state = "AwaitSignalForwarded" /\ cv.sig = gv.cause /\ cv.failure = "none"
  /\ cv.started = gv.started /\ cv.gate_ever_opened = gv.gate_ever_opened
  /\ \/ gv.state = "AwaitQuiesced" /\ down = <<Frame("SignalForwarded", gv.cause)>>
     \/ gv.state = "Quiesced" /\ down = <<Frame("SignalForwarded", gv.cause), Quiesced>>

Heard ==
  /\ cv.state \in {"FailedAwaitQuiesced", "AwaitQuiesced"} /\ SameRecord(cv)
  /\ \/ gv.state \in {"FailedAwaitQuiesced", "AwaitQuiesced"} /\ down = << >>
     \/ gv.state = "Quiesced" /\ down = <<Quiesced>>

(* The last frames, after the restore. *)
LateFailure(v) ==
  /\ v.started = gv.started /\ v.gate_ever_opened = gv.gate_ever_opened /\ v.cause = gv.cause
  /\ v.failure = "none" /\ gv.failure = "worker"

LastFrames(v, d) ==
  \/ gv.state = "RecoveryDisarmed" /\ SameRecord(v) /\ d = << >>
  \/ gv.state = "RecoveryDisarmed" /\ LateFailure(v) /\ d = <<Failed("worker")>>
  \/ gv.state = "Terminal" /\ \E r \in Event : /\ r.kind = "ChildrenReaped" /\ validate_terminal(gv, r)
                                               /\ \/ SameRecord(v) /\ d = <<r>>
                                                  \/ LateFailure(v) /\ d = <<Failed("worker"), r>>

Restored ==
  \/ cv.state = "Quiesced" /\ gv.state = "Quiesced" /\ SameRecord(cv) /\ down = << >>
  \/ /\ cv.state = "AwaitRecoveryDisarmed"
     /\ \/ gv.state \in {"Quiesced", "AwaitRecoveryDisarmed"} /\ SameRecord(cv) /\ down = << >>
        \/ /\ down # << >> /\ Head(down) = Plain("TerminalRecoveryDisarmed")
           /\ LastFrames(cv, Tail(down))
  \/ cv.state = "RecoveryDisarmed" /\ LastFrames(cv, down)
  \/ cv.state = "Terminal" /\ gv.state = "Terminal" /\ down = << >>

FramesCross ==
  cpc \notin Dead \cup {"done"} /\ gv.state \notin Opening => Unheard \/ Forwarded \/ Heard \/ Restored

Refused ==
  /\ refused \subseteq ReservedRefusals
  /\ gv.failure = "recovery" => refused = {}
  /\ <<"coordinator", "AwaitSignalForwarded", "TerminalQuiesced", "none">> \in refused
       => cpc \in Dead /\ cv.sig \notin Interactive

CrossInv ==
  /\ GuardianOnTrack /\ Recorded(gv) /\ ChildrenRecorded
  /\ Synchronous /\ CommandsCross /\ FramesCross /\ Refused

------------------------------------------------------------------------------
(* Crossing frames: what a validator makes of a frame *)

(* Where a command of the drive leaves the transcript, and where an answer  *)
(* does.                                                                    *)
Sent ==
  {<<"AwaitStart", "Start", "AwaitTerminalArmed">>,
   <<"AwaitTerminalArmAcceptance", "TerminalArmAccepted", "AwaitApp">>,
   <<"AwaitAppDescriptorVerification", "ChildDescriptorsVerified", "AwaitTui">>,
   <<"AwaitTuiDescriptorVerification", "ChildDescriptorsVerified", "AwaitReady">>,
   <<"ReadyForGate", "OpenInputGate", "AwaitGateOpened">>, <<"Active", "Resize", "AwaitResizeApplied">>,
   <<"Active", "Suspend", "AwaitSuspended">>, <<"Suspended", "Resume", "AwaitResumed">>,
   <<"Active", "Signal", "AwaitSignalForwarded">>, <<"Suspended", "Signal", "AwaitSignalForwarded">>}

Answered ==
  {<<"AwaitLeaseBeforeStart", "LeaseCommitted", "AwaitStart">>,
   <<"AwaitTerminalArmed", "TerminalArmed", "AwaitTerminalArmAcceptance">>,
   <<"AwaitApp", "ChildStarted", "AwaitAppDescriptorVerification">>,
   <<"AwaitTui", "ChildStarted", "AwaitTuiDescriptorVerification">>, <<"AwaitReady", "Ready", "ReadyForGate">>,
   <<"AwaitGateOpened", "InputGateOpened", "Active">>, <<"AwaitSignalForwarded", "SignalForwarded", "Active">>,
   <<"AwaitSignalForwarded", "SignalForwarded", "Suspended">>, <<"AwaitResizeApplied", "ResizeApplied", "Active">>,
   <<"AwaitSuspended", "Suspended", "Suspended">>, <<"AwaitResumed", "Resumed", "ReadyForGate">>}

SameHistory(w, v) ==
  /\ w.started = v.started /\ w.gate_ever_opened = v.gate_ever_opened /\ w.cause = v.cause
  /\ w.failure = v.failure /\ w.allowance = v.allowance /\ w.window = v.window

LEMMA MovedRecord ==
  ASSUME NEW v \in Validator, NEW q, NEW w, w = [v EXCEPT !.state = q]
  PROVE  w.state = q /\ SameHistory(w, v) /\ w.superseded_gate = v.superseded_gate
           /\ w.sig = v.sig /\ w.was_suspended = v.was_suspended
  BY DEF Validator, SameHistory

LEMMA CommandResult ==
  ASSUME NEW v \in Validator, v.state \in Opening, NEW c \in Command, c.kind # "Stop", NEW w \in AcceptCommand(v, c)
  PROVE  /\ w \in Validator /\ SameHistory(w, v)
         /\ <<v.state, c.kind, w.state>> \in Sent
         /\ c.kind = "Signal" => w.sig = c.arg /\ (w.was_suspended <=> v.state = "Suspended")
  <1>0. w \in OrdinaryCommand(v, c) /\ w \in Validator /\ v.state # "Quiesced"
    BY AcceptCommandTyped DEF AcceptCommand, Opening
  <1>1. CASE c.kind = "Signal" /\ v.state \in {"Active", "Suspended"}
    <2>1. PICK b \in BOOLEAN : b <=> (v.state = "Suspended")
      OBVIOUS
    <2>2. w = [v EXCEPT !.state = "AwaitSignalForwarded", !.sig = c.arg, !.was_suspended = (v.state = "Suspended")]
      BY <1>0, <1>1 DEF OrdinaryCommand
    <2>3. w = [v EXCEPT !.state = "AwaitSignalForwarded", !.sig = c.arg, !.was_suspended = b]
      BY <2>1, <2>2, Zenon
    <2>4. w.state = "AwaitSignalForwarded" /\ w.was_suspended = b /\ w.sig = c.arg /\ SameHistory(w, v)
      BY <2>3 DEF Validator, SameHistory
    <2>5. <<v.state, c.kind, w.state>> \in Sent
      BY <1>1, <2>4 DEF Sent
    <2> QED BY <1>0, <2>1, <2>4, <2>5
  <1>2. CASE ~(c.kind = "Signal" /\ v.state \in {"Active", "Suspended"})
    <2>1. PICK m \in CommandMoves : w = [v EXCEPT !.state = m[4]] /\ m[1] = v.state /\ m[2] = c.kind
      BY <1>0, <1>2 DEF OrdinaryCommand
    <2>2. w.state = m[4] /\ SameHistory(w, v)
      BY <2>1, MovedRecord
    <2>3. c.kind # "Signal" /\ <<m[1], m[2], m[4]>> \in Sent
      BY <1>0, <2>1 DEF CommandMoves, Sent
    <2> QED BY <1>0, <2>1, <2>2, <2>3
  <1> QED BY <1>1, <1>2

(* A frame is accepted in one way. *)
LEMMA EventOnce ==
  ASSUME NEW v, NEW e, NEW x \in AcceptEvent(v, e), NEW y \in AcceptEvent(v, e)
  PROVE  x = y
  <1>1. CASE e.kind = "Failed"
    BY <1>1 DEF AcceptEvent, accept_failure
  <1>2. CASE \/ e.kind = "ChildStarted" /\ v.state = (IF e.arg = "app" THEN "AwaitApp" ELSE "AwaitTui")
             \/ e.kind = "InputGateOpened" /\ v.state = "AwaitGateOpened"
             \/ e.kind = "SignalForwarded" /\ v.state = "AwaitSignalForwarded" /\ v.sig = e.arg
             \/ e.kind = "TerminalQuiesced" /\ NaturalExitStates(v)
             \/ e.kind = "UsageExhausted" /\ v.state = "Active"
             \/ e.kind = "ChildrenReaped" /\ v.state = "RecoveryDisarmed"
    BY <1>2 DEF AcceptEvent
  <1>3. CASE /\ e.kind # "Failed"
             /\ ~(e.kind = "ChildStarted" /\ v.state = (IF e.arg = "app" THEN "AwaitApp" ELSE "AwaitTui"))
             /\ ~(e.kind = "InputGateOpened" /\ v.state = "AwaitGateOpened")
             /\ ~(e.kind = "SignalForwarded" /\ v.state = "AwaitSignalForwarded" /\ v.sig = e.arg)
             /\ ~(e.kind = "TerminalQuiesced" /\ NaturalExitStates(v))
             /\ ~(e.kind = "UsageExhausted" /\ v.state = "Active")
             /\ ~(e.kind = "ChildrenReaped" /\ v.state = "RecoveryDisarmed")
    <2>1. PICK m \in EventMoves : x = [v EXCEPT !.state = m[3]] /\ m[1] = v.state /\ m[2] = e.kind
      BY <1>3 DEF AcceptEvent
    <2>2. PICK n \in EventMoves : y = [v EXCEPT !.state = n[3]] /\ n[1] = v.state /\ n[2] = e.kind
      BY <1>3 DEF AcceptEvent
    <2>3. m[3] = n[3]
      BY <2>1, <2>2 DEF EventMoves
    <2> QED BY <2>1, <2>2, <2>3
  <1> QED BY <1>1, <1>2, <1>3

LEMMA CommandOnce ==
  ASSUME NEW v, v.state \in Opening, NEW c, NEW x \in AcceptCommand(v, c), NEW y \in AcceptCommand(v, c)
  PROVE  x = y
  <1>0. x \in OrdinaryCommand(v, c) /\ y \in OrdinaryCommand(v, c) /\ v.state # "Quiesced"
    BY DEF AcceptCommand, Opening
  <1>1. CASE (c.kind = "Signal" /\ v.state \in {"Active", "Suspended"}) \/ (c.kind = "Stop" /\ v.state \in Window)
    BY <1>0, <1>1 DEF OrdinaryCommand
  <1>2. CASE ~((c.kind = "Signal" /\ v.state \in {"Active", "Suspended"}) \/ (c.kind = "Stop" /\ v.state \in Window))
    <2>1. PICK m \in CommandMoves : x = [v EXCEPT !.state = m[4]] /\ m[1] = v.state /\ m[2] = c.kind /\ m[3] = c.arg
      BY <1>0, <1>2 DEF OrdinaryCommand
    <2>2. PICK n \in CommandMoves : y = [v EXCEPT !.state = n[4]] /\ n[1] = v.state /\ n[2] = c.kind /\ n[3] = c.arg
      BY <1>0, <1>2 DEF OrdinaryCommand
    <2>3. m[4] = n[4]
      BY <2>1, <2>2 DEF CommandMoves
    <2> QED BY <2>1, <2>2, <2>3
  <1> QED BY <1>1, <1>2

(* A failure: when it is accepted, and what it records. *)
LEMMA FailureRecord ==
  ASSUME NEW v \in Validator, NEW f \in FailureKind, NEW w \in accept_failure(v, f)
  PROVE  /\ w \in Validator
         /\ w.started = v.started /\ w.gate_ever_opened = v.gate_ever_opened /\ w.cause = v.cause /\ w.failure = f
         /\ w.window = v.window /\ w.sig = "none"
         /\ w.allowance = IF v.allowance = "awaiting" /\ f = "recovery" THEN "armed" ELSE v.allowance
         /\ w.superseded_gate <=> (v.state = "ReadyForGate" /\ ~(v.allowance = "awaiting" /\ f = "recovery"))
         /\ w.state = IF v.state \in {"Quiesced", "AwaitRecoveryDisarmed", "RecoveryDisarmed"} THEN v.state
                      ELSE "FailedAwaitQuiesced"
         /\ v.failure = "none"
  <1>1. /\ w = [v EXCEPT !.superseded_gate = (v.state = "ReadyForGate" /\ ~(v.allowance = "awaiting" /\ f = "recovery")),
                         !.allowance = IF v.allowance = "awaiting" /\ f = "recovery" THEN "armed" ELSE @,
                         !.failure = f,
                         !.state = IF v.state \in {"Quiesced", "AwaitRecoveryDisarmed", "RecoveryDisarmed"} THEN @
                                   ELSE "FailedAwaitQuiesced",
                         !.sig = "none", !.was_suspended = FALSE]
        /\ v.failure = "none" /\ w \in Validator
    BY FailureTyped DEF accept_failure
  <1>2. PICK q, a : /\ q = IF v.state \in {"Quiesced", "AwaitRecoveryDisarmed", "RecoveryDisarmed"} THEN v.state
                           ELSE "FailedAwaitQuiesced"
                    /\ a = IF v.allowance = "awaiting" /\ f = "recovery" THEN "armed" ELSE v.allowance
    OBVIOUS
  <1>3. PICK b \in BOOLEAN : b = (v.state = "ReadyForGate" /\ ~(v.allowance = "awaiting" /\ f = "recovery"))
    OBVIOUS
  <1>4. w = [v EXCEPT !.superseded_gate = b, !.allowance = a, !.failure = f, !.state = q,
                      !.sig = "none", !.was_suspended = FALSE]
    BY <1>1, <1>2, <1>3
  <1>5. PICK u : u = [v EXCEPT !.superseded_gate = b, !.allowance = a, !.failure = f]
    OBVIOUS
  <1>6. w = [u EXCEPT !.state = q, !.sig = "none", !.was_suspended = FALSE]
    BY <1>4, <1>5
  <1>7. /\ u.superseded_gate = b /\ u.allowance = a /\ u.failure = f /\ u.window = v.window
        /\ u.started = v.started /\ u.gate_ever_opened = v.gate_ever_opened /\ u.cause = v.cause
        /\ DOMAIN u = DOMAIN v
    BY <1>5 DEF Validator
  <1>8. /\ w.superseded_gate = b /\ w.allowance = a /\ w.failure = f /\ w.window = v.window
        /\ w.started = v.started /\ w.gate_ever_opened = v.gate_ever_opened /\ w.cause = v.cause
        /\ w.state = q /\ w.sig = "none"
    BY <1>6, <1>7 DEF Validator
  <1>9. w.superseded_gate <=> (v.state = "ReadyForGate" /\ ~(v.allowance = "awaiting" /\ f = "recovery"))
    BY <1>3, <1>8
  <1> QED BY <1>1, <1>2, <1>8, <1>9

LEMMA FailureAccepted ==
  ASSUME NEW v, NEW f, v.failure = "none",
         v.state \notin {"AwaitLeaseBeforeStart", "AwaitStart", "Terminal", "FailedAwaitQuiesced"},
         v.state = "RecoveryDisarmed" => f = "worker",
         v.allowance = "inactive" \/ (v.allowance = "awaiting" /\ f = "recovery")
  PROVE  accept_failure(v, f) # {}
  BY DEF accept_failure

(* The answers that only move the state. *)
LEMMA MoveAccepted ==
  ASSUME NEW v, NEW e, NEW m \in EventMoves, v.state = m[1], e.kind = m[2]
  PROVE  AcceptEvent(v, e) # {} /\ \A w \in AcceptEvent(v, e) : w = [v EXCEPT !.state = m[3]]
  <1>1. /\ e.kind \notin {"Failed", "ChildStarted", "InputGateOpened", "SignalForwarded", "UsageExhausted",
                          "ChildrenReaped"}
        /\ ~(e.kind = "TerminalQuiesced" /\ NaturalExitStates(v))
    BY DEF EventMoves, NaturalExitStates
  <1>2. AcceptEvent(v, e) = {[v EXCEPT !.state = n[3]] :
                               n \in {n \in EventMoves : <<n[1], n[2]>> = <<v.state, e.kind>>}}
    BY <1>1 DEF AcceptEvent
  <1>3. \A n \in EventMoves : <<n[1], n[2]>> = <<v.state, e.kind>> => n[3] = m[3]
    BY DEF EventMoves
  <1>4. <<m[1], m[2]>> = <<v.state, e.kind>>
    OBVIOUS
  <1> QED BY <1>2, <1>3, <1>4

LEMMA AnswerResult ==
  ASSUME NEW v \in Validator, NEW e \in Event, NEW w \in AcceptEvent(v, e), w.state \in Opening
  PROVE  /\ w \in Validator /\ <<v.state, e.kind, w.state>> \in Answered
         /\ w.failure = v.failure /\ w.cause = v.cause /\ w.allowance = v.allowance
         /\ e.kind # "ChildStarted" => w.started = v.started
         /\ e.kind = "ChildStarted" => /\ w.started = v.started \cup {e.arg} /\ e.arg \in ChildRole
                                       /\ v.state = IF e.arg = "app" THEN "AwaitApp" ELSE "AwaitTui"
         /\ e.kind # "InputGateOpened" => w.gate_ever_opened = v.gate_ever_opened
         /\ e.kind = "InputGateOpened" => w.gate_ever_opened
         /\ e.kind = "SignalForwarded" => e.arg \in Interactive /\ v.sig = e.arg
                                            /\ w.state = IF v.was_suspended THEN "Suspended" ELSE "Active"
  <1>0. w \in Validator
    BY AcceptEventTyped
  <1>1. CASE e.kind = "Failed"
    <2>1. e.arg \in FailureKind /\ w \in accept_failure(v, e.arg)
      BY <1>1, EventFields DEF AcceptEvent
    <2>2. w.state \notin Opening
      BY <2>1, FailureRecord DEF Opening
    <2> QED BY <2>2
  <1>2. CASE e.kind = "ChildStarted" /\ v.state = (IF e.arg = "app" THEN "AwaitApp" ELSE "AwaitTui")
    <2>1. PICK q, r : /\ q = IF e.arg = "app" THEN "AwaitAppDescriptorVerification"
                             ELSE "AwaitTuiDescriptorVerification"
                      /\ r = v.started \cup {e.arg}
      OBVIOUS
    <2>2. w = [v EXCEPT !.started = r, !.state = q]
      BY <1>2, <2>1 DEF AcceptEvent
    <2>3. w.state = q /\ w.allowance = v.allowance /\ w.started = r /\ w.failure = v.failure /\ w.cause = v.cause
            /\ w.gate_ever_opened = v.gate_ever_opened
      BY <2>2 DEF Validator
    <2>4. <<v.state, e.kind, w.state>> \in Answered
      BY <1>2, <2>1, <2>3 DEF Answered
    <2>5. e.arg \in ChildRole
      BY <1>2, EventFields
    <2> QED BY <1>0, <1>2, <2>1, <2>3, <2>4, <2>5
  <1>3. CASE e.kind = "InputGateOpened" /\ v.state = "AwaitGateOpened"
    <2>1. w = [v EXCEPT !.state = "Active", !.gate_ever_opened = TRUE]
      BY <1>3 DEF AcceptEvent
    <2>2. w.state = "Active" /\ w.allowance = v.allowance /\ w.started = v.started /\ w.failure = v.failure
            /\ w.cause = v.cause /\ w.gate_ever_opened
      BY <2>1 DEF Validator
    <2> QED BY <1>0, <1>3, <2>2 DEF Answered
  <1>4. CASE e.kind = "SignalForwarded" /\ v.state = "AwaitSignalForwarded" /\ v.sig = e.arg
    <2>1. PICK q, x : /\ q = IF e.arg \notin Interactive THEN "AwaitQuiesced"
                             ELSE IF v.was_suspended THEN "Suspended" ELSE "Active"
                      /\ x = forwarded_cause(v, e.arg)
      OBVIOUS
    <2>2. w = [v EXCEPT !.sig = "none", !.was_suspended = FALSE, !.cause = x, !.state = q]
      BY <1>4, <2>1 DEF AcceptEvent
    <2>3. w.state = q /\ w.allowance = v.allowance /\ w.started = v.started /\ w.failure = v.failure /\ w.cause = x
            /\ w.gate_ever_opened = v.gate_ever_opened
      BY <2>2 DEF Validator
    <2>4. e.arg \in Interactive
      BY <2>1, <2>3 DEF Opening
    <2>5. x = v.cause
      BY <2>1, <2>4 DEF forwarded_cause
    <2>6. <<v.state, e.kind, w.state>> \in Answered
      BY <1>4, <2>1, <2>3, <2>4 DEF Answered
    <2> QED BY <1>0, <1>4, <2>1, <2>3, <2>4, <2>5, <2>6
  <1>5. CASE e.kind = "TerminalQuiesced" /\ NaturalExitStates(v)
    <2>1. PICK x : w = [v EXCEPT !.state = "Quiesced", !.sig = "none", !.cause = x]
      BY <1>5 DEF AcceptEvent
    <2>2. w.state = "Quiesced"
      BY <2>1 DEF Validator
    <2> QED BY <2>2 DEF Opening
  <1>6. CASE e.kind = "UsageExhausted" /\ v.state = "Active"
    <2>1. w = [v EXCEPT !.state = "AwaitQuiesced", !.cause = "usage"]
      BY <1>6 DEF AcceptEvent
    <2>2. w.state = "AwaitQuiesced"
      BY <2>1 DEF Validator
    <2> QED BY <2>2 DEF Opening
  <1>7. CASE e.kind = "ChildrenReaped" /\ v.state = "RecoveryDisarmed"
    <2>1. w = [v EXCEPT !.state = "Terminal", !.exit = e.arg]
      BY <1>7 DEF AcceptEvent
    <2>2. w.state = "Terminal"
      BY <2>1 DEF Validator
    <2> QED BY <2>2 DEF Opening
  <1>8. CASE /\ e.kind # "Failed"
             /\ ~(e.kind = "ChildStarted" /\ v.state = (IF e.arg = "app" THEN "AwaitApp" ELSE "AwaitTui"))
             /\ ~(e.kind = "InputGateOpened" /\ v.state = "AwaitGateOpened")
             /\ ~(e.kind = "SignalForwarded" /\ v.state = "AwaitSignalForwarded" /\ v.sig = e.arg)
             /\ ~(e.kind = "TerminalQuiesced" /\ NaturalExitStates(v))
             /\ ~(e.kind = "UsageExhausted" /\ v.state = "Active")
             /\ ~(e.kind = "ChildrenReaped" /\ v.state = "RecoveryDisarmed")
    <2>1. PICK m \in EventMoves : w = [v EXCEPT !.state = m[3]] /\ m[1] = v.state /\ m[2] = e.kind
      BY <1>8 DEF AcceptEvent
    <2>2. w.state = m[3] /\ SameHistory(w, v)
      BY <2>1, MovedRecord
    <2>3. /\ e.kind \notin {"ChildStarted", "InputGateOpened", "SignalForwarded"}
          /\ m[3] \in Opening => m \in Answered
      BY <2>1 DEF EventMoves, Answered, Opening
    <2>4. m = <<v.state, e.kind, w.state>>
      BY <2>1, <2>2 DEF EventMoves
    <2> QED BY <1>0, <2>2, <2>3, <2>4 DEF SameHistory
  <1> QED BY <1>1, <1>2, <1>3, <1>4, <1>5, <1>6, <1>7, <1>8

------------------------------------------------------------------------------
(* Crossing frames: the steps that exchange nothing *)

LEMMA CrossQuiet ==
  ASSUME CrossInv, UNCHANGED <<cv, gvars, up, down, refused>>, cpc \in Dead => cpc' \in Dead,
         cpc \in Dead \cup {"done"} => cpc' \in Dead \cup {"done"}, COpen' => COpen
  PROVE  CrossInv'
  <1>1. GuardianOnTrack' /\ ChildrenRecorded'
    BY DEF CrossInv, GuardianOnTrack, ChildrenRecorded, gvars, gshut, session
  <1>2. Recorded(gv)'
    BY DEF CrossInv, gvars
  <1>3. Synchronous'
    BY DEF CrossInv, Synchronous, InSync, gvars
  <1>4. CommandsCross'
    BY DEF CrossInv, CommandsCross, Crosses, gvars
  <1>5. FramesCross'
    <2>1. UNCHANGED <<cv, gv, up, down>>
      BY DEF gvars
    <2>2. Unheard' <=> Unheard
      BY <2>1 DEF Unheard, Announcement, Unaware, MayCross
    <2>3. (Forwarded' <=> Forwarded) /\ (Heard' <=> Heard)
      BY <2>1 DEF Forwarded, Heard, SameRecord
    <2>4. Restored' <=> Restored
      BY <2>1 DEF Restored, SameRecord, LastFrames, LateFailure
    <2> QED BY <2>1, <2>2, <2>3, <2>4 DEF CrossInv, FramesCross
  <1>6. Refused'
    BY DEF CrossInv, Refused, gvars
  <1> QED BY <1>1, <1>2, <1>3, <1>4, <1>5, <1>6 DEF CrossInv

LEMMA CrossHold ==
  ASSUME CrossInv, UNCHANGED <<cpc, cv, gv, up, down, refused>>, gbad => gbad', GuardianOnTrack', ChildrenRecorded'
  PROVE  CrossInv'
  <1>2. Recorded(gv)'
    BY DEF CrossInv
  <1>3. Synchronous'
    BY DEF CrossInv, Synchronous, InSync, COpen
  <1>4. CommandsCross'
    BY DEF CrossInv, CommandsCross, Crosses
  <1>5. FramesCross'
    <2>2. Unheard' <=> Unheard
      BY DEF Unheard, Announcement, Unaware, MayCross
    <2>3. (Forwarded' <=> Forwarded) /\ (Heard' <=> Heard)
      BY DEF Forwarded, Heard, SameRecord
    <2>4. Restored' <=> Restored
      BY DEF Restored, SameRecord, LastFrames, LateFailure
    <2> QED BY <2>2, <2>3, <2>4 DEF CrossInv, FramesCross
  <1>6. Refused'
    BY DEF CrossInv, Refused
  <1> QED BY <1>2, <1>3, <1>4, <1>5, <1>6 DEF CrossInv

(* The coordinator has closed its end: the guardian's transcript goes on    *)
(* alone, poisoned.                                                         *)
LEMMA CrossLost ==
  ASSUME CrossInv, UNCHANGED <<cpc, cv, refused>>, ~COpen, gbad', gpc' \notin Early \cup {"await"}, Recorded(gv)',
         gv'.failure = "recovery" => refused = {}
  PROVE  CrossInv'
  BY DEF CrossInv, GuardianOnTrack, ChildrenRecorded, Synchronous, CommandsCross, FramesCross, Refused, COpen, Dead

LEMMA CrossGivesUp ==
  ASSUME CrossInv, CPeerLost \/ CStarved \/ CDeadline \/ CRetain
  PROVE  CrossInv'
  <1>1. UNCHANGED <<cv, gvars, up, down, refused>> /\ cpc' \in Dead /\ (COpen' => COpen)
    BY DEF CPeerLost, CStarved, CDeadline, CRetain, CFail, CQuiet, wire, Dead, COpen, Receiving
  <1> QED BY <1>1, CrossQuiet

LEMMA CrossMoves ==
  ASSUME CrossInv, CEnterRaw \/ CStop \/ CPollIdle \/ CRestore \/ CFinish
  PROVE  CrossInv'
  <1>1. /\ UNCHANGED <<cv, gvars, up, down, refused>>
        /\ cpc \in {"ready", "resuming", "stopping", "poll", "restore", "wait"}
    BY DEF CEnterRaw, CStop, CPollIdle, CRestore, CFinish, CQuiet, wire
  <1> QED BY <1>1, CrossQuiet DEF Dead, COpen

LEMMA CrossOuter ==
  ASSUME CrossInv, ASteps \/ ATimeout \/ Environment, ~KillGuardian
  PROVE  CrossInv'
  <1>1. CASE AForce \/ KillCoordinator
    <2>1. UNCHANGED <<cv, gvars, up, down, refused>> /\ cpc' = "killed"
      BY <1>1 DEF AForce, KillCoordinator, AQuiet, wire
    <2> QED BY <2>1, CrossQuiet DEF Dead, COpen
  <1>2. CASE AContinue \/ KillAnchor
    <2>1. UNCHANGED <<cv, gvars, up, down, refused>> /\ (UNCHANGED cpc \/ (cpc = "stopped" /\ cpc' = "suspended"))
      BY <1>2 DEF AContinue, Emergency, KillAnchor, AQuiet, wire
    <2> QED BY <2>1, CrossQuiet DEF Dead, COpen
  <1>3. CASE \/ ARelayStop \/ ANotStopped \/ AFinish \/ APark \/ AEmergency \/ AContained \/ ATimeout
             \/ USignal \/ ASuspend
    <2>1. UNCHANGED <<cpc, cv, gvars, up, down, refused>>
      BY <1>3 DEF ARelayStop, ANotStopped, AFinish, APark, AEmergency, Emergency, AContained, ARestore, ATimeout,
                  USignal, ASuspend, AQuiet, cvars, wire
    <2> QED BY <2>1, CrossQuiet DEF Dead, COpen
  <1> QED BY <1>1, <1>2, <1>3 DEF ASteps, Environment

(* The guardian's own steps. *)
LEMMA TrackEnded ==
  ASSUME CrossInv, UNCHANGED <<gv, session, gcond>>, gbad => gbad', gpc' \in {"parked", "exited", "killed"}
  PROVE  GuardianOnTrack' /\ ChildrenRecorded'
  <1>1. gpc' \notin Early \cup {"await"}
    BY DEF Early, Bootstrap, Running
  <1> QED BY <1>1 DEF CrossInv, GuardianOnTrack, ChildrenRecorded, session

LEMMA CrossEnded ==
  ASSUME CrossInv, GInvalid \/ GPublish \/ KillGuardian
  PROVE  CrossInv'
  <1>1. /\ UNCHANGED <<cpc, cv, gv, gbad, session, gcond, up, down, refused>>
        /\ gpc' \in {"parked", "exited", "killed"}
    BY DEF GInvalid, GPublish, KillGuardian, Park, GExit, GQuiet, cvars, wire, gshut
  <1> QED BY <1>1, CrossHold, TrackEnded

LEMMA CrossNaturalExit ==
  ASSUME CrossInv, GNaturalExit
  PROVE  CrossInv'
  <1>1. /\ UNCHANGED <<cpc, cv, gv, gbad, session, up, down, refused>>
        /\ gpc = "active" /\ gpc' = "quiesce" /\ gend' = "natural" /\ gcond' = "healthy"
    BY DEF GNaturalExit, Shut, GQuiet, cvars, wire
  <1>2. ~gbad /\ gv.state = "Active"
    BY <1>1 DEF CrossInv, GuardianOnTrack, GuardianAt, Early, Running
  <1>3. GuardianOnTrack'
    BY <1>1, <1>2 DEF GuardianOnTrack, GuardianAt, Early, Bootstrap, Running
  <1>4. ChildrenRecorded'
    BY <1>1, <1>2 DEF CrossInv, ChildrenRecorded, session
  <1> QED BY <1>1, <1>3, <1>4, CrossHold

LEMMA CrossPoisoned ==
  ASSUME CrossInv, UNCHANGED <<cpc, cv, gv, up, down, refused>>, gbad', gpc' \notin Early \cup {"await"}
  PROVE  CrossInv'
  <1>1. GuardianOnTrack' /\ ChildrenRecorded'
    BY DEF GuardianOnTrack, ChildrenRecorded
  <1> QED BY <1>1, CrossHold

LEMMA CrossPeerLost ==
  ASSUME CrossInv, GPeerLost \/ GDeadline
  PROVE  CrossInv'
  <1>1. UNCHANGED <<cpc, cv, gv, up, down, refused>> /\ gbad' /\ gpc' = "quiesce"
    BY DEF GPeerLost, GDeadline, Shut, GQuiet, cvars, wire
  <1> QED BY <1>1, CrossPoisoned DEF Early, Bootstrap, Running

LEMMA CrossReap ==
  ASSUME SessionTypeOK, CrossInv, GReapTui \/ GStopApp \/ GQuiesceFails
  PROVE  CrossInv'
  <1>1. /\ UNCHANGED <<cpc, cv, gv, gbad, gcond, up, down, refused>> /\ gpc = "quiesce"
        /\ app \in {"none", "live", "gone"} /\ tui \in {"none", "live", "gone"}
    BY DEF GReapTui, GStopApp, GQuiesceFails, GQuiet, cvars, wire, gshut, SessionTypeOK
  <1>2. CASE gbad
    <2>1. gpc' \notin Early \cup {"await"}
      BY <1>1 DEF GReapTui, GStopApp, GQuiesceFails, Retain, Early, Bootstrap, Running
    <2>2. GuardianOnTrack' /\ ChildrenRecorded'
      BY <1>1, <1>2, <2>1 DEF GuardianOnTrack, ChildrenRecorded
    <2> QED BY <1>1, <2>2, CrossHold
  <1>3. CASE ~gbad
    <2>0. /\ <<"quiesce", gv.state>> \in GuardianAt /\ gcond = "healthy"
          /\ gv.started = {r \in ChildRole : (IF r = "app" THEN app ELSE tui) # "none"}
          /\ gv.failure = "none" => gend \in {"failure", IF gv.state = "Active" THEN "natural" ELSE gv.cause}
      BY <1>1, <1>3 DEF CrossInv, GuardianOnTrack, ChildrenRecorded
    <2>1. gv.started \in {{}, {"app"}, ChildRole}
      BY DEF CrossInv, Recorded
    <2>2. CASE GReapTui
      <3>1. gpc' = "quiesce" /\ tui = "live" /\ tui' = "gone" /\ UNCHANGED <<app, gend>>
        BY <1>1, <2>2 DEF GReapTui, gshut
      <3>2. gv'.started = {r \in ChildRole : (IF r = "app" THEN app' ELSE tui') # "none"}
        BY <1>1, <2>0, <3>1 DEF ChildRole
      <3>3. GuardianOnTrack'
        BY <1>1, <1>3, <2>0, <3>1 DEF GuardianOnTrack, Early, Bootstrap, Running
      <3>4. ChildrenRecorded'
        BY <1>1, <1>3, <2>0, <3>1, <3>2 DEF ChildrenRecorded
      <3> QED BY <1>1, <3>3, <3>4, CrossHold
    <2>3. CASE GStopApp
      <3>1. /\ gpc' = "quiet" /\ UNCHANGED tui /\ app' = IF app = "live" THEN "gone" ELSE app
            /\ gend' \in {gend, "failure"} /\ (worker' = "none" => app = "none" \/ tui = "none")
        BY <2>3 DEF GStopApp
      <3>2. gv'.started = {r \in ChildRole : (IF r = "app" THEN app' ELSE tui') # "none"}
        BY <1>1, <2>0, <3>1 DEF ChildRole
      <3>3. GuardianOnTrack'
        BY <1>1, <1>3, <2>0, <3>1 DEF GuardianOnTrack, GuardianAt, Early, Bootstrap, Running
      <3>4. worker' = "none" => tui' = "none"
        BY <2>0, <2>1, <3>1 DEF ChildRole
      <3>5. ChildrenRecorded'
        BY <1>1, <1>3, <2>0, <3>1, <3>2, <3>4 DEF ChildrenRecorded
      <3> QED BY <1>1, <3>3, <3>5, CrossHold
    <2>4. CASE GQuiesceFails
      <3>1. gpc' \in {"retained", "parked"} /\ stage' = "quiesce" /\ UNCHANGED <<session, gend>>
        BY <2>4 DEF GQuiesceFails, Retain
      <3>2. GuardianOnTrack'
        BY <1>1, <1>3, <2>0, <3>1 DEF GuardianOnTrack, Early, Bootstrap, Running
      <3>3. ChildrenRecorded'
        BY <1>1, <1>3, <2>0, <3>1 DEF ChildrenRecorded, session
      <3> QED BY <1>1, <3>2, <3>3, CrossHold
    <2> QED BY <2>2, <2>3, <2>4
  <1> QED BY <1>2, <1>3

LEMMA CrossFallback ==
  ASSUME CrossInv, GFallbackRestore \/ GRestoreDeadline \/ GRestoreStarved
  PROVE  CrossInv'
  <1>1. CASE GFallbackRestore
    <2>1. /\ UNCHANGED <<cpc, cv, gv, gbad, up, down, refused>> /\ gcond = "lost"
          /\ gpc' \in {"cleanup", "parked"}
      BY <1>1 DEF GFallbackRestore, Goto, Park, cvars, wire
    <2>2. gbad'
      BY <2>1 DEF CrossInv, GuardianOnTrack
    <2> QED BY <2>1, <2>2, CrossPoisoned DEF Early, Bootstrap, Running
  <1>2. CASE GRestoreDeadline \/ GRestoreStarved
    <2>1. UNCHANGED <<cpc, cv, gv, up, down, refused>> /\ gbad' /\ gpc' \in {"retained", "parked"}
      BY <1>2 DEF GRestoreDeadline, GRestoreStarved, RestoreDeadline, Retain, GQuiet, cvars, wire
    <2> QED BY <2>1, CrossPoisoned DEF Early, Bootstrap, Running
  <1> QED BY <1>1, <1>2

LEMMA CrossCleanup ==
  ASSUME CrossInv, GCleanup \/ GRetry
  PROVE  CrossInv'
  <1>1. /\ UNCHANGED <<cpc, cv, gv, gbad, session, gend, up, down, refused>> /\ gpc \in {"cleanup", "retained"}
        /\ gpc' \in {"disarm", "exited", "retained", "parked", "quiesce", "quiet", "cleanup"}
    BY DEF GCleanup, GRetry, Goto, GExit, Retain, GQuiet, cvars, wire, gshut
  <1>2. CASE gbad
    BY <1>1, <1>2, CrossPoisoned DEF Early, Bootstrap, Running
  <1>3. CASE ~gbad
    <2>1. gpc' \notin Early \cup {"await"}
      BY <1>1 DEF Early, Bootstrap, Running
    <2>2. gcond' = "healthy"
      BY <1>3 DEF CrossInv, GuardianOnTrack, GCleanup, GRetry, Goto, GExit, Retain, gshut
    <2>3. CASE GCleanup
      <3>1. gpc = "cleanup" /\ gv.state = "AwaitRecoveryDisarmed"
        BY <1>1, <1>3, <2>3 DEF CrossInv, GuardianOnTrack, GuardianAt, GCleanup
      <3>2. gpc' \in {"disarm", "exited", "parked"} \/ (gpc' = "retained" /\ stage' = "cleanup")
        BY <2>3 DEF GCleanup, Goto, GExit, Retain
      <3>3. GuardianOnTrack'
        BY <1>1, <1>3, <2>1, <2>2, <3>1, <3>2 DEF GuardianOnTrack, GuardianAt
      <3>4. ChildrenRecorded'
        BY <1>1, <1>3, <3>1, <3>2 DEF CrossInv, ChildrenRecorded, session
      <3> QED BY <1>1, <3>3, <3>4, CrossHold
    <2>4. CASE GRetry
      <3>1. /\ gpc = "retained"
            /\ \/ stage = "quiesce" /\ gpc' = "quiesce" /\ <<"quiesce", gv.state>> \in GuardianAt
               \/ stage = "cleanup" /\ gpc' = "cleanup" /\ gv.state = "AwaitRecoveryDisarmed"
        BY <1>3, <2>4 DEF CrossInv, GuardianOnTrack, GuardianAt, GRetry
      <3>3. GuardianOnTrack'
        BY <1>1, <1>3, <2>1, <2>2, <3>1 DEF GuardianOnTrack, GuardianAt
      <3>4. ChildrenRecorded'
        BY <1>1, <1>3, <3>1 DEF CrossInv, ChildrenRecorded, session
      <3> QED BY <1>1, <3>3, <3>4, CrossHold
    <2> QED BY <2>3, <2>4
  <1> QED BY <1>2, <1>3

------------------------------------------------------------------------------
(* Crossing frames: the guardian before the end *)

LEMMA EmitCases ==
  ASSUME NEW v, NEW e, GEmitFrom(v, e), ~gbad, AcceptEvent(v, e) # {}
  PROVE  /\ gv' \in AcceptEvent(v, e) /\ UNCHANGED refused
         /\ COpen => ~gbad' /\ down' = Append(down, e) /\ Emitted(v, e) = "healthy"
         /\ ~COpen => gbad' /\ UNCHANGED down /\ Emitted(v, e) = "lost"
  BY DEF GEmitFrom, Emitted

LEMMA EmitPoisoned ==
  ASSUME NEW v, NEW e, GEmitFrom(v, e), gbad
  PROVE  gbad' /\ gv' = v /\ UNCHANGED <<down, refused>> /\ Emitted(v, e) = "invalid"
  BY DEF GEmitFrom, Emitted

(* What the turns leave on the wire before the end. *)
LEMMA SyncIdle ==
  ASSUME SessionTypeOK, CrossInv, ~gbad,
         gv.state \in {"AwaitLeaseBeforeStart", "AwaitTerminalArmed", "AwaitApp", "AwaitTui", "AwaitReady"}
  PROVE  up = << >> /\ down = << >> /\ cv = gv /\ refused = {}
  <1>0. gv \in Validator /\ cv \in Validator /\ gv.state \in Opening
    BY TypedParts DEF Opening
  <1>1. InSync /\ refused = {}
    BY <1>0 DEF CrossInv, Synchronous
  <1>2. ASSUME NEW c \in Command, c.kind # "Stop", cv \in AcceptCommand(gv, c)
        PROVE  FALSE
    <2>1. <<gv.state, c.kind, cv.state>> \in Sent
      BY <1>0, <1>2, CommandResult
    <2> QED BY <2>1 DEF Sent
  <1>3. ASSUME NEW e \in Event, gv \in AcceptEvent(cv, e)
        PROVE  FALSE
    <2>1. <<cv.state, e.kind, gv.state>> \in Answered
      BY <1>0, <1>3, AnswerResult
    <2> QED BY <2>1 DEF Answered
  <1> QED BY <1>1, <1>2, <1>3 DEF InSync

LEMMA SyncAsked ==
  ASSUME SessionTypeOK, CrossInv, ~gbad, gv.state \in Opening, up # << >>
  PROVE  /\ Head(up) \in Command /\ Head(up).kind # "Stop" /\ Tail(up) = << >> /\ down = << >> /\ refused = {}
         /\ cv \in AcceptCommand(gv, Head(up)) /\ AcceptCommand(gv, Head(up)) = {cv}
         /\ SameHistory(cv, gv) /\ <<gv.state, Head(up).kind, cv.state>> \in Sent
         /\ Head(up).kind = "Signal" => cv.sig = Head(up).arg /\ (cv.was_suspended <=> gv.state = "Suspended")
  <1>0. gv \in Validator /\ cv \in Validator
    BY TypedParts
  <1>1. InSync /\ refused = {}
    BY DEF CrossInv, Synchronous
  <1>2. PICK c \in Command : c.kind # "Stop" /\ up = <<c>> /\ cv \in AcceptCommand(gv, c) /\ down = << >>
    BY <1>1 DEF InSync
  <1>3. Head(up) = c /\ Tail(up) = << >>
    BY <1>2
  <1>4. AcceptCommand(gv, c) = {cv}
    BY <1>2, CommandOnce
  <1>5. /\ SameHistory(cv, gv) /\ <<gv.state, c.kind, cv.state>> \in Sent
        /\ c.kind = "Signal" => cv.sig = c.arg /\ (cv.was_suspended <=> gv.state = "Suspended")
    BY <1>0, <1>2, CommandResult
  <1> QED BY <1>1, <1>2, <1>3, <1>4, <1>5

(* The guardian goes on before the end. *)
LEMMA CrossOpening ==
  ASSUME gv'.state \in Opening, InSync', refused' = {}, Recorded(gv)', ChildrenRecorded', GuardianOnTrack'
  PROVE  CrossInv'
  <1>1. gv'.state \notin {"FailedAwaitQuiesced", "AwaitQuiesced", "Quiesced"} \cup Winds
    BY DEF Opening, Winds
  <1>2. Synchronous' /\ FramesCross' /\ Refused'
    BY DEF Synchronous, FramesCross, Refused
  <1>3. CommandsCross'
    BY <1>1 DEF CommandsCross
  <1> QED BY <1>2, <1>3 DEF CrossInv

LEMMA EarlyOnTrack ==
  ASSUME gpc' \in Early, ~gbad', gcond' = "healthy", <<gpc', gv'.state>> \in GuardianAt,
         gv'.started = {r \in ChildRole : (IF r = "app" THEN app' ELSE tui') # "none"}
  PROVE  GuardianOnTrack' /\ ChildrenRecorded'
  BY DEF GuardianOnTrack, ChildrenRecorded, Early, Bootstrap, Running

LEMMA EarlyAt ==
  ASSUME CrossInv, gpc \in Early
  PROVE  ~gbad /\ gcond = "healthy" /\ <<gpc, gv.state>> \in GuardianAt /\ gv.state \in Opening
           /\ gv.started = {r \in ChildRole : (IF r = "app" THEN app ELSE tui) # "none"}
  <1>1. ~gbad /\ gcond = "healthy" /\ <<gpc, gv.state>> \in GuardianAt
    BY DEF CrossInv, GuardianOnTrack, Early, Bootstrap, Running
  <1>2. gv.state \in Opening
    BY <1>1 DEF GuardianAt, Early, Bootstrap, Running, Opening
  <1> QED BY <1>1, <1>2 DEF CrossInv, ChildrenRecorded

(* What an answer leaves recorded. *)
LEMMA RecordedAnswered ==
  ASSUME NEW v \in Validator, NEW e \in Event, NEW w \in AcceptEvent(v, e), w.state \in Opening,
         v.failure = "none", v.cause = "none", v.allowance = "inactive",
         \/ Recorded(v)
         \/ v.state \in Asking /\ v.started = ChildRole /\ (v.state # "AwaitGateOpened" => v.gate_ever_opened)
  PROVE  Recorded(w)
  <1>1. /\ <<v.state, e.kind, w.state>> \in Answered /\ w \in Validator
        /\ w.failure = "none" /\ w.cause = "none" /\ w.allowance = "inactive"
        /\ e.kind # "ChildStarted" => w.started = v.started
        /\ e.kind = "ChildStarted" => /\ w.started = v.started \cup {e.arg} /\ e.arg \in ChildRole
                                      /\ v.state = IF e.arg = "app" THEN "AwaitApp" ELSE "AwaitTui"
        /\ e.kind # "InputGateOpened" => w.gate_ever_opened = v.gate_ever_opened
        /\ e.kind = "InputGateOpened" => w.gate_ever_opened
    BY AnswerResult
  <1>2. /\ w.state \in LifecycleState \ Asking
        /\ w.state \notin {"FailedAwaitQuiesced", "AwaitQuiesced", "Quiesced"}
    BY <1>1 DEF Opening, Asking, Validator
  <1>3. /\ w.state \in {"AwaitStart", "AwaitTerminalArmAcceptance"} => w.started = {}
        /\ w.state = "AwaitAppDescriptorVerification" => w.started = {"app"}
        /\ w.state \in {"AwaitTuiDescriptorVerification", "ReadyForGate", "Active", "Suspended"} => w.started = ChildRole
        /\ w.state \in {"Active", "Suspended"} => w.gate_ever_opened
        /\ w.state \in {"AwaitStart", "AwaitTerminalArmAcceptance", "AwaitAppDescriptorVerification",
                        "AwaitTuiDescriptorVerification", "ReadyForGate", "Active", "Suspended"}
    BY <1>1 DEF Answered, Recorded, Asking, ChildRole
  <1> QED BY <1>1, <1>2, <1>3 DEF Recorded, Asking, Opening

(* What a command that is served leaves recorded. *)
LEMMA RecordedSent ==
  ASSUME NEW v \in Validator, Recorded(v), v.state \in Opening, NEW w \in Validator, SameHistory(w, v), NEW k,
         <<v.state, k, w.state>> \in Sent
  PROVE  /\ w.failure = "none" /\ w.cause = "none" /\ w.allowance = "inactive"
         /\ w.state \in Asking => w.started = ChildRole /\ (w.state # "AwaitGateOpened" => w.gate_ever_opened)
         /\ w.state \in Opening => Recorded(w)
         /\ w.state \in Asking \cup Opening
  <1>1. v.failure = "none" /\ v.cause = "none" /\ v.allowance = "inactive"
    BY DEF Recorded, Opening
  <1>2. w.failure = "none" /\ w.cause = "none" /\ w.allowance = "inactive" /\ w.started = v.started
          /\ w.gate_ever_opened = v.gate_ever_opened
    BY <1>1 DEF SameHistory
  <1>3. w.state \in {"AwaitTerminalArmed", "AwaitApp", "AwaitTui", "AwaitReady"} \cup Asking
    BY DEF Sent, Asking
  <1>4. w.state \in Asking => w.started = ChildRole /\ (w.state # "AwaitGateOpened" => w.gate_ever_opened)
    BY <1>2 DEF Sent, Asking, Recorded
  <1>5. /\ w.state \in {"AwaitTerminalArmed", "AwaitApp"} => w.started = {}
        /\ w.state = "AwaitTui" => w.started = {"app"}
        /\ w.state = "AwaitReady" => w.started = ChildRole
    BY <1>2 DEF Sent, Recorded
  <1>6. w.state \in Opening => Recorded(w)
    BY <1>2, <1>3, <1>5 DEF Recorded, Opening, Asking, LifecycleState, ChildRole
  <1> QED BY <1>2, <1>3, <1>4, <1>6 DEF Opening

(* An answer, or a step of the startup, is told. *)
LEMMA CrossTell ==
  ASSUME SessionTypeOK, CrossInv, UNCHANGED <<cpc, cv>>, ~gbad, NEW e \in Event, GEmitFrom(cv, e), AcceptEvent(cv, e) # {},
         \A w \in AcceptEvent(cv, e) : w.state \in Opening /\ Recorded(w),
         up' = << >>, down = << >>, refused = {},
         COpen => GuardianOnTrack' /\ ChildrenRecorded',
         ~COpen => gpc' \notin Early \cup {"await"}
  PROVE  CrossInv'
  <1>1. gv' \in AcceptEvent(cv, e) /\ refused' = {} /\ gv'.state \in Opening /\ Recorded(gv)'
    BY EmitCases
  <1>2. CASE COpen
    <2>1. down' = <<e>>
      BY <1>2, EmitCases
    <2>2. InSync'
      BY <1>1, <2>1 DEF InSync
    <2> QED BY <1>1, <1>2, <2>2, CrossOpening
  <1>3. CASE ~COpen
    <2>1. gbad'
      BY <1>3, EmitCases
    <2> QED BY <1>1, <1>3, <2>1, CrossLost
  <1> QED BY <1>2, <1>3

LEMMA CrossBootEmit ==
  ASSUME SessionTypeOK, CrossInv, GBootEmit
  PROVE  CrossInv'
  <1>1. UNCHANGED <<cpc, cv, up, session>> /\ gpc \in {"lease", "arm"} /\ gv \in Validator
    BY TypedParts DEF GBootEmit, GQuiet, cvars
  <1>2. ~gbad /\ gcond = "healthy" /\ <<gpc, gv.state>> \in GuardianAt
          /\ gv.started = {r \in ChildRole : (IF r = "app" THEN app ELSE tui) # "none"}
    BY <1>1, EarlyAt DEF Early, Bootstrap
  <1>3. gv.state = IF gpc = "lease" THEN "AwaitLeaseBeforeStart" ELSE "AwaitTerminalArmed"
    BY <1>1, <1>2 DEF GuardianAt
  <1>4. up = << >> /\ down = << >> /\ cv = gv /\ refused = {}
    BY <1>2, <1>3, SyncIdle
  <1>5. PICK e \in Event : /\ e = Plain(IF gpc = "lease" THEN "LeaseCommitted" ELSE "TerminalArmed")
                           /\ e.kind = IF gpc = "lease" THEN "LeaseCommitted" ELSE "TerminalArmed"
    BY PlainEvents
  <1>6. PICK m \in EventMoves : /\ m[1] = gv.state /\ m[2] = e.kind
                                /\ m[3] = IF gpc = "lease" THEN "AwaitStart" ELSE "AwaitTerminalArmAcceptance"
    BY <1>1, <1>3, <1>5 DEF EventMoves
  <1>7. AcceptEvent(gv, e) # {} /\ \A w \in AcceptEvent(gv, e) : w = [gv EXCEPT !.state = m[3]]
    BY <1>6, MoveAccepted
  <1>8. ASSUME NEW w \in AcceptEvent(gv, e)
        PROVE  w.state = m[3] /\ w.state \in Opening /\ Recorded(w) /\ w.started = gv.started
    <2>1. w.state = m[3] /\ SameHistory(w, gv)
      BY <1>1, <1>7, MovedRecord
    <2>2. w.state \in Opening
      BY <1>6, <2>1 DEF Opening
    <2>3. Recorded(gv) /\ gv.failure = "none" /\ gv.cause = "none" /\ gv.allowance = "inactive"
      BY <1>3 DEF CrossInv, Recorded, Opening
    <2> QED BY <1>1, <2>1, <2>2, <2>3, RecordedAnswered DEF SameHistory
  <1>9. GEmitFrom(gv, e)
    BY <1>5 DEF GBootEmit
  <1>10. ASSUME COpen
         PROVE  GuardianOnTrack' /\ ChildrenRecorded'
    <2>1. gv' \in AcceptEvent(gv, e) /\ ~gbad' /\ Emitted(gv, e) = "healthy"
      BY <1>2, <1>7, <1>9, <1>10, EmitCases
    <2>2. gpc' = (IF gpc = "lease" THEN "start" ELSE "armed") /\ UNCHANGED gshut
      BY <1>5, <2>1 DEF GBootEmit, Goto
    <2>3. gpc' \in Early /\ <<gpc', gv'.state>> \in GuardianAt /\ gcond' = "healthy"
      BY <1>1, <1>2, <1>6, <1>8, <2>1, <2>2 DEF GuardianAt, Early, Bootstrap, gshut
    <2>4. gv'.started = {r \in ChildRole : (IF r = "app" THEN app' ELSE tui') # "none"}
      BY <1>1, <1>2, <1>8, <2>1 DEF session
    <2> QED BY <2>1, <2>3, <2>4, EarlyOnTrack
  <1>11. ASSUME ~COpen
         PROVE  gpc' \notin Early \cup {"await"}
    <2>1. Emitted(gv, e) = "lost"
      BY <1>2, <1>7, <1>9, <1>11, EmitCases
    <2>2. gpc' = "exited"
      BY <1>5, <2>1 DEF GBootEmit, GExit
    <2> QED BY <2>2 DEF Early, Bootstrap, Running
  <1> QED BY <1>1, <1>2, <1>4, <1>7, <1>8, <1>9, <1>10, <1>11, CrossTell

(* A command of the startup is read: the transcripts are one again. *)
BootReads == {<<"start", "arm">>, <<"armed", "app">>, <<"vapp", "tui">>, <<"vtui", "ready">>}

LEMMA CrossRead ==
  ASSUME SessionTypeOK, CrossInv, <<gpc, gpc'>> \in BootReads, up # << >>, gv' \in AcceptCommand(gv, Head(up)), up' = Tail(up),
         UNCHANGED <<cpc, cv, gbad, session, gshut, down, refused>>
  PROVE  CrossInv'
  <1>1. gpc \in Early /\ gpc' \in Early /\ gv \in Validator /\ cv \in Validator
    BY TypedParts DEF BootReads, Early, Bootstrap, Running
  <1>2. ~gbad /\ gcond = "healthy" /\ <<gpc, gv.state>> \in GuardianAt /\ gv.state \in Opening
          /\ gv.started = {r \in ChildRole : (IF r = "app" THEN app ELSE tui) # "none"}
    BY <1>1, EarlyAt
  <1>3. /\ Tail(up) = << >> /\ down = << >> /\ refused = {} /\ AcceptCommand(gv, Head(up)) = {cv}
        /\ SameHistory(cv, gv) /\ <<gv.state, Head(up).kind, cv.state>> \in Sent
    BY <1>2, SyncAsked
  <1>4. gv' = cv /\ InSync' /\ refused' = {}
    BY <1>3 DEF InSync
  <1>5. <<gpc', cv.state>> \in GuardianAt /\ cv.state \in Opening
    BY <1>2, <1>3 DEF BootReads, GuardianAt, Sent, Opening
  <1>6. Recorded(cv)
    BY <1>1, <1>2, <1>3, <1>5, RecordedSent DEF CrossInv
  <1>7. gv'.started = {r \in ChildRole : (IF r = "app" THEN app' ELSE tui') # "none"}
    BY <1>2, <1>3, <1>4 DEF SameHistory, session
  <1>8. GuardianOnTrack' /\ ChildrenRecorded'
    BY <1>1, <1>2, <1>4, <1>5, <1>7, EarlyOnTrack DEF gshut
  <1>9. Recorded(gv)'
    BY <1>4, <1>6
  <1> QED BY <1>4, <1>5, <1>8, <1>9, CrossOpening

LEMMA CrossBootReceive ==
  ASSUME SessionTypeOK, CrossInv, GBootReceive
  PROVE  CrossInv'
  <1>1. UNCHANGED <<cpc, cv, session, down, refused, gbad>> /\ gpc \in {"start", "armed"}
    BY DEF GBootReceive, GQuiet, cvars
  <1>2. CASE gpc' = "exited"
    <2>1. UNCHANGED <<gv, up, gcond>>
      BY <1>2 DEF GBootReceive, GExit, Goto
    <2> QED BY <1>1, <1>2, <2>1, TrackEnded, CrossHold
  <1>3. CASE gpc' # "exited"
    <2>1. /\ up # << >> /\ gv' \in AcceptCommand(gv, Head(up)) /\ up' = Tail(up)
          /\ gpc' = (IF gpc = "start" THEN "arm" ELSE "app") /\ UNCHANGED gshut
      BY <1>3 DEF GBootReceive, GExit, Goto
    <2> QED BY <1>1, <2>1, CrossRead DEF BootReads
  <1> QED BY <1>2, <1>3

LEMMA CrossVerified ==
  ASSUME SessionTypeOK, CrossInv, GVerified
  PROVE  CrossInv'
  <1>1. UNCHANGED <<cpc, cv, session>> /\ gpc \in {"vapp", "vtui"} /\ up # << >> /\ up' = Tail(up)
    BY DEF GVerified, GQuiet, cvars
  <1>2. ~gbad /\ gv.state \in Opening
    BY <1>1, EarlyAt DEF Early, Running
  <1>3. AcceptCommand(gv, Head(up)) # {}
    BY <1>1, <1>2, SyncAsked
  <1>4. /\ gv' \in AcceptCommand(gv, Head(up)) /\ gpc' = (IF gpc = "vapp" THEN "tui" ELSE "ready")
        /\ UNCHANGED <<gshut, gbad, down, refused>>
    BY <1>3 DEF GVerified, Goto
  <1> QED BY <1>1, <1>4, CrossRead DEF BootReads

(* A child is running, or the session is ready. *)
LEMMA CrossStarted ==
  ASSUME SessionTypeOK, CrossInv, GReady \/ (GStartChild /\ app' # app) \/ (GStartChild /\ tui' # tui)
  PROVE  CrossInv'
  <1> DEFINE k == IF gpc = "ready" THEN "Ready" ELSE "ChildStarted"
             a == IF gpc = "ready" THEN "none" ELSE gpc
  <1>1. UNCHANGED <<cpc, cv, up>> /\ gpc \in {"app", "tui", "ready"} /\ gv \in Validator
    BY TypedParts DEF GReady, GStartChild, GQuiet, cvars, ChildRole
  <1>2. ~gbad /\ gcond = "healthy" /\ <<gpc, gv.state>> \in GuardianAt
          /\ gv.started = {r \in ChildRole : (IF r = "app" THEN app ELSE tui) # "none"}
    BY <1>1, EarlyAt DEF Early, Running
  <1>3. gv.state = CASE gpc = "app" -> "AwaitApp" [] gpc = "tui" -> "AwaitTui" [] OTHER -> "AwaitReady"
    BY <1>1, <1>2 DEF GuardianAt
  <1>4. up = << >> /\ down = << >> /\ cv = gv /\ refused = {}
    BY <1>1, <1>2, <1>3, SyncIdle
  <1>5. PICK e \in Event : e.kind = k /\ (gpc # "ready" => e.arg = gpc) /\ e = Frame(k, a)
    <2>1. CASE gpc = "ready"
      BY <2>1, PlainEvents DEF Plain
    <2>2. CASE gpc # "ready"
      BY <1>1, <2>2, PlainEvents DEF ChildRole, Frame
    <2> QED BY <2>1, <2>2
  <1> HIDE DEF k, a
  <1>6. /\ AcceptEvent(gv, e) # {}
        /\ \A w \in AcceptEvent(gv, e) :
             /\ w.state = CASE gpc = "app" -> "AwaitAppDescriptorVerification"
                            [] gpc = "tui" -> "AwaitTuiDescriptorVerification" [] OTHER -> "ReadyForGate"
             /\ w.started = IF gpc = "ready" THEN gv.started ELSE gv.started \cup {gpc}
    <2>1. CASE gpc = "ready"
      <3>1. PICK m \in EventMoves : m[1] = gv.state /\ m[2] = e.kind /\ m[3] = "ReadyForGate"
        BY <1>3, <1>5, <2>1 DEF EventMoves, k
      <3>2. AcceptEvent(gv, e) # {} /\ \A w \in AcceptEvent(gv, e) : w = [gv EXCEPT !.state = m[3]]
        BY <3>1, MoveAccepted
      <3> QED BY <1>1, <2>1, <3>1, <3>2, MovedRecord DEF SameHistory
    <2>2. CASE gpc # "ready"
      <3>1. PICK q : q = IF e.arg = "app" THEN "AwaitAppDescriptorVerification" ELSE "AwaitTuiDescriptorVerification"
        OBVIOUS
      <3>2. e.kind = "ChildStarted" /\ e.arg = gpc /\ gv.state = IF e.arg = "app" THEN "AwaitApp" ELSE "AwaitTui"
        BY <1>1, <1>3, <1>5, <2>2 DEF k
      <3>3. AcceptEvent(gv, e) = {[gv EXCEPT !.started = @ \cup {e.arg}, !.state = q]}
        BY <3>1, <3>2 DEF AcceptEvent
      <3>4. PICK t : t = gv.started \cup {e.arg}
        OBVIOUS
      <3>5. AcceptEvent(gv, e) = {[gv EXCEPT !.started = t, !.state = q]}
        BY <3>3, <3>4
      <3>6. \A w \in AcceptEvent(gv, e) : w.started = t /\ w.state = q
        BY <1>1, <3>5 DEF Validator
      <3> QED BY <1>1, <2>2, <3>1, <3>2, <3>4, <3>5, <3>6
    <2> QED BY <2>1, <2>2
  <1>7. ASSUME NEW w \in AcceptEvent(gv, e)
        PROVE  w.state \in Opening /\ Recorded(w)
    <2>1. w.state \in Opening
      BY <1>1, <1>6 DEF Opening
    <2>2. Recorded(gv) /\ gv.failure = "none" /\ gv.cause = "none" /\ gv.allowance = "inactive"
      BY <1>1, <1>3 DEF CrossInv, Recorded, Opening
    <2> QED BY <1>1, <2>1, <2>2, RecordedAnswered
  <1>8. /\ GEmitFrom(gv, e)
        /\ Emitted(gv, e) = "healthy" => /\ UNCHANGED gshut
                                         /\ gpc' = CASE gpc = "app" -> "vapp" [] gpc = "tui" -> "vtui" [] OTHER -> "gate"
        /\ Emitted(gv, e) # "healthy" => gpc' = "quiesce"
        /\ app' = IF gpc = "app" THEN "live" ELSE app
        /\ tui' = IF gpc = "tui" THEN "live" ELSE tui
    <2>1. CASE GReady
      <3>1. gpc = "ready" /\ e = Plain("Ready")
        BY <1>5, <2>1 DEF GReady, k, a, Plain
      <3> QED BY <2>1, <3>1 DEF GReady, Goto, Shut, session
    <2>2. CASE GStartChild /\ (app' # app \/ tui' # tui)
      <3>1. gpc \in {"app", "tui"} /\ e = Frame("ChildStarted", gpc)
        BY <1>5, <2>2 DEF GStartChild, ChildRole, k, a
      <3> QED BY <2>2, <3>1 DEF GStartChild, Goto, Shut
    <2> QED BY <2>1, <2>2
  <1>9. ASSUME COpen
        PROVE  GuardianOnTrack' /\ ChildrenRecorded'
    <2>1. gv' \in AcceptEvent(gv, e) /\ ~gbad' /\ Emitted(gv, e) = "healthy"
      BY <1>2, <1>6, <1>8, <1>9, EmitCases
    <2>3. gpc' \in Early /\ <<gpc', gv'.state>> \in GuardianAt /\ gcond' = "healthy"
      BY <1>1, <1>2, <1>6, <1>8, <2>1 DEF GuardianAt, Early, Running, gshut
    <2>4. gv'.started = IF gpc = "ready" THEN gv.started ELSE gv.started \cup {gpc}
      BY <1>6, <2>1
    <2>5. gv'.started = {r \in ChildRole : (IF r = "app" THEN app' ELSE tui') # "none"}
      BY <1>1, <1>2, <1>8, <2>4 DEF ChildRole
    <2> QED BY <2>1, <2>3, <2>5, EarlyOnTrack
  <1>10. ASSUME ~COpen
         PROVE  gpc' \notin Early \cup {"await"}
    <2>1. Emitted(gv, e) = "lost"
      BY <1>2, <1>6, <1>8, <1>10, EmitCases
    <2> QED BY <1>8, <2>1 DEF Early, Bootstrap, Running
  <1> QED BY <1>1, <1>2, <1>4, <1>6, <1>7, <1>8, <1>9, <1>10, CrossTell

------------------------------------------------------------------------------
(* Crossing frames: the end is announced *)

LEMMA TwoFrames ==
  ASSUME NEW S, NEW x \in S, NEW y \in S
  PROVE  /\ Append(<< >>, x) = <<x>> /\ Append(<<x>>, y) = <<x, y>>
         /\ Head(<<x>>) = x /\ Tail(<<x>>) = << >> /\ Head(<<x, y>>) = x /\ Tail(<<x, y>>) = <<y>>
         /\ <<x>> # << >> /\ <<x, y>> # << >>
  <1>1. <<x>> \in Seq(S) /\ Len(<<x>>) = 1 /\ <<x>>[1] = x
    OBVIOUS
  <1>2. /\ Append(<<x>>, y) \in Seq(S) /\ Len(Append(<<x>>, y)) = 2
        /\ Append(<<x>>, y)[2] = y /\ Append(<<x>>, y)[1] = x
    BY <1>1
  <1>3. <<x, y>> \in Seq(S) /\ Len(<<x, y>>) = 2 /\ <<x, y>>[1] = x /\ <<x, y>>[2] = y
    OBVIOUS
  <1>4. \A s, t \in Seq(S) : Len(s) = 2 /\ Len(t) = 2 /\ s[1] = t[1] /\ s[2] = t[2] => s = t
    OBVIOUS
  <1>5. Append(<<x>>, y) = <<x, y>>
    BY <1>2, <1>3, <1>4
  <1>6. /\ Append(<< >>, x) = <<x>>
        /\ Head(<<x>>) = x /\ Tail(<<x>>) = << >> /\ Head(<<x, y>>) = x /\ Tail(<<x, y>>) = <<y>>
        /\ <<x>> # << >> /\ <<x, y>> # << >>
    OBVIOUS
  <1> QED BY <1>5, <1>6

LEMMA BehindFrames ==
  ASSUME NEW S, NEW s \in Seq(S), s # << >>, NEW x \in S
  PROVE  Head(Append(s, x)) = Head(s) /\ Tail(Append(s, x)) = Append(Tail(s), x) /\ Append(s, x) # << >>
  OBVIOUS

LEMMA CrossAnnounce ==
  ASSUME SessionTypeOK, CrossInv, ~gbad, gv.state \in Window \cup Reporting, UNCHANGED <<cpc, cv, up, refused>>,
         NEW a \in Event, down' = Append(down, a), Announcement(<<a>>)',
         NEW q, gv.state = q, q \in Window => MayCross(q)',
         gv'.started = gv.started, gv'.gate_ever_opened = gv.gate_ever_opened,
         gv'.failure = "none" => gv.state = "Active", gv'.state \notin Opening, Recorded(gv)',
         GuardianOnTrack', ChildrenRecorded'
  PROVE  CrossInv'
  <1>0. gv \in Validator /\ cv \in Validator /\ gv.state \in Opening /\ refused = {} /\ InSync
    BY TypedParts DEF CrossInv, Synchronous, Opening, Window, Reporting
  <1>1. gv.failure = "none" /\ gv.cause = "none" /\ gv.allowance = "inactive"
    BY <1>0 DEF CrossInv, Recorded, Opening
  <1>2. gv'.state \notin Winds
    BY DEF Announcement, Winds
  <1>5. CASE up = << >> /\ down = << >> /\ cv = gv
    <2>1. down' = <<a>> /\ up' = << >>
      BY <1>5
    <2>2. Unaware(cv)'
      BY <1>1, <1>5 DEF Unaware, MayCross
    <2>3. Unheard'
      BY <2>1, <2>2 DEF Unheard
    <2>4. CommandsCross' /\ FramesCross' /\ Refused' /\ Synchronous'
      BY <1>0, <1>2, <2>1, <2>3 DEF CommandsCross, FramesCross, Refused, Synchronous
    <2> QED BY <2>4 DEF CrossInv
  <1>6. CASE \E c \in Command : down = << >> /\ c.kind # "Stop" /\ up = <<c>> /\ cv \in AcceptCommand(gv, c)
    <2>1. PICK c \in Command : down = << >> /\ c.kind # "Stop" /\ up = <<c>> /\ cv \in AcceptCommand(gv, c)
      BY <1>6
    <2>2. /\ SameHistory(cv, gv) /\ <<gv.state, c.kind, cv.state>> \in Sent
          /\ c.kind = "Signal" => (cv.was_suspended <=> gv.state = "Suspended")
      BY <1>0, <2>1, CommandResult
    <2>3. /\ cv.state \in Asking /\ cv.state \notin Window
          /\ gv.state \in Window /\ <<gv.state, c.kind>> \in RecoveryRace
          /\ c.kind \in {"OpenInputGate", "Signal", "Resize", "Suspend", "Resume"}
          /\ c.kind = "OpenInputGate" => gv.state = "ReadyForGate"
          /\ gv.state = "Active" => cv.state \in {"AwaitSignalForwarded", "AwaitResizeApplied", "AwaitSuspended"}
          /\ cv.state = "AwaitSignalForwarded" => c.kind = "Signal"
      BY <2>2 DEF Sent, Window, Reporting, Asking, RecoveryRace
    <2>4. down' = <<a>> /\ up' = <<c>>
      BY <2>1
    <2>5. Unaware(cv)'
      BY <1>1, <2>2, <2>3 DEF Unaware, SameHistory
    <2>6. Unheard'
      BY <2>3, <2>4, <2>5 DEF Unheard
    <2>7. Crosses(c)'
      BY <2>3 DEF Crosses, MayCross
    <2>8. CommandsCross'
      BY <1>2, <2>4, <2>7 DEF CommandsCross
    <2>9. FramesCross' /\ Refused' /\ Synchronous'
      BY <1>0, <2>6 DEF FramesCross, Refused, Synchronous
    <2> QED BY <2>8, <2>9 DEF CrossInv
  <1>7. CASE \E e \in Event : up = << >> /\ down = <<e>> /\ gv \in AcceptEvent(cv, e)
    <2>1. PICK e \in Event : up = << >> /\ down = <<e>> /\ gv \in AcceptEvent(cv, e)
      BY <1>7
    <2>2. <<cv.state, e.kind, gv.state>> \in Answered
      BY <1>0, <2>1, AnswerResult
    <2>3. gv.state \in Window
      BY <2>2 DEF Answered, Window, Reporting
    <2>4. down' = <<e, a>> /\ up' = << >> /\ Head(down)' = e /\ Tail(down)' = <<a>>
      <3>1. Append(<<e>>, a) = <<e, a>> /\ Head(<<e, a>>) = e /\ Tail(<<e, a>>) = <<a>>
        BY TwoFrames
      <3> QED BY <2>1, <3>1
    <2>5. AcceptEvent(cv, e) = {gv}
      BY <2>1, EventOnce
    <2>6. ASSUME NEW w, w = gv
          PROVE  Unaware(w)' /\ w.state \in Window
      BY <1>1, <2>3, <2>6 DEF Unaware, MayCross
    <2>7. \A w \in AcceptEvent(cv, Head(down))' : Unaware(w)' /\ w.state \in Window
      BY <2>4, <2>5, <2>6
    <2>8. Unheard'
      BY <2>4, <2>5, <2>7 DEF Unheard
    <2>9. CommandsCross' /\ FramesCross' /\ Refused' /\ Synchronous'
      BY <1>0, <1>2, <2>4, <2>8 DEF CommandsCross, FramesCross, Refused, Synchronous
    <2> QED BY <2>9 DEF CrossInv
  <1> QED BY <1>0, <1>5, <1>6, <1>7 DEF InSync

LEMMA FailedFrame ==
  ASSUME NEW f \in FailureKind
  PROVE  /\ Failed(f) \in Event /\ Failed(f).kind = "Failed" /\ Failed(f).arg = f
         /\ \A v : AcceptEvent(v, Failed(f)) = accept_failure(v, f)
  <1>1. Failed(f) \in Event /\ Failed(f).kind = "Failed" /\ Failed(f).arg = f
    BY PlainEvents DEF Failed, Frame
  <1> QED BY <1>1 DEF AcceptEvent

(* A transcript that fails before the end: what it records. *)
LEMMA RecordedFailure ==
  ASSUME NEW v \in Validator, v.started \in {{}, {"app"}, ChildRole}, v.failure = "none", v.cause = "none",
         NEW f \in {"other", "recovery"}, NEW w \in accept_failure(v, f),
         v.allowance = (IF f = "recovery" THEN "awaiting" ELSE "inactive"),
         v.state \notin {"Quiesced", "AwaitRecoveryDisarmed", "RecoveryDisarmed"}
  PROVE  /\ Recorded(w) /\ w.state = "FailedAwaitQuiesced" /\ w.failure = f /\ w.cause = "none"
         /\ w.started = v.started /\ w.gate_ever_opened = v.gate_ever_opened
         /\ w.allowance = (IF f = "recovery" THEN "armed" ELSE "inactive") /\ w.window = v.window
         /\ w.superseded_gate <=> (v.state = "ReadyForGate" /\ f # "recovery")
  <1>1. f \in FailureKind
    BY DEF FailureKind
  <1>2. /\ w.state = "FailedAwaitQuiesced" /\ w.failure = f /\ w.cause = "none"
        /\ w.started = v.started /\ w.gate_ever_opened = v.gate_ever_opened /\ w.window = v.window
        /\ w.allowance = (IF f = "recovery" THEN "armed" ELSE "inactive")
        /\ w.superseded_gate <=> (v.state = "ReadyForGate" /\ f # "recovery")
    BY <1>1, FailureRecord
  <1>3. Recorded(w)
    BY <1>2 DEF Recorded, Opening, LifecycleState
  <1> QED BY <1>2, <1>3

LEMMA ShutOnTrack ==
  ASSUME gpc' = "quiesce", ~gbad', gcond' = "healthy", gv'.state \in {"FailedAwaitQuiesced", "AwaitQuiesced"},
         gv'.started = {r \in ChildRole : (IF r = "app" THEN app' ELSE tui') # "none"},
         gv'.failure = "none" => gend' = gv'.cause
  PROVE  GuardianOnTrack' /\ ChildrenRecorded'
  BY DEF GuardianOnTrack, ChildrenRecorded, GuardianAt, Early, Bootstrap, Running

LEMMA CrossFails ==
  ASSUME SessionTypeOK, CrossInv, gpc \in {"app", "tui", "ready", "gate", "active", "suspended"}, NEW v \in Validator,
         NEW f \in {"other", "recovery"}, ShutFailed(v, f), UNCHANGED <<cpc, cv, up, session>>,
         \/ f = "other" /\ v = gv
         \/ f = "recovery" /\ gpc \in Loop /\ v \in arm_recovery_command_race(gv)
  PROVE  CrossInv'
  <1>0. f \in FailureKind /\ gv \in Validator
    BY TypedParts DEF FailureKind
  <1>1. ~gbad /\ <<gpc, gv.state>> \in GuardianAt /\ gv.state \in Opening
          /\ gv.started = {r \in ChildRole : (IF r = "app" THEN app ELSE tui) # "none"}
    BY EarlyAt DEF Early, Running
  <1>2. gv.state \in Window \cup Reporting
    BY <1>1 DEF GuardianAt, Window, Reporting
  <1>3. gv.failure = "none" /\ gv.cause = "none" /\ gv.allowance = "inactive"
          /\ gv.started \in {{}, {"app"}, ChildRole} /\ refused = {}
    BY <1>1 DEF CrossInv, Recorded, Opening, Synchronous
  <1>4. /\ v.state = gv.state /\ v.started = gv.started /\ v.gate_ever_opened = gv.gate_ever_opened
        /\ v.failure = "none" /\ v.cause = "none"
        /\ v.allowance = IF f = "recovery" THEN "awaiting" ELSE "inactive"
        /\ f = "recovery" => v.window = gv.state
    <2>1. CASE f = "other" /\ v = gv
      BY <1>3, <2>1
    <2>2. CASE f = "recovery" /\ v \in arm_recovery_command_race(gv)
      <3>1. v = [gv EXCEPT !.allowance = "awaiting", !.window = gv.state]
        BY <2>2 DEF arm_recovery_command_race
      <3> QED BY <1>0, <1>3, <2>2, <3>1 DEF Validator
    <2> QED BY <2>1, <2>2
  <1>5. v.state \notin {"AwaitLeaseBeforeStart", "AwaitStart", "Terminal", "FailedAwaitQuiesced", "RecoveryDisarmed",
                        "Quiesced", "AwaitRecoveryDisarmed"}
    BY <1>2, <1>4 DEF Window, Reporting
  <1>6. AcceptEvent(v, Failed(f)) # {} /\ AcceptEvent(v, Failed(f)) = accept_failure(v, f) /\ Failed(f) \in Event
    BY <1>0, <1>4, <1>5, FailedFrame, FailureAccepted
  <1>7. GEmitFrom(v, Failed(f)) /\ gpc' = "quiesce" /\ gcond' = Emitted(v, Failed(f))
    BY DEF ShutFailed, Shut
  <1>8. gv' \in accept_failure(v, f) /\ UNCHANGED refused
    BY <1>1, <1>6, <1>7, EmitCases
  <1>9. /\ Recorded(gv)' /\ gv'.state = "FailedAwaitQuiesced" /\ gv'.failure = f /\ gv'.cause = "none"
        /\ gv'.started = v.started /\ gv'.gate_ever_opened = v.gate_ever_opened
        /\ gv'.allowance = (IF f = "recovery" THEN "armed" ELSE "inactive") /\ gv'.window = v.window
        /\ gv'.superseded_gate <=> (v.state = "ReadyForGate" /\ f # "recovery")
    <2>1. PICK w : w = gv'
      OBVIOUS
    <2>2. /\ Recorded(w) /\ w.state = "FailedAwaitQuiesced" /\ w.failure = f /\ w.cause = "none"
          /\ w.started = v.started /\ w.gate_ever_opened = v.gate_ever_opened
          /\ w.allowance = (IF f = "recovery" THEN "armed" ELSE "inactive") /\ w.window = v.window
          /\ w.superseded_gate <=> (v.state = "ReadyForGate" /\ f # "recovery")
      BY <1>3, <1>4, <1>5, <1>8, <2>1, RecordedFailure
    <2>3. Recorded(gv)' <=> Recorded(w)
      BY <2>1 DEF Recorded
    <2> QED BY <2>1, <2>2, <2>3
  <1>10. CASE ~COpen
    <2>1. gbad' /\ gpc' \notin Early \cup {"await"}
      BY <1>1, <1>6, <1>7, <1>10, EmitCases DEF Early, Bootstrap, Running
    <2> QED BY <1>3, <1>8, <1>9, <1>10, <2>1, CrossLost
  <1>11. CASE COpen
    <2>1. ~gbad' /\ down' = Append(down, Failed(f)) /\ gcond' = "healthy"
      BY <1>1, <1>6, <1>7, <1>11, EmitCases
    <2>2. gv'.started = {r \in ChildRole : (IF r = "app" THEN app' ELSE tui') # "none"}
      BY <1>1, <1>4, <1>9 DEF session
    <2>3. GuardianOnTrack' /\ ChildrenRecorded'
      BY <1>7, <1>9, <2>1, <2>2, ShutOnTrack
    <2>4. PICK a \in Event : a = Failed(f)
      BY <1>6
    <2>5. Announcement(<<a>>)'
      BY <1>9, <2>4 DEF Announcement
    <2>6. PICK q : q = gv.state
      OBVIOUS
    <2>7. q \in Window => MayCross(q)'
      BY <1>4, <1>9, <2>6 DEF MayCross
    <2>8. gv'.state \notin Opening /\ gv'.failure # "none"
      BY <1>9 DEF Opening
    <2>9. gv'.started = gv.started /\ gv'.gate_ever_opened = gv.gate_ever_opened /\ down' = Append(down, a)
      BY <1>4, <1>9, <2>1, <2>4
    <2> QED BY <1>1, <1>2, <1>8, <1>9, <2>3, <2>4, <2>5, <2>6, <2>7, <2>8, <2>9, CrossAnnounce
  <1> QED BY <1>10, <1>11

LEMMA CrossComponentFails ==
  ASSUME SessionTypeOK, CrossInv, GComponentFails \/ GRecover
  PROVE  CrossInv'
  <1>0. gv \in Validator
    BY TypedParts
  <1>1. CASE GComponentFails
    <2>1. UNCHANGED <<cpc, cv, up, session>> /\ ShutFailed(gv, "other") /\ gpc \in {"ready", "gate", "active", "suspended"}
      BY <1>1 DEF GComponentFails, GQuiet, cvars, Loop
    <2> QED BY <1>0, <2>1, CrossFails
  <1>2. CASE GRecover
    <2>1. UNCHANGED <<cpc, cv, up, session>> /\ gpc \in Loop
      BY <1>2 DEF GRecover, GQuiet, cvars
    <2>2. PICK v : v \in arm_recovery_command_race(gv) /\ ShutFailed(v, "recovery")
      BY <1>2 DEF GRecover
    <2>3. v \in Validator
      <3>1. v = [gv EXCEPT !.allowance = "awaiting", !.window = gv.state] /\ gv.state \in Window
        BY <2>2 DEF arm_recovery_command_race
      <3> QED BY <1>0, <3>1 DEF Validator
    <2> QED BY <2>1, <2>2, <2>3, CrossFails DEF Loop
  <1> QED BY <1>1, <1>2

LEMMA CrossStartChild ==
  ASSUME SessionTypeOK, CrossInv, GStartChild
  PROVE  CrossInv'
  <1>0. gv \in Validator /\ gpc \in {"app", "tui"}
    BY TypedParts DEF GStartChild, ChildRole
  <1>1. CASE app' # app \/ tui' # tui
    BY <1>1, CrossStarted
  <1>2. CASE app' = app /\ tui' = tui
    <2>1. /\ <<gpc, gv.state>> \in GuardianAt
          /\ gv.started = {r \in ChildRole : (IF r = "app" THEN app ELSE tui) # "none"}
      BY <1>0, EarlyAt DEF Early, Running
    <2>2. gv.started = IF gpc = "app" THEN {} ELSE {"app"}
      BY <1>0, <2>1 DEF GuardianAt, CrossInv, Recorded
    <2>3. (gpc = "app" => app = "none") /\ (gpc = "tui" => tui = "none")
      BY <1>0, <2>1, <2>2 DEF ChildRole
    <2>4. ShutFailed(gv, "other") /\ UNCHANGED <<cpc, cv, up, session>>
      BY <1>0, <1>2, <2>3 DEF GStartChild, GQuiet, cvars, session
    <2> QED BY <1>0, <2>4, CrossFails
  <1> QED BY <1>1, <1>2

LEMMA CrossUsage ==
  ASSUME SessionTypeOK, CrossInv, GUsageExhausted
  PROVE  CrossInv'
  <1>0. gv \in Validator /\ UNCHANGED <<cpc, cv, up, session>> /\ gpc = "active"
    BY TypedParts DEF GUsageExhausted, GQuiet, cvars
  <1>1. ~gbad /\ <<gpc, gv.state>> \in GuardianAt /\ gv.state \in Opening
          /\ gv.started = {r \in ChildRole : (IF r = "app" THEN app ELSE tui) # "none"}
    BY <1>0, EarlyAt DEF Early, Running
  <1>2. gv.state = "Active"
    BY <1>0, <1>1 DEF GuardianAt
  <1>3. gv.failure = "none" /\ gv.cause = "none" /\ gv.allowance = "inactive"
          /\ gv.started = ChildRole /\ gv.gate_ever_opened /\ refused = {}
    BY <1>1, <1>2 DEF CrossInv, Recorded, Opening, Synchronous
  <1>4. PICK a \in Event : a = Plain("UsageExhausted") /\ a.kind = "UsageExhausted"
    BY PlainEvents
  <1>5. AcceptEvent(gv, a) = {[gv EXCEPT !.state = "AwaitQuiesced", !.cause = "usage"]}
    BY <1>2, <1>4 DEF AcceptEvent
  <1>6. GEmitFrom(gv, a) /\ gpc' = "quiesce" /\ gcond' = Emitted(gv, a)
          /\ gend' = IF Emitted(gv, a) = "healthy" THEN "usage" ELSE "failure"
    BY <1>4 DEF GUsageExhausted, Shut
  <1>7. gv' \in AcceptEvent(gv, a) /\ UNCHANGED refused
    BY <1>1, <1>5, <1>6, EmitCases
  <1>8. /\ gv'.state = "AwaitQuiesced" /\ gv'.failure = "none" /\ gv'.cause = "usage" /\ gv'.started = gv.started
        /\ gv'.gate_ever_opened = gv.gate_ever_opened /\ gv'.allowance = "inactive"
    <2>1. PICK w : w = gv'
      OBVIOUS
    <2>2. w = [gv EXCEPT !.state = "AwaitQuiesced", !.cause = "usage"]
      BY <1>5, <1>7, <2>1
    <2>3. /\ w.state = "AwaitQuiesced" /\ w.failure = gv.failure /\ w.cause = "usage" /\ w.started = gv.started
          /\ w.gate_ever_opened = gv.gate_ever_opened /\ w.allowance = gv.allowance
      BY <1>0, <2>2 DEF Validator
    <2> QED BY <1>3, <2>1, <2>3
  <1>9. Recorded(gv)'
    BY <1>3, <1>8 DEF Recorded, Opening, LifecycleState
  <1>10. CASE ~COpen
    <2>1. gbad' /\ gpc' \notin Early \cup {"await"}
      BY <1>1, <1>5, <1>6, <1>10, EmitCases DEF Early, Bootstrap, Running
    <2> QED BY <1>0, <1>3, <1>7, <1>9, <1>10, <2>1, CrossLost
  <1>11. CASE COpen
    <2>1. ~gbad' /\ down' = Append(down, a) /\ gcond' = "healthy" /\ gend' = "usage"
      BY <1>1, <1>5, <1>6, <1>11, EmitCases
    <2>2. gv'.started = {r \in ChildRole : (IF r = "app" THEN app' ELSE tui') # "none"}
      BY <1>0, <1>1, <1>8 DEF session
    <2>3. GuardianOnTrack' /\ ChildrenRecorded'
      BY <1>6, <1>8, <2>1, <2>2, ShutOnTrack
    <2>5. Announcement(<<a>>)'
      BY <1>4, <1>8 DEF Announcement
    <2>6. PICK q : q = "Active"
      OBVIOUS
    <2>7. MayCross(q)'
      BY <1>8, <2>6 DEF MayCross
    <2>8. gv'.state \notin Opening
      BY <1>8 DEF Opening
    <2> QED BY <1>0, <1>1, <1>2, <1>7, <1>8, <1>9, <2>1, <2>3, <2>5, <2>6, <2>7, <2>8, CrossAnnounce DEF Window
  <1> QED BY <1>10, <1>11

(* A loop serves the command it is asked for. *)
LEMMA AckAccepted ==
  ASSUME NEW v \in Validator, NEW c \in Command, NEW q \in Window, <<q, c.kind, v.state>> \in Sent,
         c.kind = "Signal" => v.sig = c.arg /\ (v.was_suspended <=> q = "Suspended")
  PROVE  /\ Acknowledged(c) \in Event /\ AcceptEvent(v, Acknowledged(c)) # {}
         /\ \A w \in AcceptEvent(v, Acknowledged(c)) :
              IF c.kind = "Signal" /\ c.arg \notin Interactive
              THEN /\ w.state = "AwaitQuiesced" /\ w.cause = c.arg /\ w.failure = v.failure
                   /\ w.started = v.started /\ w.gate_ever_opened = v.gate_ever_opened /\ w.allowance = v.allowance
              ELSE w.state = CASE c.kind = "Suspend" -> "Suspended" [] c.kind = "Resume" -> "ReadyForGate"
                               [] c.kind = "Signal" -> q [] OTHER -> "Active"
         /\ c.kind = "Signal" => Acknowledged(c) = Frame("SignalForwarded", c.arg) /\ c.arg \in UnixSignal
  <1>1. c.kind \in {"OpenInputGate", "Resize", "Suspend", "Resume", "Signal"}
    BY DEF Sent, Window
  <1>2. CASE c.kind = "OpenInputGate"
    <2>1. PICK e \in Event : e = Acknowledged(c) /\ e.kind = "InputGateOpened"
      BY <1>2, PlainEvents DEF Acknowledged
    <2>2. v.state = "AwaitGateOpened"
      BY <1>2 DEF Sent
    <2>3. AcceptEvent(v, e) = {[v EXCEPT !.state = "Active", !.gate_ever_opened = TRUE]}
      BY <2>1, <2>2 DEF AcceptEvent
    <2>4. \A w \in AcceptEvent(v, e) : w.state = "Active"
      BY <2>3 DEF Validator
    <2> QED BY <1>2, <2>1, <2>3, <2>4
  <1>3. CASE c.kind \in {"Resize", "Suspend", "Resume"}
    <2> DEFINE k == CASE c.kind = "Resize" -> "ResizeApplied" [] c.kind = "Suspend" -> "Suspended" [] OTHER -> "Resumed"
               t == CASE c.kind = "Resize" -> "Active" [] c.kind = "Suspend" -> "Suspended" [] OTHER -> "ReadyForGate"
    <2>1. Acknowledged(c) = Plain(k) /\ k \in {"ResizeApplied", "Suspended", "Resumed"}
      BY <1>3 DEF Acknowledged
    <2>2. PICK e \in Event : e = Acknowledged(c) /\ e.kind = k
      BY <2>1, PlainEvents
    <2>3. <<v.state, k, t>> \in EventMoves
      BY <1>3 DEF Sent, EventMoves
    <2>4. PICK m \in EventMoves : m[1] = v.state /\ m[2] = k /\ m[3] = t
      BY <2>3
    <2> HIDE DEF k, t
    <2>5. AcceptEvent(v, e) # {} /\ \A w \in AcceptEvent(v, e) : w = [v EXCEPT !.state = m[3]]
      BY <2>2, <2>4, MoveAccepted
    <2>6. ASSUME NEW w \in AcceptEvent(v, e)
          PROVE  w.state = t
      <3>1. w = [v EXCEPT !.state = t]
        BY <2>4, <2>5, <2>6
      <3> QED BY <3>1, MovedRecord
    <2> QED BY <1>3, <2>2, <2>5, <2>6 DEF t
  <1>4. CASE c.kind = "Signal"
    <2>1. c.arg \in UnixSignal
      BY <1>4, CommandFields
    <2>2. PICK e \in Event : e = Acknowledged(c) /\ e = Frame("SignalForwarded", c.arg)
      BY <1>4, <2>1, PlainEvents DEF Acknowledged
    <2>3. e.kind = "SignalForwarded" /\ e.arg = c.arg /\ v.state = "AwaitSignalForwarded" /\ v.sig = e.arg
      BY <1>4, <2>2 DEF Frame, Sent
    <2>4. PICK t, x : /\ t = IF e.arg \notin Interactive THEN "AwaitQuiesced"
                             ELSE IF v.was_suspended THEN "Suspended" ELSE "Active"
                      /\ x = forwarded_cause(v, e.arg)
      OBVIOUS
    <2>5. AcceptEvent(v, e) = {[v EXCEPT !.sig = "none", !.was_suspended = FALSE, !.cause = x, !.state = t]}
      BY <2>3, <2>4 DEF AcceptEvent
    <2>6. \A w \in AcceptEvent(v, e) : /\ w.state = t /\ w.cause = x /\ w.failure = v.failure /\ w.started = v.started
                                       /\ w.gate_ever_opened = v.gate_ever_opened /\ w.allowance = v.allowance
      BY <2>5 DEF Validator
    <2>7. e.arg \notin Interactive => t = "AwaitQuiesced" /\ x = c.arg
      BY <2>3, <2>4 DEF forwarded_cause
    <2>8. e.arg \in Interactive => t = q
      BY <1>4, <2>4 DEF Sent
    <2>9. AcceptEvent(v, e) # {}
      BY <2>5
    <2>10. CASE c.arg \in Interactive
      BY <1>4, <2>1, <2>2, <2>3, <2>6, <2>8, <2>9, <2>10
    <2>11. CASE c.arg \notin Interactive
      BY <1>4, <2>1, <2>2, <2>3, <2>6, <2>7, <2>9, <2>11
    <2> QED BY <2>10, <2>11
  <1> QED BY <1>1, <1>2, <1>3, <1>4

LEMMA CrossServe ==
  ASSUME SessionTypeOK, CrossInv, GCommand
  PROVE  CrossInv'
  <1>0. /\ gv \in Validator /\ cv \in Validator /\ UNCHANGED <<cpc, cv, session>>
        /\ gpc \in {"gate", "active", "suspended"} /\ up # << >> /\ up' = Tail(up)
    BY TypedParts DEF GCommand, GQuiet, cvars, Loop
  <1>1. ~gbad /\ gcond = "healthy" /\ <<gpc, gv.state>> \in GuardianAt /\ gv.state \in Opening
          /\ gv.started = {r \in ChildRole : (IF r = "app" THEN app ELSE tui) # "none"}
    BY <1>0, EarlyAt DEF Early, Running
  <1>2. PICK c \in Command :
          /\ c = Head(up)
          /\ Tail(up) = << >> /\ down = << >> /\ refused = {} /\ AcceptCommand(gv, c) = {cv}
          /\ SameHistory(cv, gv) /\ <<gv.state, c.kind, cv.state>> \in Sent
          /\ c.kind = "Signal" => cv.sig = c.arg /\ (cv.was_suspended <=> gv.state = "Suspended")
    BY <1>0, <1>1, SyncAsked
  <1>3. /\ gv.state \in Window /\ cv.state \in Asking /\ (c.kind = "Signal" => gv.state # "ReadyForGate")
        /\ c.kind = "Signal" => cv.state = "AwaitSignalForwarded"
    BY <1>0, <1>1, <1>2 DEF GuardianAt, Window, Sent, Asking
  <1>4. /\ cv.failure = "none" /\ cv.cause = "none" /\ cv.allowance = "inactive" /\ cv.started = ChildRole
        /\ cv.state # "AwaitGateOpened" => cv.gate_ever_opened
    BY <1>0, <1>1, <1>2, <1>3, RecordedSent DEF CrossInv
  <1>5. cv.started = gv.started /\ cv.gate_ever_opened = gv.gate_ever_opened
    BY <1>2 DEF SameHistory
  <1>6. \/ /\ GEmitFrom(cv, Acknowledged(c))
           /\ Emitted(cv, Acknowledged(c)) # "healthy" => gpc' = "quiesce"
           /\ Emitted(cv, Acknowledged(c)) = "healthy" =>
                IF c.kind = "Signal" /\ c.arg \notin Interactive
                THEN gpc' = "quiesce" /\ gend' = c.arg /\ gcond' = "healthy"
                ELSE gpc' = NextLoop(c) /\ UNCHANGED gshut
        \/ ShutFailed(cv, "other")
    BY <1>2 DEF GCommand, Shut, Goto
  <1>7. CASE ShutFailed(cv, "other")
    <2>1. PICK f \in {"other", "recovery"} : f = "other"
      OBVIOUS
    <2>2. f \in FailureKind
      BY <2>1 DEF FailureKind
    <2>3. cv.state \notin {"AwaitLeaseBeforeStart", "AwaitStart", "Terminal", "FailedAwaitQuiesced",
                           "Quiesced", "AwaitRecoveryDisarmed", "RecoveryDisarmed", "ReadyForGate"}
      BY <1>3 DEF Asking
    <2>4. AcceptEvent(cv, Failed(f)) # {} /\ AcceptEvent(cv, Failed(f)) = accept_failure(cv, f) /\ Failed(f) \in Event
      BY <1>4, <2>2, <2>3, FailedFrame, FailureAccepted
    <2>5. GEmitFrom(cv, Failed(f)) /\ gpc' = "quiesce" /\ gcond' = Emitted(cv, Failed(f))
      BY <1>7, <2>1 DEF ShutFailed, Shut
    <2>6. gv' \in accept_failure(cv, f) /\ refused' = {}
      BY <1>1, <1>2, <2>4, <2>5, EmitCases
    <2>7. PICK w : w = gv'
      OBVIOUS
    <2>8. /\ Recorded(w) /\ w.state = "FailedAwaitQuiesced" /\ w.failure = f /\ w.cause = "none"
          /\ w.started = cv.started /\ w.gate_ever_opened = cv.gate_ever_opened /\ w.allowance = "inactive"
      BY <1>0, <1>4, <2>1, <2>3, <2>6, <2>7, RecordedFailure
    <2>9. Recorded(gv)'
      BY <2>7, <2>8
    <2>10. CASE ~COpen
      <3>1. gbad' /\ gpc' \notin Early \cup {"await"}
        BY <1>1, <2>4, <2>5, <2>10, EmitCases DEF Early, Bootstrap, Running
      <3> QED BY <1>0, <1>2, <2>6, <2>9, <2>10, <3>1, CrossLost
    <2>11. CASE COpen
      <3>1. ~gbad' /\ down' = Append(down, Failed(f)) /\ gcond' = "healthy"
        BY <1>1, <2>4, <2>5, <2>11, EmitCases
      <3>2. down' = <<Failed(f)>> /\ up' = << >>
        BY <1>0, <1>2, <3>1
      <3>3. gv'.started = {r \in ChildRole : (IF r = "app" THEN app' ELSE tui') # "none"}
        BY <1>0, <1>1, <1>5, <2>7, <2>8 DEF session
      <3>4. GuardianOnTrack' /\ ChildrenRecorded'
        BY <2>1, <2>5, <2>7, <2>8, <3>1, <3>3, ShutOnTrack
      <3>5. Announcement(down)'
        BY <2>1, <2>7, <2>8, <3>2 DEF Announcement
      <3>6. Unaware(cv)' /\ cv'.state \notin Window
        BY <1>0, <1>3, <1>4, <2>1, <2>7, <2>8 DEF Unaware, Asking, Window
      <3>7. Unheard'
        BY <3>5, <3>6 DEF Unheard
      <3>8. gv'.state \notin Opening \cup Winds
        BY <2>7, <2>8 DEF Opening, Winds
      <3>9. CommandsCross' /\ FramesCross' /\ Refused' /\ Synchronous'
        BY <2>6, <3>2, <3>7, <3>8 DEF CommandsCross, FramesCross, Refused, Synchronous
      <3> QED BY <2>9, <3>4, <3>9 DEF CrossInv
    <2> QED BY <2>10, <2>11
  <1>8. CASE /\ GEmitFrom(cv, Acknowledged(c))
             /\ Emitted(cv, Acknowledged(c)) # "healthy" => gpc' = "quiesce"
             /\ Emitted(cv, Acknowledged(c)) = "healthy" =>
                  IF c.kind = "Signal" /\ c.arg \notin Interactive
                  THEN gpc' = "quiesce" /\ gend' = c.arg /\ gcond' = "healthy"
                  ELSE gpc' = NextLoop(c) /\ UNCHANGED gshut
    <2>1. PICK e : e = Acknowledged(c)
      OBVIOUS
    <2>2. /\ e \in Event /\ AcceptEvent(cv, e) # {}
          /\ \A w \in AcceptEvent(cv, e) :
               IF c.kind = "Signal" /\ c.arg \notin Interactive
               THEN /\ w.state = "AwaitQuiesced" /\ w.cause = c.arg /\ w.failure = cv.failure
                    /\ w.started = cv.started /\ w.gate_ever_opened = cv.gate_ever_opened /\ w.allowance = cv.allowance
               ELSE w.state = CASE c.kind = "Suspend" -> "Suspended" [] c.kind = "Resume" -> "ReadyForGate"
                                [] c.kind = "Signal" -> gv.state [] OTHER -> "Active"
          /\ c.kind = "Signal" => e = Frame("SignalForwarded", c.arg) /\ c.arg \in UnixSignal
      BY <1>0, <1>2, <1>3, <2>1, AckAccepted
    <2>3. CASE c.kind = "Signal" /\ c.arg \notin Interactive
      <3>1. gv' \in AcceptEvent(cv, e) /\ refused' = {} /\ gpc' = "quiesce"
        BY <1>1, <1>2, <1>8, <2>1, <2>2, <2>3, EmitCases
      <3>2. /\ gv'.state = "AwaitQuiesced" /\ gv'.cause = c.arg /\ gv'.failure = "none"
            /\ gv'.started = ChildRole /\ gv'.gate_ever_opened = cv.gate_ever_opened /\ gv'.allowance = "inactive"
            /\ gv'.gate_ever_opened /\ c.arg \in {"hup", "term"}
        BY <1>3, <1>4, <2>2, <2>3, <3>1 DEF UnixSignal, Interactive
      <3>3. Recorded(gv)'
        BY <3>2 DEF Recorded, Opening, LifecycleState
      <3>4. CASE ~COpen
        <4>1. gbad' /\ gpc' \notin Early \cup {"await"}
          BY <1>1, <1>8, <2>1, <2>2, <3>1, <3>4, EmitCases DEF Early, Bootstrap, Running
        <4> QED BY <1>0, <1>2, <3>1, <3>2, <3>3, <3>4, <4>1, CrossLost
      <3>5. CASE COpen
        <4>1. ~gbad' /\ down' = Append(down, e) /\ gcond' = "healthy" /\ gend' = c.arg
          BY <1>1, <1>8, <2>1, <2>2, <2>3, <3>5, EmitCases
        <4>2. down' = <<Frame("SignalForwarded", gv'.cause)>> /\ up' = << >>
          BY <1>0, <1>2, <2>2, <2>3, <3>2, <4>1
        <4>3. gv'.started = {r \in ChildRole : (IF r = "app" THEN app' ELSE tui') # "none"}
          BY <1>0, <1>1, <1>4, <1>5, <3>2 DEF session
        <4>4. GuardianOnTrack' /\ ChildrenRecorded'
          BY <3>1, <3>2, <4>1, <4>3, ShutOnTrack
        <4>5. Forwarded'
          BY <1>0, <1>2, <1>3, <1>4, <2>3, <3>2, <4>2 DEF Forwarded
        <4>6. gv'.state \notin Opening \cup Winds
          BY <3>2 DEF Opening, Winds
        <4>7. CommandsCross' /\ FramesCross' /\ Refused' /\ Synchronous'
          BY <3>1, <4>2, <4>5, <4>6 DEF CommandsCross, FramesCross, Refused, Synchronous
        <4> QED BY <3>3, <4>4, <4>7 DEF CrossInv
      <3> QED BY <3>4, <3>5
    <2>4. CASE ~(c.kind = "Signal" /\ c.arg \notin Interactive)
      <3>1. ASSUME NEW w \in AcceptEvent(cv, e)
            PROVE  /\ w.state = CASE c.kind = "Suspend" -> "Suspended" [] c.kind = "Resume" -> "ReadyForGate"
                                  [] c.kind = "Signal" -> gv.state [] OTHER -> "Active"
                   /\ w.state \in Opening /\ Recorded(w)
        <4>1. w.state = CASE c.kind = "Suspend" -> "Suspended" [] c.kind = "Resume" -> "ReadyForGate"
                          [] c.kind = "Signal" -> gv.state [] OTHER -> "Active"
          BY <2>2, <2>4, <3>1
        <4>2. w.state \in Opening
          BY <1>3, <4>1 DEF Opening, Window
        <4> QED BY <1>0, <1>3, <1>4, <2>2, <3>1, <4>1, <4>2, RecordedAnswered
      <3>2. ASSUME COpen
            PROVE  GuardianOnTrack' /\ ChildrenRecorded'
        <4>1. gv' \in AcceptEvent(cv, e) /\ ~gbad' /\ Emitted(cv, e) = "healthy"
          BY <1>1, <1>8, <2>1, <2>2, <3>2, EmitCases
        <4>2. gpc' = NextLoop(c) /\ gcond' = "healthy"
          BY <1>1, <1>8, <2>1, <2>4, <4>1 DEF gshut
        <4>3. gv'.state = CASE c.kind = "Suspend" -> "Suspended" [] c.kind = "Resume" -> "ReadyForGate"
                            [] c.kind = "Signal" -> gv.state [] OTHER -> "Active"
          BY <3>1, <4>1
        <4>4. gpc' \in {"gate", "active", "suspended"} /\ <<gpc', gv'.state>> \in GuardianAt
          BY <1>0, <1>1, <1>2, <1>3, <4>2, <4>3 DEF NextLoop, GuardianAt, Sent, Window
        <4>5. gv'.state \in {"ReadyForGate", "Active", "Suspended"}
          BY <1>3, <4>3 DEF Window
        <4>6. gv'.started = ChildRole
          <5>1. PICK w : w = gv'
            OBVIOUS
          <5>2. Recorded(w) /\ w.state \in {"ReadyForGate", "Active", "Suspended"}
            BY <3>1, <4>1, <4>5, <5>1
          <5>3. w.started = ChildRole
            BY <5>2 DEF Recorded
          <5> QED BY <5>1, <5>3
        <4>7. gv'.started = {r \in ChildRole : (IF r = "app" THEN app' ELSE tui') # "none"}
          BY <1>0, <1>1, <1>4, <1>5, <4>6 DEF session
        <4>8. gpc' \in Early
          BY <4>4 DEF Early, Running
        <4> QED BY <4>1, <4>2, <4>4, <4>7, <4>8, EarlyOnTrack
      <3>3. ASSUME ~COpen
            PROVE  gpc' \notin Early \cup {"await"}
        <4>1. Emitted(cv, e) = "lost"
          BY <1>1, <1>8, <2>1, <2>2, <3>3, EmitCases
        <4> QED BY <1>8, <2>1, <4>1 DEF Early, Bootstrap, Running
      <3>4. GEmitFrom(cv, e) /\ up' = << >>
        BY <1>0, <1>2, <1>8, <2>1
      <3> QED BY <1>0, <1>1, <1>2, <2>2, <3>1, <3>2, <3>3, <3>4, CrossTell
    <2> QED BY <2>3, <2>4
  <1> QED BY <1>6, <1>7, <1>8

------------------------------------------------------------------------------
(* Crossing frames: the terminal is quiet *)

LEMMA QuiescedFrame ==
  Quiesced \in Event /\ Quiesced.kind = "TerminalQuiesced" /\ Quiesced.arg = "none"
    /\ Quiesced = Plain("TerminalQuiesced")
  BY PlainEvents DEF Quiesced, Plain, Frame

LEMMA AnnouncementQuiesced ==
  ASSUME NEW d, Announcement(d), gv.state \in {"FailedAwaitQuiesced", "AwaitQuiesced"}, gv'.state = "Quiesced",
         gv'.failure = gv.failure, gv'.cause = gv.cause, gv.failure \in FailureKind \cup {"none"}
  PROVE  Announcement(Append(d, Quiesced))'
  <1>1. \A f \in FailureKind : Append(<<Failed(f)>>, Quiesced) = <<Failed(f), Quiesced>>
    BY QuiescedFrame, PlainEvents, TwoFrames, ZenonT(60)
  <1>2. Append(<<Plain("UsageExhausted")>>, Quiesced) = <<Plain("UsageExhausted"), Quiesced>>
    BY QuiescedFrame, PlainEvents, TwoFrames, ZenonT(60)
  <1>3. CASE gv.failure # "none"
    <2>1. d = <<Failed(gv.failure)>>
      BY <1>3 DEF Announcement
    <2>2. Append(d, Quiesced) = <<Failed(gv'.failure), Quiesced>>
      BY <1>1, <1>3, <2>1
    <2> QED BY <1>3, <2>2 DEF Announcement, Quiesced
  <1>4. CASE gv.failure = "none"
    <2>1. d = <<Plain("UsageExhausted")>> /\ gv.cause = "usage"
      BY <1>4 DEF Announcement
    <2>2. Append(d, Quiesced) = <<Plain("UsageExhausted"), Quiesced>>
      BY <1>2, <2>1
    <2> QED BY <1>4, <2>1, <2>2 DEF Announcement, Quiesced
  <1> QED BY <1>3, <1>4

LEMMA CrossQuiesced ==
  ASSUME SessionTypeOK, CrossInv, GQuiesced
  PROVE  CrossInv'
  <1>0. /\ gv \in Validator /\ cv \in Validator /\ down \in Seq(Event) /\ UNCHANGED <<cpc, cv, up, session>>
        /\ gpc = "quiet" /\ gcond = "healthy"
    BY TypedParts DEF GQuiesced, GQuiet, cvars
  <1>1. GEmitFrom(gv, Quiesced)
    BY DEF GQuiesced, Quiesced
  <1>2. CASE gbad
    <2>1. gbad' /\ gv' = gv /\ UNCHANGED <<down, refused>> /\ Emitted(gv, Quiesced) = "invalid"
      BY <1>1, <1>2, EmitPoisoned
    <2>2. gpc' = "parked"
      BY <2>1 DEF GQuiesced, Park, Quiesced
    <2> QED BY <1>0, <2>1, <2>2, CrossPoisoned DEF Early, Bootstrap, Running
  <1>3. CASE ~gbad
    <2>1. /\ gv.state \in {"Active", "FailedAwaitQuiesced", "AwaitQuiesced"}
          /\ gv.started = {r \in ChildRole : (IF r = "app" THEN app ELSE tui) # "none"}
          /\ gv.failure = "none" => gend \in {"failure", IF gv.state = "Active" THEN "natural" ELSE gv.cause}
          /\ worker = "none" => tui = "none"
      BY <1>0, <1>3 DEF CrossInv, GuardianOnTrack, GuardianAt, ChildrenRecorded
    <2>2. Recorded(gv) /\ gv.failure \in FailureKind \cup {"none"}
      BY <1>0 DEF CrossInv, Validator
    <2>3. AcceptEvent(gv, Quiesced) # {}
          /\ \A w \in AcceptEvent(gv, Quiesced) :
               /\ w.state = "Quiesced" /\ SameHistory(w, [gv EXCEPT !.cause = IF gv.state = "Active" THEN "natural" ELSE @])
               /\ w.superseded_gate = gv.superseded_gate
      <3>1. CASE gv.state = "Active"
        <4>1. gv.cause = "none"
          BY <2>2, <3>1 DEF Recorded, Opening
        <4>2. AcceptEvent(gv, Quiesced) = {[gv EXCEPT !.state = "Quiesced", !.sig = "none", !.cause = "natural"]}
          BY <3>1, <4>1, QuiescedFrame DEF AcceptEvent, NaturalExitStates
        <4> QED BY <1>0, <3>1, <4>2 DEF Validator, SameHistory
      <3>2. CASE gv.state # "Active"
        <4>1. PICK m \in EventMoves : m[1] = gv.state /\ m[2] = "TerminalQuiesced" /\ m[3] = "Quiesced"
          BY <2>1, <3>2 DEF EventMoves
        <4>2. /\ AcceptEvent(gv, Quiesced) # {}
              /\ \A w \in AcceptEvent(gv, Quiesced) : w = [gv EXCEPT !.state = "Quiesced"]
          BY <4>1, QuiescedFrame, MoveAccepted
        <4>3. [gv EXCEPT !.cause = IF gv.state = "Active" THEN "natural" ELSE @] = gv
          BY <1>0, <3>2 DEF Validator
        <4>4. ASSUME NEW w \in AcceptEvent(gv, Quiesced)
              PROVE  w.state = "Quiesced" /\ SameHistory(w, gv) /\ w.superseded_gate = gv.superseded_gate
          <5>1. w = [gv EXCEPT !.state = "Quiesced"]
            BY <4>2, <4>4
          <5> QED BY <1>0, <5>1 DEF Validator, SameHistory
        <4> QED BY <4>2, <4>3, <4>4
      <3> QED BY <3>1, <3>2
    <2>4. gv' \in AcceptEvent(gv, Quiesced) /\ UNCHANGED refused
      BY <1>1, <1>3, <2>3, EmitCases
    <2>5. /\ gv'.state = "Quiesced" /\ gv'.started = gv.started /\ gv'.gate_ever_opened = gv.gate_ever_opened
          /\ gv'.failure = gv.failure /\ gv'.cause = (IF gv.state = "Active" THEN "natural" ELSE gv.cause)
          /\ gv'.allowance = gv.allowance /\ gv'.window = gv.window /\ gv'.superseded_gate = gv.superseded_gate
      <3>1. PICK w : w = gv'
        OBVIOUS
      <3>2. PICK u : u = [gv EXCEPT !.cause = IF gv.state = "Active" THEN "natural" ELSE @]
        OBVIOUS
      <3>3. w.state = "Quiesced" /\ SameHistory(w, u) /\ w.superseded_gate = gv.superseded_gate
        BY <2>3, <2>4, <3>1, <3>2
      <3>4. /\ u.started = gv.started /\ u.gate_ever_opened = gv.gate_ever_opened /\ u.failure = gv.failure
            /\ u.cause = (IF gv.state = "Active" THEN "natural" ELSE gv.cause)
            /\ u.allowance = gv.allowance /\ u.window = gv.window
        BY <1>0, <3>2 DEF Validator
      <3> QED BY <3>1, <3>3, <3>4 DEF SameHistory
    <2>6. Recorded(gv)'
      <3>1. CASE gv.state = "Active"
        BY <2>2, <2>5, <3>1 DEF Recorded, Opening, LifecycleState
      <3>2. CASE gv.state # "Active"
        BY <2>1, <2>2, <2>5, <3>2 DEF Recorded, Opening, LifecycleState
      <3> QED BY <3>1, <3>2
    <2>7. gv'.failure = "recovery" => refused = {}
      BY <2>5 DEF CrossInv, Refused
    <2>8. CASE ~COpen
      <3>1. gbad' /\ Emitted(gv, Quiesced) = "lost"
        BY <1>1, <1>3, <2>3, <2>8, EmitCases
      <3>2. gpc' = "quiet"
        BY <1>0, <3>1 DEF GQuiesced, Quiesced
      <3> QED BY <1>0, <2>4, <2>6, <2>7, <2>8, <3>1, <3>2, CrossLost DEF Early, Bootstrap, Running
    <2>9. CASE COpen
      <3>1. ~gbad' /\ down' = Append(down, Quiesced) /\ Emitted(gv, Quiesced) = "healthy"
        BY <1>1, <1>3, <2>3, <2>9, EmitCases
      <3>2. gpc' = "await" /\ UNCHANGED gshut
        BY <3>1 DEF GQuiesced, Quiesced, Goto
      <3>3. GuardianOnTrack'
        BY <1>0, <2>5, <3>1, <3>2 DEF GuardianOnTrack, GuardianAt, gshut
      <3>4. ChildrenRecorded'
        BY <1>0, <2>1, <2>5, <3>2 DEF ChildrenRecorded, gshut, session
      <3>5. gv'.state \notin Opening \cup Winds
        BY <2>5 DEF Opening, Winds
      <3>6. CASE gv.state = "Active"
        <4>1. gv.failure = "none" /\ gv.allowance = "inactive"
          BY <2>2, <3>6 DEF Recorded, Opening
        <4>2. PICK a \in Event : a = Quiesced
          BY QuiescedFrame
        <4>3. Announcement(<<a>>)'
          BY <2>5, <3>6, <4>1, <4>2 DEF Announcement, Quiesced
        <4>4. PICK q : q = gv.state
          OBVIOUS
        <4>5. MayCross(q)'
          BY <2>5, <3>6, <4>1, <4>4 DEF MayCross
        <4> QED BY <1>0, <1>3, <2>4, <2>5, <2>6, <3>1, <3>3, <3>4, <3>5, <3>6, <4>2, <4>3, <4>4, <4>5, CrossAnnounce
                DEF Window
      <3>7. CASE gv.state # "Active"
        <4>1. gv.state \in {"FailedAwaitQuiesced", "AwaitQuiesced"} /\ gv'.cause = gv.cause
          BY <2>1, <2>5, <3>7
        <4>2. ASSUME NEW c
              PROVE  Crosses(c)' <=> Crosses(c)
          BY <2>5 DEF Crosses
        <4>3. CommandsCross'
          <5>1. up = << >> \/ \E c \in Command : Crosses(c) /\ up = <<c>>
            BY <1>3, <4>1 DEF CrossInv, CommandsCross
          <5>2. up' = << >> \/ \E c \in Command : Crosses(c)' /\ up' = <<c>>
            BY <1>0, <4>2, <5>1
          <5> QED BY <3>5, <5>2 DEF CommandsCross
        <4>4. ASSUME NEW w
              PROVE  Unaware(w)' <=> Unaware(w)
          BY <2>5 DEF Unaware, MayCross
        <4>5. ASSUME Unheard
              PROVE  Unheard'
          <5>1. CASE Announcement(down) /\ Unaware(cv) /\ (cv.state \in Window => up = << >>)
            <6>1. PICK d, w : d = down /\ w = cv
              OBVIOUS
            <6>2. Announcement(Append(d, Quiesced))'
              BY <2>2, <2>5, <4>1, <5>1, <6>1, AnnouncementQuiesced
            <6>3. Announcement(down)'
              BY <3>1, <6>1, <6>2 DEF Announcement, Quiesced
            <6>4. Unaware(cv)'
              BY <1>0, <4>4, <5>1, <6>1
            <6> QED BY <1>0, <5>1, <6>3, <6>4 DEF Unheard
          <5>2. CASE /\ up = << >> /\ down # << >> /\ Announcement(Tail(down))
                     /\ AcceptEvent(cv, Head(down)) # {}
                     /\ \A w \in AcceptEvent(cv, Head(down)) : Unaware(w) /\ w.state \in Window
            <6>1. PICK d : d = Tail(down)
              OBVIOUS
            <6>2. Announcement(Append(d, Quiesced))'
              BY <2>2, <2>5, <4>1, <5>2, <6>1, AnnouncementQuiesced
            <6>3. Head(down') = Head(down) /\ Tail(down') = Append(d, Quiesced) /\ down' # << >>
              BY <1>0, <3>1, <5>2, <6>1, QuiescedFrame, BehindFrames
            <6>4. Announcement(Tail(down))'
              BY <6>2, <6>3 DEF Announcement, Quiesced
            <6>5. AcceptEvent(cv, Head(down))' = AcceptEvent(cv, Head(down))
              BY <1>0, <6>3
            <6>6. \A w \in AcceptEvent(cv, Head(down)) : Unaware(w)' /\ w.state \in Window
              BY <4>4, <5>2
            <6> QED BY <1>0, <5>2, <6>3, <6>4, <6>5, <6>6 DEF Unheard
          <5> QED BY <4>5, <5>1, <5>2 DEF Unheard
        <4>6. ASSUME Forwarded
              PROVE  Forwarded'
          <5>1. down = <<Frame("SignalForwarded", gv.cause)>> /\ gv.cause \in {"hup", "term"}
            BY <4>1, <4>6 DEF Forwarded
          <5>2. Frame("SignalForwarded", gv.cause) \in Event
            BY <5>1, PlainEvents DEF UnixSignal
          <5>3. Append(<<Frame("SignalForwarded", gv.cause)>>, Quiesced) = <<Frame("SignalForwarded", gv.cause), Quiesced>>
            BY <5>2, QuiescedFrame, TwoFrames
          <5>4. down' = <<Frame("SignalForwarded", gv'.cause), Quiesced>>
            BY <3>1, <4>1, <5>1, <5>3
          <5> QED BY <1>0, <2>5, <4>1, <4>6, <5>4 DEF Forwarded, Quiesced
        <4>7. ASSUME Heard
              PROVE  Heard'
          <5>1. down' = <<Quiesced>>
            <6>1. down = << >>
              BY <4>1, <4>7 DEF Heard
            <6> QED BY <3>1, <6>1, QuiescedFrame
          <5> QED BY <1>0, <2>5, <4>1, <4>7, <5>1 DEF Heard, SameRecord, Quiesced
        <4>8. ~Restored
          BY <4>1 DEF Restored, LastFrames
        <4>9. FramesCross'
          <5>1. gv.state \notin Opening
            BY <4>1 DEF Opening
          <5> QED BY <1>0, <4>5, <4>6, <4>7, <4>8, <5>1 DEF CrossInv, FramesCross
        <4>10. Refused' /\ Synchronous'
          BY <1>0, <2>4, <2>7, <3>5 DEF CrossInv, Refused, Synchronous
        <4> QED BY <2>6, <3>3, <3>4, <4>3, <4>9, <4>10 DEF CrossInv
      <3> QED BY <3>6, <3>7
    <2> QED BY <2>8, <2>9
  <1> QED BY <1>2, <1>3

------------------------------------------------------------------------------
(* Crossing frames: the wait for the restore *)

LEMMA CommandArgs ==
  ASSUME NEW c \in Command
  PROVE  /\ c.kind = "Signal" => c.arg \in UnixSignal
         /\ c.kind \notin {"Signal", "ChildDescriptorsVerified"} => c.arg = "none"
         /\ c.kind = "TerminalRestored" => c = Plain("TerminalRestored")
  <1>1. CASE \E k \in {"Start", "TerminalArmAccepted", "OpenInputGate", "Resize", "Suspend", "Resume", "Stop",
                       "TerminalRestored"} : c = Plain(k)
    BY <1>1 DEF Plain, Frame
  <1>2. CASE \E r \in ChildRole : c = Frame("ChildDescriptorsVerified", r)
    BY <1>2 DEF Frame
  <1>3. CASE \E s \in UnixSignal : c = Frame("Signal", s)
    BY <1>3 DEF Frame
  <1> QED BY <1>1, <1>2, <1>3 DEF Command

LEMMA CrossingServed ==
  ASSUME gv \in Validator, gv.state = "Quiesced", NEW c \in Command, Crosses(c)
  PROVE  /\ \A w \in AcceptCommand(gv, c) :
              /\ w.state = "Quiesced" /\ w.started = gv.started /\ w.gate_ever_opened = gv.gate_ever_opened
              /\ w.cause = gv.cause /\ w.failure = gv.failure
              /\ w.allowance = IF gv.allowance = "inactive" THEN "inactive" ELSE "consumed"
         /\ AcceptCommand(gv, c) = {} =>
              gv.allowance = "inactive" /\ <<"guardian", "Quiesced", c.kind, c.arg>> \in ReservedRefusals
  <1>0. c.kind \in {"OpenInputGate", "Signal", "Resize", "Suspend", "Resume"}
    BY DEF Crosses
  <1>1. CASE gv.allowance # "inactive"
    <2>1. gv.allowance = "armed" /\ <<gv.window, c.kind>> \in RecoveryRace
      BY <1>1 DEF Crosses
    <2>2. AcceptCommand(gv, c) = {[gv EXCEPT !.allowance = "consumed", !.window = "none", !.superseded_gate = FALSE]}
      BY <1>0, <1>1, <2>1 DEF AcceptCommand, accept_recovery_superseded_command
    <2> QED BY <1>1, <2>2 DEF Validator
  <1>2. CASE gv.allowance = "inactive" /\ c.kind = "OpenInputGate"
    <2>1. gv.superseded_gate
      BY <1>2 DEF Crosses
    <2>2. AcceptCommand(gv, c) = {[gv EXCEPT !.superseded_gate = FALSE]}
      BY <1>2, <2>1 DEF AcceptCommand, OrdinaryCommand
    <2> QED BY <1>2, <2>2 DEF Validator
  <1>3. CASE gv.allowance = "inactive" /\ c.kind # "OpenInputGate"
    <2>1. AcceptCommand(gv, c) = {[gv EXCEPT !.state = m[4]] : m \in {m \in CommandMoves :
                                    <<m[1], m[2], m[3]>> = <<gv.state, c.kind, c.arg>>}}
      BY <1>0, <1>3 DEF AcceptCommand, OrdinaryCommand, Window
    <2>2. ASSUME NEW w \in AcceptCommand(gv, c)
          PROVE  /\ w.state = "Quiesced" /\ w.started = gv.started /\ w.gate_ever_opened = gv.gate_ever_opened
                 /\ w.cause = gv.cause /\ w.failure = gv.failure /\ w.allowance = gv.allowance
      <3>1. PICK m \in CommandMoves : w = [gv EXCEPT !.state = m[4]] /\ m[1] = "Quiesced"
        BY <2>1, <2>2
      <3>2. m[4] = "Quiesced"
        BY <3>1 DEF CommandMoves
      <3> QED BY <3>1, <3>2 DEF Validator
    <2>3. ASSUME AcceptCommand(gv, c) = {}
          PROVE  <<"guardian", "Quiesced", c.kind, c.arg>> \in ReservedRefusals
      <3>1. \A m \in CommandMoves : <<m[1], m[2], m[3]>> # <<"Quiesced", c.kind, c.arg>>
        BY <2>1, <2>3
      <3>2. /\ c.kind = "Signal" => c.arg \in UnixSignal
            /\ c.kind # "Signal" => c.arg = "none"
        BY <1>0, CommandArgs
      <3>3. c.kind # "Resize"
        <4> SUFFICES ASSUME c.kind = "Resize"
                     PROVE  FALSE
          OBVIOUS
        <4>1. <<"Quiesced", "Resize", "none", "Quiesced">> \in CommandMoves
          BY DEF CommandMoves
        <4>2. c.arg = "none"
          BY <3>2
        <4> QED BY <3>1, <4>1, <4>2
      <3>4. c.kind = "Signal" => c.arg \notin Interactive
        <4> SUFFICES ASSUME c.kind = "Signal", c.arg \in Interactive
                     PROVE  FALSE
          OBVIOUS
        <4>1. <<"Quiesced", "Signal", c.arg, "Quiesced">> \in CommandMoves
          BY DEF CommandMoves
        <4> QED BY <3>1, <4>1
      <3>5. CASE c.kind = "Signal"
        BY <3>2, <3>4, <3>5 DEF ReservedRefusals
      <3>6. CASE c.kind \in {"Suspend", "Resume"}
        BY <3>2, <3>6 DEF ReservedRefusals
      <3> QED BY <1>0, <1>3, <3>3, <3>5, <3>6
    <2> QED BY <1>3, <2>2, <2>3
  <1> QED BY <1>1, <1>2, <1>3

LEMMA RestoreServed ==
  ASSUME NEW v \in Validator, v.state = "Quiesced", v.allowance # "awaiting"
  PROVE  /\ AcceptCommand(v, Plain("TerminalRestored")) # {}
         /\ \A w \in AcceptCommand(v, Plain("TerminalRestored")) :
              /\ w.state = "AwaitRecoveryDisarmed" /\ w.started = v.started
              /\ w.gate_ever_opened = v.gate_ever_opened /\ w.cause = v.cause /\ w.failure = v.failure
              /\ w.allowance = "inactive"
  <1>0. Plain("TerminalRestored").kind = "TerminalRestored"
    BY DEF Plain, Frame
  <1>1. PICK c : c = Plain("TerminalRestored")
    OBVIOUS
  <1>2. PICK u : u = IF v.allowance = "inactive" THEN v ELSE [v EXCEPT !.allowance = "inactive", !.window = "none"]
    OBVIOUS
  <1>3. /\ u \in Validator /\ u.state = "Quiesced" /\ u.started = v.started /\ u.allowance = "inactive"
        /\ u.gate_ever_opened = v.gate_ever_opened /\ u.cause = v.cause /\ u.failure = v.failure
    BY <1>2 DEF Validator
  <1>4. AcceptCommand(v, c) = OrdinaryCommand(u, c)
    <2>1. v.allowance \in {"inactive", "armed", "consumed"}
      BY DEF Validator
    <2> QED BY <1>0, <1>1, <1>2, <2>1 DEF AcceptCommand, accept_recovery_superseded_command
  <1>5. OrdinaryCommand(u, c) = {[u EXCEPT !.state = "AwaitRecoveryDisarmed", !.superseded_gate = FALSE]}
    BY <1>0, <1>1, <1>3 DEF OrdinaryCommand
  <1>6. PICK w : w = [u EXCEPT !.state = "AwaitRecoveryDisarmed", !.superseded_gate = FALSE]
    OBVIOUS
  <1>7. /\ w.state = "AwaitRecoveryDisarmed" /\ w.started = u.started /\ w.allowance = "inactive"
        /\ w.gate_ever_opened = u.gate_ever_opened /\ w.cause = u.cause /\ w.failure = u.failure
    BY <1>3, <1>6 DEF Validator
  <1>8. AcceptCommand(v, Plain("TerminalRestored")) = {w}
    BY <1>1, <1>4, <1>5, <1>6
  <1> QED BY <1>3, <1>7, <1>8

(* A command is taken off the wire, and the drive has not been told more. *)
LEMMA AwaitFrames ==
  ASSUME FramesCross, gv.state = "Quiesced", gv'.state = "Quiesced", up # << >>, UNCHANGED <<cpc, cv, down>>,
         gv'.started = gv.started, gv'.gate_ever_opened = gv.gate_ever_opened, gv'.cause = gv.cause,
         gv'.failure = gv.failure
  PROVE  FramesCross'
  <1> SUFFICES ASSUME cpc \notin Dead \cup {"done"}
               PROVE  Unheard' \/ Heard' \/ Restored'
    BY DEF FramesCross
  <1>1. (Announcement(down) /\ Unaware(cv) /\ cv.state \notin Window) \/ Heard \/ Restored
    BY DEF FramesCross, Opening, Unheard, Forwarded
  <1>2. CASE Announcement(down) /\ Unaware(cv) /\ cv.state \notin Window
    BY <1>2 DEF Unheard, Announcement, Unaware, Quiesced
  <1>3. CASE Heard
    BY <1>3 DEF Heard, SameRecord, Quiesced
  <1>4. CASE Restored
    BY <1>4 DEF Restored, SameRecord, LastFrames
  <1> QED BY <1>1, <1>2, <1>3, <1>4

LEMMA CrossAwait ==
  ASSUME SessionTypeOK, CrossInv, GAwaitRestore
  PROVE  CrossInv'
  <1>0. /\ gv \in Validator /\ up \in Seq(Command) /\ UNCHANGED <<cpc, cv, down, session>> /\ gpc = "await"
    BY TypedParts DEF GAwaitRestore, GQuiet, cvars
  <1>1. /\ ~gbad /\ gcond = "healthy" /\ gv.state = "Quiesced"
        /\ gv.started = {r \in ChildRole : (IF r = "app" THEN app ELSE tui) # "none"}
        /\ gv.failure = "none" => gend \in {"failure", gv.cause}
        /\ worker = "none" => tui = "none"
    BY <1>0 DEF CrossInv, GuardianOnTrack, GuardianAt, ChildrenRecorded
  <1>2. /\ gv.allowance # "awaiting" /\ (gv.failure = "recovery" => gv.allowance # "inactive")
        /\ Recorded(gv)
    BY <1>1 DEF CrossInv, Recorded
  <1>3. CASE GLost /\ gpc' = "quiet" /\ gbad' = TRUE /\ UNCHANGED <<gv, up, refused>>
    BY <1>0, <1>3, CrossPoisoned DEF Early, Bootstrap, Running
  <1>4. CASE up # << >> /\ up' = Tail(up)
    <2>1. \/ \E c \in Command : Crosses(c) /\ up = <<c>>
          \/ /\ cv.state \in Winds
             /\ \/ up = <<Plain("TerminalRestored")>>
                \/ \E c \in Command : Crosses(c) /\ up = <<c, Plain("TerminalRestored")>>
      BY <1>1, <1>4 DEF CrossInv, CommandsCross
    <2>2. CASE \E c \in Command : /\ Crosses(c) /\ Head(up) = c
                                  /\ \/ Tail(up) = << >>
                                     \/ Tail(up) = <<Plain("TerminalRestored")>> /\ cv.state \in Winds
      <3>1. PICK c \in Command : /\ Crosses(c) /\ Head(up) = c
                                 /\ \/ Tail(up) = << >>
                                    \/ Tail(up) = <<Plain("TerminalRestored")>> /\ cv.state \in Winds
        BY <2>2
      <3>2. c.kind # "TerminalRestored"
        BY <3>1 DEF Crosses
      <3>3. CASE AcceptCommand(gv, c) # {}
        <4>1. gv' \in AcceptCommand(gv, c) /\ gpc' = "await" /\ UNCHANGED <<gshut, gbad, refused>>
          BY <1>1, <1>4, <3>1, <3>2, <3>3 DEF GAwaitRestore, Goto, Park
        <4>2. /\ gv'.state = "Quiesced" /\ gv'.started = gv.started /\ gv'.gate_ever_opened = gv.gate_ever_opened
              /\ gv'.cause = gv.cause /\ gv'.failure = gv.failure
              /\ gv'.allowance = IF gv.allowance = "inactive" THEN "inactive" ELSE "consumed"
          BY <1>0, <1>1, <3>1, <4>1, CrossingServed
        <4>3. Recorded(gv)'
          BY <1>1, <1>2, <4>2 DEF Recorded, Opening, LifecycleState
        <4>4. GuardianOnTrack' /\ ChildrenRecorded'
          BY <1>0, <1>1, <4>1, <4>2 DEF GuardianOnTrack, GuardianAt, ChildrenRecorded, gshut, session
        <4>5. FramesCross'
          BY <1>0, <1>1, <1>4, <4>2, AwaitFrames DEF CrossInv
        <4>6. gv'.state \notin Opening \cup Winds
          BY <4>2 DEF Opening, Winds
        <4>7. CommandsCross'
          BY <1>0, <1>4, <3>1, <4>2, <4>6 DEF CommandsCross
        <4>8. Synchronous' /\ Refused'
          BY <1>0, <4>1, <4>2, <4>6 DEF CrossInv, Synchronous, Refused
        <4> QED BY <4>3, <4>4, <4>5, <4>7, <4>8 DEF CrossInv
      <3>4. CASE AcceptCommand(gv, c) = {}
        <4>1. /\ gbad' /\ gpc' = "parked" /\ UNCHANGED gv /\ gcond' = gcond
              /\ refused' = refused \cup {<<"guardian", "Quiesced", c.kind, c.arg>>}
          BY <1>1, <1>4, <3>1, <3>4 DEF GAwaitRestore, Goto, Park
        <4>2. gv.allowance = "inactive" /\ <<"guardian", "Quiesced", c.kind, c.arg>> \in ReservedRefusals
          BY <1>0, <1>1, <3>1, <3>4, CrossingServed
        <4>3. gv.failure # "recovery"
          BY <1>2, <4>2
        <4>4. GuardianOnTrack' /\ ChildrenRecorded' /\ CommandsCross'
          BY <4>1 DEF GuardianOnTrack, ChildrenRecorded, CommandsCross, Early, Bootstrap, Running
        <4>5. FramesCross'
          BY <1>0, <1>1, <1>4, <4>1, AwaitFrames DEF CrossInv
        <4>6. Synchronous' /\ Recorded(gv)'
          BY <1>1, <1>2, <4>1 DEF Synchronous, Opening
        <4>7. Refused'
          BY <1>0, <4>1, <4>2, <4>3 DEF CrossInv, Refused
        <4> QED BY <4>4, <4>5, <4>6, <4>7 DEF CrossInv
      <3> QED BY <3>3, <3>4
    <2>3. CASE cv.state \in Winds /\ up = <<Plain("TerminalRestored")>>
      <3>1. Head(up) = Plain("TerminalRestored") /\ up' = << >> /\ Plain("TerminalRestored").kind = "TerminalRestored"
        BY <1>4, <2>3 DEF Plain, Frame
      <3>2. AcceptCommand(gv, Head(up)) # {}
        BY <1>0, <1>1, <1>2, <3>1, RestoreServed
      <3>3. gv' \in AcceptCommand(gv, Head(up)) /\ gpc' = "cleanup" /\ UNCHANGED <<gshut, gbad, refused>>
        BY <1>1, <1>4, <3>1, <3>2 DEF GAwaitRestore, Goto, Park
      <3>4. /\ gv'.state = "AwaitRecoveryDisarmed" /\ gv'.started = gv.started
            /\ gv'.gate_ever_opened = gv.gate_ever_opened /\ gv'.cause = gv.cause /\ gv'.failure = gv.failure
            /\ gv'.allowance = "inactive"
        BY <1>0, <1>1, <1>2, <3>1, <3>3, RestoreServed
      <3>5. Recorded(gv)'
        BY <1>1, <1>2, <3>4 DEF Recorded, Opening, LifecycleState
      <3>6. GuardianOnTrack' /\ ChildrenRecorded'
        BY <1>0, <1>1, <3>3, <3>4 DEF GuardianOnTrack, GuardianAt, ChildrenRecorded, gshut, session, Early,
                                      Bootstrap, Running
      <3>7. ASSUME cpc \notin Dead \cup {"done"}
            PROVE  Restored'
        <4>1. Restored
          BY <1>1, <1>4, <2>3, <3>7 DEF CrossInv, FramesCross, Opening, Unheard, Unaware, Forwarded, Heard, Winds,
                                        Window, Asking, Reporting
        <4>2. cv.state = "AwaitRecoveryDisarmed" /\ SameRecord(cv) /\ down = << >>
          BY <1>1, <2>3, <4>1 DEF Restored, Winds, LastFrames
        <4> QED BY <1>0, <3>4, <4>2 DEF Restored, SameRecord
      <3>8. gv'.state \notin Opening
        BY <3>4 DEF Opening
      <3>9. FramesCross' /\ CommandsCross'
        BY <1>0, <3>1, <3>7 DEF FramesCross, CommandsCross
      <3>10. Synchronous' /\ Refused'
        BY <1>0, <3>3, <3>4, <3>8 DEF CrossInv, Synchronous, Refused
      <3> QED BY <3>5, <3>6, <3>9, <3>10 DEF CrossInv
    <2>4. ASSUME NEW c \in Command, up = <<c>> \/ up = <<c, Plain("TerminalRestored")>>
          PROVE  /\ Head(up) = c
                 /\ up = <<c>> => Tail(up) = << >>
                 /\ up = <<c, Plain("TerminalRestored")>> => Tail(up) = <<Plain("TerminalRestored")>>
      <3>1. Plain("TerminalRestored") \in Command
        BY PlainCommands
      <3>2. /\ Head(<<c>>) = c /\ Tail(<<c>>) = << >> /\ Head(<<c, Plain("TerminalRestored")>>) = c
            /\ Tail(<<c, Plain("TerminalRestored")>>) = <<Plain("TerminalRestored")>>
            /\ <<c>> # << >>
        BY <3>1, TwoFrames
      <3> QED BY <2>4, <3>2
    <2> QED BY <2>1, <2>2, <2>3, <2>4
  <1>5. \/ up # << >> /\ up' = Tail(up)
        \/ GLost /\ gpc' = "quiet" /\ gbad' = TRUE /\ UNCHANGED <<gv, up, refused>>
    BY DEF GAwaitRestore
  <1> QED BY <1>3, <1>4, <1>5

------------------------------------------------------------------------------
(* Crossing frames: the last report *)

LEMMA CrossLast ==
  ASSUME SessionTypeOK, CrossInv, gv.state = "RecoveryDisarmed", gv'.state \in {"RecoveryDisarmed", "Terminal"},
         UNCHANGED <<cpc, cv, up, refused>>, NEW a \in Event, down' = Append(down, a), up = << >>,
         \A v, d : LastFrames(v, d) => LastFrames(v, Append(d, a))',
         gv'.failure = "recovery" => refused = {}, Recorded(gv)', GuardianOnTrack', ChildrenRecorded'
  PROVE  CrossInv'
  <1>0. down \in Seq(Event) /\ gv.state \notin Opening /\ gv'.state \notin Opening
    BY TypedParts DEF Opening
  <1>1. ASSUME cpc \notin Dead \cup {"done"}
        PROVE  Restored'
    <2>1. Restored
      BY <1>0, <1>1 DEF CrossInv, FramesCross, Unheard, Announcement, Forwarded, Heard
    <2>2. CASE cv.state = "AwaitRecoveryDisarmed"
      <3>1. down # << >> /\ Head(down) = Plain("TerminalRecoveryDisarmed") /\ LastFrames(cv, Tail(down))
        BY <2>1, <2>2 DEF Restored
      <3>2. Head(down') = Head(down) /\ Tail(down') = Append(Tail(down), a) /\ down' # << >>
        BY <1>0, <3>1, BehindFrames
      <3>3. PICK v, d : v = cv /\ d = Tail(down)
        OBVIOUS
      <3>4. LastFrames(v, Append(d, a))'
        BY <3>1, <3>3
      <3>5. LastFrames(cv, Tail(down))'
        BY <3>2, <3>3, <3>4 DEF LastFrames, SameRecord, LateFailure
      <3> QED BY <2>2, <3>1, <3>2, <3>5 DEF Restored
    <2>3. CASE cv.state = "RecoveryDisarmed"
      <3>1. LastFrames(cv, down)
        BY <2>1, <2>3 DEF Restored
      <3>3. PICK v, d : v = cv /\ d = down
        OBVIOUS
      <3>4. LastFrames(v, Append(d, a))'
        BY <3>1, <3>3
      <3>5. LastFrames(cv, down)'
        BY <3>3, <3>4 DEF LastFrames, SameRecord, LateFailure
      <3> QED BY <2>3, <3>5 DEF Restored
    <2> QED BY <2>1, <2>2, <2>3 DEF Restored
  <1>2. FramesCross'
    BY <1>1 DEF FramesCross
  <1>3. CommandsCross' /\ Synchronous' /\ Refused'
    BY <1>0 DEF CrossInv, CommandsCross, Synchronous, Refused
  <1> QED BY <1>2, <1>3 DEF CrossInv

LEMMA ReportValid ==
  ASSUME SessionInv, CrossInv, ~gbad, gpc = "joined", worker = "clean" \/ gv.failure # "none"
  PROVE  validate_terminal(gv, Report)
  <1>1. /\ gv.started = {r \in ChildRole : (IF r = "app" THEN app ELSE tui) # "none"}
        /\ gv.failure = "none" => gend \in {"failure", gv.cause}
        /\ worker = "none" => tui = "none"
        /\ gv.state = "RecoveryDisarmed" /\ Recorded(gv)
    BY DEF CrossInv, ChildrenRecorded, GuardianOnTrack, GuardianAt
  <1>2. worker \in {"none", "clean", "dirty"}
    BY DEF SessionInv, SessionTypeOK
  <1>3. PICK x : x = IF gv.failure # "none" \/ worker # "clean" THEN "failure" ELSE gend
    OBVIOUS
  <1>4. Report.who = gv.started \cup ({worker} \ {"none"}) /\ Report.arg = x
    BY <1>1, <1>3 DEF Report, ChildrenReaped
  <1>5. gv.started \subseteq ChildRole
    BY <1>1
  <1>6. Report.who \cap ChildRole = gv.started
    BY <1>2, <1>4, <1>5 DEF ChildRole
  <1>7. Report.who \cap {"clean", "dirty"} = {} => worker = "none"
    BY <1>2, <1>4
  <1>8. worker = "none" => gv.failure # "none" /\ "tui" \notin gv.started
    BY <1>1
  <1>9. CASE gv.failure = "none"
    <2>1. worker = "clean" /\ "clean" \in Report.who
      BY <1>4, <1>9
    <2>2. gv.started = ChildRole /\ gv.gate_ever_opened /\ gv.cause \in {"natural", "usage", "hup", "term"}
      BY <1>1, <1>9 DEF Recorded, Opening
    <2>3. Report.arg \in {gv.cause, "failure"}
      BY <1>1, <1>3, <1>4, <1>9, <2>1
    <2> QED BY <1>6, <1>7, <1>9, <2>1, <2>2, <2>3 DEF validate_terminal
  <1>10. CASE gv.failure # "none"
    BY <1>3, <1>4, <1>6, <1>7, <1>8, <1>10 DEF validate_terminal
  <1> QED BY <1>9, <1>10

LEMMA ReportAccepted ==
  ASSUME NEW v \in Validator, NEW e, e.kind = "ChildrenReaped", v.state = "RecoveryDisarmed", validate_terminal(v, e)
  PROVE  /\ AcceptEvent(v, e) # {}
         /\ \A w \in AcceptEvent(v, e) : w.state = "Terminal" /\ SameHistory(w, v)
  <1>1. AcceptEvent(v, e) = {[v EXCEPT !.state = "Terminal", !.exit = e.arg]}
    BY DEF AcceptEvent
  <1>2. ASSUME NEW w \in AcceptEvent(v, e)
        PROVE  w.state = "Terminal" /\ SameHistory(w, v)
    <2>1. w = [v EXCEPT !.state = "Terminal", !.exit = e.arg]
      BY <1>1, <1>2
    <2> QED BY <2>1 DEF Validator, SameHistory
  <1> QED BY <1>1, <1>2

LEMMA CrossReport ==
  ASSUME SessionInv, CrossInv, GReport
  PROVE  CrossInv'
  <1> DEFINE late == gpc = "joined" /\ worker # "clean" /\ gv.failure = "none"
             f == IF gpc = "disarm" THEN Plain("TerminalRecoveryDisarmed") ELSE IF late THEN Failed("worker") ELSE Report
  <1>0. /\ gv \in Validator /\ cv \in Validator /\ down \in Seq(Event) /\ UNCHANGED <<cpc, cv, up, session>>
        /\ gpc \in {"disarm", "joined"} /\ SessionTypeOK
    BY TypedParts DEF SessionInv, GReport, GQuiet, cvars
  <1>1. PICK e : e = f
    OBVIOUS
  <1>2. /\ GEmitFrom(gv, e)
        /\ Emitted(gv, e) = "healthy" => gpc' = (IF gpc = "disarm" \/ late THEN "joined" ELSE "publish") /\ UNCHANGED gshut
        /\ Emitted(gv, e) # "healthy" => gpc' = "exited"
    BY <1>1 DEF GReport, Goto, GExit
  <1>3. CASE gbad
    <2>1. gbad' /\ gv' = gv /\ UNCHANGED <<down, refused>> /\ Emitted(gv, e) = "invalid"
      BY <1>2, <1>3, EmitPoisoned
    <2> QED BY <1>0, <1>2, <2>1, CrossPoisoned DEF Early, Bootstrap, Running
  <1>4. CASE ~gbad
    <2>1. /\ gv.state = (IF gpc = "disarm" THEN "AwaitRecoveryDisarmed" ELSE "RecoveryDisarmed")
          /\ gcond = "healthy" /\ Recorded(gv) /\ up = << >>
          /\ gv.allowance = "inactive" /\ gv.failure \in FailureKind \cup {"none"}
          /\ gv.started = {r \in ChildRole : (IF r = "app" THEN app ELSE tui) # "none"}
          /\ gv.failure = "none" => gend \in {"failure", gv.cause}
          /\ worker = "none" => tui = "none"
      <3>1. /\ gv.state = (IF gpc = "disarm" THEN "AwaitRecoveryDisarmed" ELSE "RecoveryDisarmed")
            /\ gcond = "healthy" /\ Recorded(gv)
            /\ gv.started = {r \in ChildRole : (IF r = "app" THEN app ELSE tui) # "none"}
            /\ worker = "none" => tui = "none"
        BY <1>0, <1>4 DEF CrossInv, GuardianOnTrack, GuardianAt, ChildrenRecorded
      <3>2. up = << >> /\ (gv.failure = "none" => gend \in {"failure", gv.cause})
        BY <1>0, <1>4, <3>1 DEF CrossInv, CommandsCross, Winds, ChildrenRecorded
      <3>3. gv.allowance = "inactive" /\ gv.failure \in FailureKind \cup {"none"}
        BY <1>0, <3>1 DEF Recorded, Validator
      <3> QED BY <3>1, <3>2, <3>3
    <2>2. /\ e \in Event /\ AcceptEvent(gv, e) # {}
          /\ \A w \in AcceptEvent(gv, e) :
               /\ w.started = gv.started /\ w.gate_ever_opened = gv.gate_ever_opened /\ w.cause = gv.cause
               /\ w.allowance = "inactive"
               /\ w.failure = IF late THEN "worker" ELSE gv.failure
               /\ w.state = IF gpc = "disarm" \/ late THEN "RecoveryDisarmed" ELSE "Terminal"
      <3>1. CASE gpc = "disarm"
        <4>1. e = Plain("TerminalRecoveryDisarmed") /\ e \in Event /\ e.kind = "TerminalRecoveryDisarmed"
          BY <1>1, <3>1, PlainEvents
        <4>2. PICK m \in EventMoves : m[1] = gv.state /\ m[2] = e.kind /\ m[3] = "RecoveryDisarmed"
          BY <2>1, <3>1, <4>1 DEF EventMoves
        <4>3. AcceptEvent(gv, e) # {} /\ \A w \in AcceptEvent(gv, e) : w = [gv EXCEPT !.state = "RecoveryDisarmed"]
          BY <4>2, MoveAccepted
        <4>4. ASSUME NEW w \in AcceptEvent(gv, e)
              PROVE  w.state = "RecoveryDisarmed" /\ SameHistory(w, gv)
          <5>1. w = [gv EXCEPT !.state = "RecoveryDisarmed"]
            BY <4>3, <4>4
          <5> QED BY <1>0, <5>1 DEF Validator, SameHistory
        <4> QED BY <2>1, <3>1, <4>1, <4>3, <4>4 DEF SameHistory
      <3>2. CASE late
        <4>1. "worker" \in FailureKind /\ e = Failed("worker")
          BY <1>1, <3>2 DEF FailureKind
        <4>2. e \in Event /\ AcceptEvent(gv, e) = accept_failure(gv, "worker")
          BY <4>1, FailedFrame
        <4>3. accept_failure(gv, "worker") # {}
          BY <2>1, <3>2, FailureAccepted
        <4>4. ASSUME NEW w \in accept_failure(gv, "worker")
              PROVE  /\ w.started = gv.started /\ w.gate_ever_opened = gv.gate_ever_opened /\ w.cause = gv.cause
                     /\ w.allowance = "inactive" /\ w.failure = "worker" /\ w.state = "RecoveryDisarmed"
          BY <1>0, <2>1, <3>2, <4>1, <4>4, FailureRecord
        <4> QED BY <3>2, <4>2, <4>3, <4>4
      <3>3. CASE gpc = "joined" /\ ~late
        <4>1. e = Report /\ e \in Event /\ e.kind = "ChildrenReaped"
          BY <1>1, <3>3, ReportTyped
        <4>2. validate_terminal(gv, e)
          BY <1>4, <3>3, <4>1, ReportValid
        <4>3. AcceptEvent(gv, e) # {} /\ \A w \in AcceptEvent(gv, e) : w.state = "Terminal" /\ SameHistory(w, gv)
          BY <1>0, <2>1, <3>3, <4>1, <4>2, ReportAccepted
        <4> QED BY <2>1, <3>3, <4>1, <4>3 DEF SameHistory
      <3> QED BY <1>0, <3>1, <3>2, <3>3
    <2>3. gv' \in AcceptEvent(gv, e) /\ UNCHANGED refused
      BY <1>2, <1>4, <2>2, EmitCases
    <2>4. /\ gv'.started = gv.started /\ gv'.gate_ever_opened = gv.gate_ever_opened /\ gv'.cause = gv.cause
          /\ gv'.allowance = "inactive"
          /\ gv'.failure = IF late THEN "worker" ELSE gv.failure
          /\ gv'.state = IF gpc = "disarm" \/ late THEN "RecoveryDisarmed" ELSE "Terminal"
      BY <2>2, <2>3
    <2>5. Recorded(gv)' /\ gv'.state \notin Opening
      <3>1. gv.state \notin Opening
        BY <2>1 DEF Opening
      <3> QED BY <2>1, <2>4, <3>1 DEF Recorded, Opening, LifecycleState
    <2>6. gv'.failure = "recovery" => refused = {}
      BY <2>4 DEF CrossInv, Refused
    <2>7. CASE ~COpen
      <3>1. gbad' /\ Emitted(gv, e) = "lost"
        BY <1>2, <1>4, <2>2, <2>7, EmitCases
      <3>2. gpc' = "exited"
        BY <1>2, <3>1
      <3> QED BY <1>0, <2>3, <2>5, <2>6, <2>7, <3>1, <3>2, CrossLost DEF Early, Bootstrap, Running
    <2>8. CASE COpen
      <3>1. ~gbad' /\ down' = Append(down, e) /\ Emitted(gv, e) = "healthy"
        BY <1>2, <1>4, <2>2, <2>8, EmitCases
      <3>2. gpc' = (IF gpc = "disarm" \/ late THEN "joined" ELSE "publish") /\ UNCHANGED gshut
        BY <1>2, <3>1
      <3>3. GuardianOnTrack'
        BY <2>1, <2>4, <3>1, <3>2 DEF GuardianOnTrack, GuardianAt, gshut, Early, Bootstrap, Running
      <3>4. ChildrenRecorded'
        BY <1>0, <2>1, <2>4, <3>2 DEF ChildrenRecorded, gshut, session
      <3>5. CASE gpc = "disarm"
        <4>1. e = Plain("TerminalRecoveryDisarmed") /\ gv'.state = "RecoveryDisarmed"
          BY <1>1, <2>4, <3>5
        <4>2. ASSUME cpc \notin Dead \cup {"done"}
              PROVE  Restored'
          <5>1. Restored
            BY <2>1, <3>5, <4>2 DEF CrossInv, FramesCross, Unheard, Announcement, Forwarded, Heard, Opening
          <5>2. cv.state = "AwaitRecoveryDisarmed" /\ SameRecord(cv) /\ down = << >>
            BY <2>1, <3>5, <5>1 DEF Restored, LastFrames
          <5>3. down' = <<e>>
            BY <3>1, <5>2
          <5>4. down' # << >> /\ Head(down') = e /\ Tail(down') = << >>
            BY <2>2, <5>3, TwoFrames
          <5>5. LastFrames(cv, Tail(down))'
            BY <1>0, <2>4, <3>5, <4>1, <5>2, <5>4 DEF LastFrames, SameRecord
          <5> QED BY <1>0, <4>1, <5>2, <5>4, <5>5 DEF Restored
        <4>3. FramesCross' /\ CommandsCross' /\ Synchronous' /\ Refused'
          BY <1>0, <2>1, <2>3, <2>5, <2>6, <4>1, <4>2 DEF CrossInv, FramesCross, CommandsCross, Synchronous, Refused
        <4> QED BY <2>5, <3>3, <3>4, <4>3 DEF CrossInv
      <3>6. CASE late
        <4>1. e = Failed("worker") /\ gv'.state = "RecoveryDisarmed" /\ gv'.failure = "worker"
          BY <1>1, <2>4, <3>6
        <4>2. ASSUME NEW v, NEW d, LastFrames(v, d)
              PROVE  LastFrames(v, Append(d, e))'
          <5>1. SameRecord(v) /\ d = << >>
            BY <2>1, <3>6, <4>2 DEF LastFrames, LateFailure
          <5>2. Append(d, e) = <<Failed("worker")>>
            BY <2>2, <4>1, <5>1, TwoFrames
          <5> QED BY <2>4, <3>6, <4>1, <5>1, <5>2 DEF LastFrames, SameRecord, LateFailure
        <4>3. \A v, d : LastFrames(v, d) => LastFrames(v, Append(d, e))'
          BY <4>2
        <4> QED BY <1>0, <2>1, <2>2, <2>3, <2>5, <2>6, <3>1, <3>3, <3>4, <3>6, <4>1, <4>3, CrossLast
      <3>7. CASE gpc = "joined" /\ ~late
        <4>1. e = Report /\ e.kind = "ChildrenReaped" /\ gv'.state = "Terminal" /\ gv'.failure = gv.failure
          BY <1>1, <2>4, <3>7, ReportTyped
        <4>2. validate_terminal(gv, e)
          BY <1>4, <3>7, <4>1, ReportValid
        <4>3. validate_terminal(gv, e)'
          BY <2>4, <4>1, <4>2 DEF validate_terminal
        <4>4. ASSUME NEW v, NEW d, LastFrames(v, d)
              PROVE  LastFrames(v, Append(d, e))'
          <5>1. CASE SameRecord(v) /\ d = << >>
            <6>1. Append(d, e) = <<e>>
              BY <2>2, <5>1, TwoFrames
            <6>2. SameRecord(v)'
              BY <2>4, <4>1, <5>1 DEF SameRecord
            <6> QED BY <2>2, <4>1, <4>3, <6>1, <6>2 DEF LastFrames
          <5>2. CASE LateFailure(v) /\ d = <<Failed("worker")>>
            <6>1. Append(d, e) = <<Failed("worker"), e>>
              <7>1. Failed("worker") \in Event
                BY FailedFrame DEF FailureKind
              <7> QED BY <2>2, <5>2, <7>1, TwoFrames
            <6>2. LateFailure(v)'
              BY <2>4, <4>1, <5>2 DEF LateFailure
            <6> QED BY <2>2, <4>1, <4>3, <6>1, <6>2 DEF LastFrames
          <5> QED BY <2>1, <3>7, <4>4, <5>1, <5>2 DEF LastFrames
        <4>5. \A v, d : LastFrames(v, d) => LastFrames(v, Append(d, e))'
          BY <4>4
        <4> QED BY <1>0, <2>1, <2>2, <2>3, <2>5, <2>6, <3>1, <3>3, <3>4, <3>7, <4>1, <4>5, CrossLast
      <3> QED BY <1>0, <3>5, <3>6, <3>7
    <2> QED BY <2>7, <2>8
  <1> QED BY <1>3, <1>4

------------------------------------------------------------------------------
(* Crossing frames: the drive reads an event *)

LEMMA CrossReads ==
  ASSUME CrossInv, UNCHANGED <<gvars, up>>, gv.state \notin Opening,
         up = << >> \/ (cv.state \in Winds => cv'.state \in Winds), FramesCross', Refused'
  PROVE  CrossInv'
  <1>1. GuardianOnTrack' /\ ChildrenRecorded'
    BY DEF CrossInv, GuardianOnTrack, ChildrenRecorded, gvars, gshut, session
  <1>2. Recorded(gv)' /\ Synchronous'
    BY DEF CrossInv, gvars, Synchronous
  <1>3. CommandsCross'
    BY DEF CrossInv, CommandsCross, Crosses, gvars
  <1> QED BY <1>1, <1>2, <1>3 DEF CrossInv

LEMMA CrossAccepts ==
  ASSUME CrossInv, UNCHANGED <<gvars, up, refused>>, gv.state \notin Opening, cpc \notin Dead,
         up = << >> \/ (cv.state \in Winds => cv'.state \in Winds),
         (Unheard \/ Forwarded \/ Heard \/ Restored)'
  PROVE  CrossInv'
  <1>1. FramesCross' /\ Refused'
    BY DEF CrossInv, FramesCross, Refused, gvars
  <1> QED BY <1>1, CrossReads

LEMMA CrossRefuses ==
  ASSUME CrossInv, UNCHANGED <<cv, gvars, up>>, gv.state \notin Opening, cpc \notin Dead, cpc' = "retain",
         gv.failure = "none", NEW t \in ReservedRefusals, refused' = refused \cup {t},
         t = <<"coordinator", "AwaitSignalForwarded", "TerminalQuiesced", "none">> => cv.sig \notin Interactive
  PROVE  CrossInv'
  <1>1. FramesCross'
    BY DEF FramesCross, Dead
  <1>2. Refused'
    BY DEF CrossInv, Refused, gvars, Dead
  <1> QED BY <1>1, <1>2, CrossReads

LEMMA OpeningRead ==
  ASSUME SessionTypeOK, CrossInv, UNCHANGED <<gvars, up>>, gv.state \in Opening, COpen, down # << >>, down' = Tail(down),
         AcceptEvent(cv, Head(down)) # {} => cv' \in AcceptEvent(cv, Head(down)) /\ UNCHANGED refused
  PROVE  CrossInv'
  <1>1. InSync /\ refused = {}
    BY DEF CrossInv, Synchronous
  <1>2. PICK e \in Event : up = << >> /\ down = <<e>> /\ gv \in AcceptEvent(cv, e)
    BY <1>1 DEF InSync
  <1>3. Head(down) = e /\ down' = << >>
    BY <1>2
  <1>4. cv' \in AcceptEvent(cv, e) /\ refused' = {}
    BY <1>1, <1>2, <1>3
  <1>5. cv' = gv
    BY <1>2, <1>4, EventOnce
  <1>6. InSync'
    BY <1>2, <1>3, <1>5 DEF InSync, gvars
  <1>7. GuardianOnTrack' /\ ChildrenRecorded'
    BY DEF CrossInv, GuardianOnTrack, ChildrenRecorded, gvars, gshut, session
  <1>8. Recorded(gv)' /\ gv'.state \in Opening
    BY DEF CrossInv, gvars
  <1> QED BY <1>4, <1>6, <1>7, <1>8, CrossOpening

(* The announcement is read, or refused as the protocol reserves. *)
LEMMA AnnouncementRead ==
  ASSUME SessionTypeOK, CrossInv, UNCHANGED <<gvars, up>>, gv.state \notin Opening, cpc \notin Dead, down # << >>,
         down' = Tail(down), Announcement(down), Unaware(cv),
         NEW e, e = Head(down),
         AcceptEvent(cv, e) # {} => cv' \in AcceptEvent(cv, e) /\ UNCHANGED refused,
         AcceptEvent(cv, e) = {} => cpc' = "retain" /\ UNCHANGED cv
                                      /\ refused' = refused \cup {<<"coordinator", cv.state, e.kind, e.arg>>}
  PROVE  CrossInv'
  <1>0. gv \in Validator /\ cv \in Validator /\ Recorded(gv) /\ gv' = gv
    BY TypedParts DEF CrossInv, gvars
  <1>1. cv.state \notin Winds
    BY DEF Unaware, Winds, Window, Asking, Reporting
  <1>2. CASE gv.failure # "none"
    <2>1. PICK f \in FailureKind : f = gv.failure
      BY <1>0, <1>2 DEF Validator
    <2>2. /\ \/ gv.state = "FailedAwaitQuiesced" /\ down = <<Failed(f)>>
             \/ gv.state = "Quiesced" /\ down = <<Failed(f), Quiesced>>
          /\ f # "worker" /\ gv.cause = "none"
      BY <1>0, <1>2, <2>1 DEF Announcement, Recorded
    <2>3. /\ e = Failed(f)
          /\ \/ gv.state = "FailedAwaitQuiesced" /\ down' = << >>
             \/ gv.state = "Quiesced" /\ down' = <<Quiesced>>
      <3>1. Failed(f) \in Event /\ Quiesced \in Event
        BY FailedFrame, QuiescedFrame
      <3>2. /\ Head(<<Failed(f)>>) = Failed(f) /\ Tail(<<Failed(f)>>) = << >>
            /\ Head(<<Failed(f), Quiesced>>) = Failed(f) /\ Tail(<<Failed(f), Quiesced>>) = <<Quiesced>>
        BY <3>1, TwoFrames
      <3> QED BY <2>2, <3>2
    <2>4. /\ cv.state \notin {"AwaitLeaseBeforeStart", "AwaitStart", "Terminal", "FailedAwaitQuiesced", "Quiesced",
                              "AwaitRecoveryDisarmed", "RecoveryDisarmed"}
          /\ cv.failure = "none" /\ cv.allowance = "inactive" /\ cv.cause = "none"
          /\ cv.started = gv.started /\ cv.gate_ever_opened = gv.gate_ever_opened
      BY DEF Unaware, Window, Asking, Reporting
    <2>5. accept_failure(cv, f) # {} /\ AcceptEvent(cv, e) = accept_failure(cv, f)
      BY <2>3, <2>4, FailureAccepted, FailedFrame
    <2>6. cv' \in accept_failure(cv, f) /\ UNCHANGED refused
      BY <2>5
    <2>7. PICK w \in accept_failure(cv, f) : w = cv'
      BY <2>6
    <2>8. /\ w.state = "FailedAwaitQuiesced" /\ w.started = gv.started
          /\ w.gate_ever_opened = gv.gate_ever_opened /\ w.cause = gv.cause /\ w.failure = gv.failure
      BY <1>0, <2>1, <2>2, <2>4, <2>7, FailureRecord
    <2>9. Heard'
      BY <1>0, <2>3, <2>7, <2>8 DEF Heard, SameRecord, Quiesced
    <2> QED BY <1>1, <2>6, <2>9, CrossAccepts
  <1>3. CASE gv.failure = "none" /\ gv.cause = "usage"
    <2>1. \/ gv.state = "AwaitQuiesced" /\ down = <<Plain("UsageExhausted")>>
          \/ gv.state = "Quiesced" /\ down = <<Plain("UsageExhausted"), Quiesced>>
      BY <1>3 DEF Announcement
    <2>2. /\ e = Plain("UsageExhausted")
          /\ \/ gv.state = "AwaitQuiesced" /\ down' = << >>
             \/ gv.state = "Quiesced" /\ down' = <<Quiesced>>
      <3>1. Plain("UsageExhausted") \in Event /\ Quiesced \in Event
        BY PlainEvents, QuiescedFrame
      <3>2. PICK u \in Event : u = Plain("UsageExhausted")
        BY <3>1
      <3>3. Head(<<u>>) = u /\ Tail(<<u>>) = << >> /\ Head(<<u, Quiesced>>) = u /\ Tail(<<u, Quiesced>>) = <<Quiesced>>
        BY <3>1, TwoFrames
      <3> QED BY <2>1, <3>2, <3>3
    <2>3. /\ cv.state \in {"Active", "AwaitSignalForwarded", "AwaitResizeApplied", "AwaitSuspended"}
          /\ cv.failure = "none" /\ cv.started = gv.started /\ cv.gate_ever_opened = gv.gate_ever_opened
      BY <1>3 DEF Unaware
    <2>4. e.kind = "UsageExhausted" /\ e.arg = "none"
      BY <2>2 DEF Plain, Frame
    <2>5. CASE cv.state = "Active"
      <3>1. AcceptEvent(cv, e) = {[cv EXCEPT !.state = "AwaitQuiesced", !.cause = "usage"]}
        BY <2>4, <2>5 DEF AcceptEvent
      <3>2. cv' = [cv EXCEPT !.state = "AwaitQuiesced", !.cause = "usage"] /\ UNCHANGED refused
        BY <3>1
      <3>3. PICK w : w = cv'
        OBVIOUS
      <3>4. /\ w.state = "AwaitQuiesced" /\ w.started = gv.started /\ w.gate_ever_opened = gv.gate_ever_opened
            /\ w.cause = gv.cause /\ w.failure = gv.failure
        BY <1>0, <1>3, <2>3, <3>2, <3>3 DEF Validator
      <3>5. Heard'
        BY <1>0, <2>2, <3>3, <3>4 DEF Heard, SameRecord, Quiesced
      <3> QED BY <1>1, <3>2, <3>5, CrossAccepts
    <2>6. CASE cv.state # "Active"
      <3>1. \A m \in EventMoves : m[2] # "UsageExhausted"
        BY DEF EventMoves
      <3>2. AcceptEvent(cv, e) = {}
        BY <2>4, <2>6, <3>1 DEF AcceptEvent
      <3>3. PICK t : t = <<"coordinator", cv.state, "UsageExhausted", "none">>
        OBVIOUS
      <3>4. t \in ReservedRefusals
        BY <2>3, <2>6, <3>3 DEF ReservedRefusals
      <3>5. t # <<"coordinator", "AwaitSignalForwarded", "TerminalQuiesced", "none">>
        BY <3>3
      <3>6. cpc' = "retain" /\ UNCHANGED cv /\ refused' = refused \cup {t}
        BY <2>4, <3>2, <3>3
      <3> QED BY <1>3, <3>4, <3>5, <3>6, CrossRefuses
    <2> QED BY <2>5, <2>6
  <1>4. CASE gv.failure = "none" /\ gv.cause # "usage"
    <2>1. gv.cause = "natural" /\ gv.state = "Quiesced" /\ down = <<Quiesced>>
      BY <1>4 DEF Announcement
    <2>2. e = Quiesced /\ down' = << >> /\ e.kind = "TerminalQuiesced" /\ e.arg = "none"
      BY <2>1, QuiescedFrame
    <2>3. /\ cv.state \in {"Active", "AwaitSignalForwarded", "AwaitResizeApplied", "AwaitSuspended"}
          /\ cv.state = "AwaitSignalForwarded" => ~cv.was_suspended
          /\ cv.failure = "none" /\ cv.started = gv.started /\ cv.gate_ever_opened = gv.gate_ever_opened
          /\ cv.cause = "none"
      BY <1>4 DEF Unaware
    <2>4. CASE NaturalExitStates(cv)
      <3>1. AcceptEvent(cv, e) = {[cv EXCEPT !.state = "Quiesced", !.sig = "none", !.cause = "natural"]}
        BY <2>2, <2>3, <2>4 DEF AcceptEvent
      <3>2. cv' = [cv EXCEPT !.state = "Quiesced", !.sig = "none", !.cause = "natural"] /\ UNCHANGED refused
        BY <3>1
      <3>3. PICK w : w = cv'
        OBVIOUS
      <3>4. /\ w.state = "Quiesced" /\ w.started = gv.started /\ w.gate_ever_opened = gv.gate_ever_opened
            /\ w.cause = gv.cause /\ w.failure = gv.failure
        BY <1>0, <1>4, <2>1, <2>3, <3>2, <3>3 DEF Validator
      <3>5. Restored'
        BY <1>0, <2>1, <2>2, <3>3, <3>4 DEF Restored, SameRecord
      <3> QED BY <1>1, <3>2, <3>5, CrossAccepts
    <2>5. CASE ~NaturalExitStates(cv)
      <3>1. cv.state = "AwaitSuspended" \/ (cv.state = "AwaitSignalForwarded" /\ cv.sig \notin Interactive)
        BY <2>3, <2>5 DEF NaturalExitStates
      <3>2. \A m \in EventMoves : m[2] = "TerminalQuiesced" => m[1] # cv.state
        BY <3>1 DEF EventMoves
      <3>3. AcceptEvent(cv, e) = {}
        BY <2>2, <2>5, <3>2 DEF AcceptEvent
      <3>4. PICK t : t = <<"coordinator", cv.state, "TerminalQuiesced", "none">>
        OBVIOUS
      <3>5. t \in ReservedRefusals
        BY <3>1, <3>4 DEF ReservedRefusals
      <3>6. t = <<"coordinator", "AwaitSignalForwarded", "TerminalQuiesced", "none">> => cv.sig \notin Interactive
        BY <3>1, <3>4
      <3>7. cpc' = "retain" /\ UNCHANGED cv /\ refused' = refused \cup {t}
        BY <2>2, <3>3, <3>4
      <3> QED BY <1>4, <3>5, <3>6, <3>7, CrossRefuses
    <2> QED BY <2>4, <2>5
  <1> QED BY <1>2, <1>3, <1>4

LEMMA QuietRead ==
  ASSUME SessionTypeOK, CrossInv, UNCHANGED <<gvars, up>>, gv.state \notin Opening, cpc \notin Dead, down # << >>,
         down' = Tail(down), Forwarded \/ Heard,
         NEW e, e = Head(down),
         AcceptEvent(cv, e) # {} => cv' \in AcceptEvent(cv, e) /\ UNCHANGED refused
  PROVE  CrossInv'
  <1>0. gv \in Validator /\ cv \in Validator /\ gv' = gv
    BY TypedParts DEF gvars
  <1>1. CASE Forwarded
    <2>1. PICK s \in {"hup", "term"} : s = gv.cause
      BY <1>1 DEF Forwarded
    <2>2. /\ gv.failure = "none" /\ up = << >> /\ cv.state = "AwaitSignalForwarded" /\ cv.sig = s
          /\ cv.failure = "none" /\ cv.started = gv.started /\ cv.gate_ever_opened = gv.gate_ever_opened
          /\ \/ gv.state = "AwaitQuiesced" /\ down = <<Frame("SignalForwarded", s)>>
             \/ gv.state = "Quiesced" /\ down = <<Frame("SignalForwarded", s), Quiesced>>
      BY <1>1, <2>1 DEF Forwarded
    <2>3. /\ e = Frame("SignalForwarded", s)
          /\ \/ gv.state = "AwaitQuiesced" /\ down' = << >>
             \/ gv.state = "Quiesced" /\ down' = <<Quiesced>>
      <3>1. Frame("SignalForwarded", s) \in Event /\ Quiesced \in Event
        BY PlainEvents, QuiescedFrame DEF UnixSignal
      <3>2. PICK u \in Event : u = Frame("SignalForwarded", s)
        BY <3>1
      <3>3. Head(<<u>>) = u /\ Tail(<<u>>) = << >> /\ Head(<<u, Quiesced>>) = u /\ Tail(<<u, Quiesced>>) = <<Quiesced>>
        BY <3>1, TwoFrames
      <3> QED BY <2>2, <3>2, <3>3
    <2>4. e.kind = "SignalForwarded" /\ e.arg = s /\ s \notin Interactive
      BY <2>3 DEF Frame, Interactive
    <2>5. AcceptEvent(cv, e) = {[cv EXCEPT !.sig = "none", !.was_suspended = FALSE, !.cause = s, !.state = "AwaitQuiesced"]}
      BY <2>2, <2>4 DEF AcceptEvent, forwarded_cause
    <2>6. cv' = [cv EXCEPT !.sig = "none", !.was_suspended = FALSE, !.cause = s, !.state = "AwaitQuiesced"]
            /\ UNCHANGED refused
      BY <2>5
    <2>7. PICK w : w = cv'
      OBVIOUS
    <2>8. /\ w.state = "AwaitQuiesced" /\ w.started = gv.started /\ w.gate_ever_opened = gv.gate_ever_opened
          /\ w.cause = gv.cause /\ w.failure = gv.failure
      BY <1>0, <2>1, <2>2, <2>6, <2>7 DEF Validator
    <2>9. Heard'
      BY <1>0, <2>3, <2>7, <2>8 DEF Heard, SameRecord, Quiesced
    <2> QED BY <2>2, <2>6, <2>9, CrossAccepts
  <1>2. CASE Heard
    <2>1. cv.state \in {"FailedAwaitQuiesced", "AwaitQuiesced"} /\ SameRecord(cv) /\ gv.state = "Quiesced" /\ down = <<Quiesced>>
      BY <1>2 DEF Heard
    <2>2. e = Quiesced /\ down' = << >> /\ e.kind = "TerminalQuiesced"
      BY <2>1, QuiescedFrame
    <2>3. PICK m \in EventMoves : m[1] = cv.state /\ m[2] = "TerminalQuiesced" /\ m[3] = "Quiesced"
      BY <2>1 DEF EventMoves
    <2>4. AcceptEvent(cv, e) # {} /\ \A w \in AcceptEvent(cv, e) : w = [cv EXCEPT !.state = "Quiesced"]
      BY <2>2, <2>3, MoveAccepted
    <2>5. cv' = [cv EXCEPT !.state = "Quiesced"] /\ UNCHANGED refused
      BY <2>4
    <2>6. PICK w : w = cv'
      OBVIOUS
    <2>7. /\ w.state = "Quiesced" /\ w.started = gv.started /\ w.gate_ever_opened = gv.gate_ever_opened
          /\ w.cause = gv.cause /\ w.failure = gv.failure
      BY <1>0, <2>1, <2>5, <2>6 DEF Validator, SameRecord
    <2>8. Restored'
      BY <1>0, <2>1, <2>2, <2>6, <2>7 DEF Restored, SameRecord
    <2>9. cv.state \notin Winds
      BY <2>1 DEF Winds
    <2> QED BY <2>5, <2>8, <2>9, CrossAccepts
  <1> QED BY <1>1, <1>2

LEMMA LastRead ==
  ASSUME SessionTypeOK, CrossInv, UNCHANGED <<gvars, up>>, gv.state \notin Opening, cpc \notin Dead, down # << >>,
         down' = Tail(down), Restored, cv.allowance = "inactive",
         NEW e, e = Head(down),
         AcceptEvent(cv, e) # {} => cv' \in AcceptEvent(cv, e) /\ UNCHANGED refused
  PROVE  CrossInv'
  <1>0. gv \in Validator /\ cv \in Validator /\ gv' = gv
    BY TypedParts DEF gvars
  <1>1. CASE cv.state = "AwaitRecoveryDisarmed"
    <2>1. e = Plain("TerminalRecoveryDisarmed") /\ LastFrames(cv, Tail(down))
      BY <1>1 DEF Restored
    <2>2. e.kind = "TerminalRecoveryDisarmed"
      BY <2>1, PlainEvents
    <2>3. PICK m \in EventMoves : m[1] = cv.state /\ m[2] = e.kind /\ m[3] = "RecoveryDisarmed"
      BY <1>1, <2>2 DEF EventMoves
    <2>4. AcceptEvent(cv, e) # {} /\ \A w \in AcceptEvent(cv, e) : w = [cv EXCEPT !.state = "RecoveryDisarmed"]
      BY <2>3, MoveAccepted
    <2>5. cv' = [cv EXCEPT !.state = "RecoveryDisarmed"] /\ UNCHANGED refused
      BY <2>4
    <2>6. PICK w, v, d : w = cv' /\ v = cv /\ d = Tail(down)
      OBVIOUS
    <2>7. /\ w.state = "RecoveryDisarmed" /\ w.started = v.started /\ w.gate_ever_opened = v.gate_ever_opened
          /\ w.cause = v.cause /\ w.failure = v.failure
      BY <1>0, <2>5, <2>6 DEF Validator
    <2>8. LastFrames(v, d)
      BY <2>1, <2>6
    <2>9. LastFrames(w, d)
      BY <2>7, <2>8 DEF LastFrames, SameRecord, LateFailure
    <2>10. LastFrames(cv, down)'
      BY <1>0, <2>6, <2>9 DEF LastFrames, SameRecord, LateFailure
    <2>11. Restored' /\ cv'.state \in Winds
      BY <2>6, <2>7, <2>10 DEF Restored, Winds
    <2> QED BY <2>5, <2>11, CrossAccepts
  <1>2. CASE cv.state = "RecoveryDisarmed" /\ LateFailure(cv)
    <2>1. PICK d : /\ e = Failed("worker") /\ Tail(down) = d
                   /\ \/ gv.state = "RecoveryDisarmed" /\ d = << >>
                      \/ gv.state = "Terminal" /\ \E r \in Event : r.kind = "ChildrenReaped" /\ validate_terminal(gv, r)
                                                                     /\ d = <<r>>
      <3>1. LastFrames(cv, down) /\ cv.failure # gv.failure
        BY <1>2 DEF Restored, LateFailure
      <3>2. Failed("worker") \in Event
        BY FailedFrame DEF FailureKind
      <3>3. CASE gv.state = "RecoveryDisarmed"
        <4>1. down = <<Failed("worker")>>
          BY <3>1, <3>3 DEF LastFrames, SameRecord
        <4>2. Head(down) = Failed("worker") /\ Tail(down) = << >>
          BY <3>2, <4>1
        <4> QED BY <3>3, <4>2
      <3>4. CASE gv.state = "Terminal"
        <4>1. PICK r \in Event : r.kind = "ChildrenReaped" /\ validate_terminal(gv, r) /\ down = <<Failed("worker"), r>>
          BY <3>1, <3>4 DEF LastFrames, SameRecord
        <4>2. Head(<<Failed("worker"), r>>) = Failed("worker") /\ Tail(<<Failed("worker"), r>>) = <<r>>
          BY <3>2, TwoFrames
        <4> QED BY <3>4, <4>1, <4>2
      <3> QED BY <3>1, <3>3, <3>4 DEF LastFrames
    <2>2. "worker" \in FailureKind
      BY DEF FailureKind
    <2>3. accept_failure(cv, "worker") # {} /\ AcceptEvent(cv, e) = accept_failure(cv, "worker")
      <3>1. cv.failure = "none" /\ cv.allowance = "inactive"
        BY <1>2 DEF LateFailure
      <3> QED BY <1>2, <2>1, <2>2, <3>1, FailureAccepted, FailedFrame
    <2>4. cv' \in accept_failure(cv, "worker") /\ UNCHANGED refused
      BY <2>3
    <2>5. PICK w \in accept_failure(cv, "worker") : w = cv'
      BY <2>4
    <2>6. /\ w.state = "RecoveryDisarmed" /\ w.started = gv.started /\ w.gate_ever_opened = gv.gate_ever_opened
          /\ w.cause = gv.cause /\ w.failure = gv.failure
      <3>1. w.state = "RecoveryDisarmed" /\ w.started = cv.started /\ w.gate_ever_opened = cv.gate_ever_opened
              /\ w.cause = cv.cause /\ w.failure = "worker"
        BY <1>0, <1>2, <2>2, <2>5, FailureRecord
      <3> QED BY <1>2, <3>1 DEF LateFailure
    <2>7. LastFrames(w, d)
      BY <2>1, <2>6 DEF LastFrames, SameRecord
    <2>8. LastFrames(cv, down)'
      BY <1>0, <2>1, <2>5, <2>7 DEF LastFrames, SameRecord, LateFailure
    <2>9. Restored' /\ cv'.state \in Winds
      BY <2>5, <2>6, <2>8 DEF Restored, Winds
    <2> QED BY <2>4, <2>9, CrossAccepts
  <1>3. CASE cv.state = "RecoveryDisarmed" /\ ~LateFailure(cv)
    <2>1. PICK r \in Event : /\ gv.state = "Terminal" /\ r.kind = "ChildrenReaped" /\ validate_terminal(gv, r)
                             /\ SameRecord(cv) /\ down = <<r>>
      BY <1>3 DEF Restored, LastFrames
    <2>2. e = r /\ down' = << >>
      BY <2>1
    <2>3. validate_terminal(cv, e)
      BY <2>1, <2>2 DEF validate_terminal, SameRecord
    <2>4. AcceptEvent(cv, e) # {} /\ \A w \in AcceptEvent(cv, e) : w.state = "Terminal"
      BY <1>0, <1>3, <2>1, <2>2, <2>3, ReportAccepted
    <2>5. cv'.state = "Terminal" /\ UNCHANGED refused
      BY <2>4
    <2>6. Restored' /\ cv'.state \in Winds
      BY <1>0, <2>1, <2>2, <2>5 DEF Restored, Winds
    <2> QED BY <2>5, <2>6, CrossAccepts
  <1> QED BY <1>1, <1>2, <1>3 DEF Restored

LEMMA CrossReceive ==
  ASSUME SessionTypeOK, DriveInStep, CrossInv, CReceive
  PROVE  CrossInv'
  <1>1. PICK e : e = Head(down)
    OBVIOUS
  <1>2. /\ cpc \in Receiving /\ down # << >> /\ down' = Tail(down) /\ UNCHANGED <<gvars, up>>
        /\ AcceptEvent(cv, e) # {} => cv' \in AcceptEvent(cv, e) /\ UNCHANGED refused
        /\ AcceptEvent(cv, e) = {} => cpc' = "retain" /\ UNCHANGED cv
                                        /\ refused' = refused \cup {<<"coordinator", cv.state, e.kind, e.arg>>}
    BY <1>1 DEF CReceive, CQuiet
  <1>3. cpc \notin Dead \cup {"done"} /\ COpen /\ cv.allowance = "inactive"
    BY <1>2 DEF Receiving, Dead, COpen, DriveInStep
  <1>4. CASE gv.state \in Opening
    BY <1>1, <1>2, <1>3, <1>4, OpeningRead
  <1>5. CASE gv.state \notin Opening
    <2>1. CASE Announcement(down) /\ Unaware(cv)
      BY <1>1, <1>2, <1>3, <1>5, <2>1, AnnouncementRead
    <2>2. CASE /\ up = << >> /\ down # << >> /\ Announcement(Tail(down))
               /\ AcceptEvent(cv, Head(down)) # {}
               /\ \A w \in AcceptEvent(cv, Head(down)) : Unaware(w) /\ w.state \in Window
      <3>1. PICK w \in AcceptEvent(cv, e) : w = cv'
        BY <1>1, <1>2, <2>2
      <3>2. Unaware(w) /\ w.state \in Window /\ gv' = gv /\ up' = << >>
        BY <1>1, <1>2, <2>2, <3>1 DEF gvars
      <3>3. Unaware(cv)'
        BY <3>1, <3>2 DEF Unaware, MayCross
      <3>4. Announcement(down)'
        BY <1>2, <2>2, <3>2 DEF Announcement, Quiesced
      <3>5. Unheard'
        BY <3>2, <3>3, <3>4 DEF Unheard
      <3> QED BY <1>1, <1>2, <1>3, <1>5, <2>2, <3>5, CrossAccepts
    <2>3. CASE Forwarded \/ Heard
      BY <1>1, <1>2, <1>3, <1>5, <2>3, QuietRead
    <2>4. CASE Restored
      BY <1>1, <1>2, <1>3, <1>5, <2>4, LastRead
    <2> QED BY <1>3, <1>5, <2>1, <2>2, <2>3, <2>4 DEF CrossInv, FramesCross, Unheard
  <1> QED BY <1>4, <1>5

------------------------------------------------------------------------------
(* Crossing frames: the drive sends a command *)

(* The states in which the drive has its turn. *)
Turns == {"AwaitStart", "AwaitTerminalArmAcceptance", "AwaitAppDescriptorVerification",
          "AwaitTuiDescriptorVerification"} \cup Window

LEMMA TurnMoved ==
  ASSUME NEW q, NEW k, NEW a,
         <<q, k, a>> \in {<<"AwaitStart", "Start", "none">>, <<"AwaitTerminalArmAcceptance", "TerminalArmAccepted", "none">>,
                         <<"AwaitAppDescriptorVerification", "ChildDescriptorsVerified", "app">>,
                         <<"AwaitTuiDescriptorVerification", "ChildDescriptorsVerified", "tui">>,
                         <<"ReadyForGate", "OpenInputGate", "none">>, <<"Active", "Resize", "none">>,
                         <<"Active", "Suspend", "none">>, <<"Suspended", "Resume", "none">>}
  PROVE  \E m \in CommandMoves : m[1] = q /\ m[2] = k /\ m[3] = a
  <1>1. \E r : <<q, k, a, r>> \in CommandMoves
    <2>1. /\ <<"AwaitStart", "Start", "none", "AwaitTerminalArmed">> \in CommandMoves
          /\ <<"AwaitTerminalArmAcceptance", "TerminalArmAccepted", "none", "AwaitApp">> \in CommandMoves
          /\ <<"AwaitAppDescriptorVerification", "ChildDescriptorsVerified", "app", "AwaitTui">> \in CommandMoves
          /\ <<"AwaitTuiDescriptorVerification", "ChildDescriptorsVerified", "tui", "AwaitReady">> \in CommandMoves
          /\ <<"ReadyForGate", "OpenInputGate", "none", "AwaitGateOpened">> \in CommandMoves
          /\ <<"Active", "Resize", "none", "AwaitResizeApplied">> \in CommandMoves
          /\ <<"Active", "Suspend", "none", "AwaitSuspended">> \in CommandMoves
          /\ <<"Suspended", "Resume", "none", "AwaitResumed">> \in CommandMoves
      BY DEF CommandMoves
    <2> QED BY <2>1, Zenon
  <1>2. PICK r : <<q, k, a, r>> \in CommandMoves
    BY <1>1
  <1>3. <<q, k, a, r>>[1] = q /\ <<q, k, a, r>>[2] = k /\ <<q, k, a, r>>[3] = a
    OBVIOUS
  <1> QED BY <1>2, <1>3, Zenon

LEMMA CommandAccepted ==
  ASSUME NEW v, NEW c, v.state # "Quiesced",
         \/ c.kind = "Signal" /\ v.state \in {"Active", "Suspended"}
         \/ /\ c.kind \notin {"Signal", "Stop"}
            /\ \E m \in CommandMoves : m[1] = v.state /\ m[2] = c.kind /\ m[3] = c.arg
  PROVE  AcceptCommand(v, c) # {}
  <1>1. CASE c.kind = "Signal" /\ v.state \in {"Active", "Suspended"}
    BY <1>1 DEF AcceptCommand, OrdinaryCommand
  <1>2. CASE /\ c.kind \notin {"Signal", "Stop"}
             /\ \E m \in CommandMoves : m[1] = v.state /\ m[2] = c.kind /\ m[3] = c.arg
    <2>1. AcceptCommand(v, c) = {[v EXCEPT !.state = m[4]] : m \in {m \in CommandMoves :
                                   <<m[1], m[2], m[3]>> = <<v.state, c.kind, c.arg>>}}
      BY <1>2 DEF AcceptCommand, OrdinaryCommand
    <2> QED BY <1>2, <2>1
  <1> QED BY <1>1, <1>2

(* A command of the drive: before the end it is the one frame on the wire,  *)
(* after it the one that crosses, or the end of the restore.                *)
LEMMA CrossSent ==
  ASSUME SessionTypeOK, DriveInStep, CrossInv, NEW c \in Command, NEW next, CSend(c, next), UNCHANGED gvars,
         cpc \notin Dead \cup {"done"}, AcceptCommand(cv, c) # {},
         \/ cv.state \in Turns /\ c.kind \notin {"Stop", "TerminalRestored"}
         \/ cv.state = "Quiesced" /\ c = Plain("TerminalRestored")
  PROVE  CrossInv'
  <1>0. /\ gv \in Validator /\ cv \in Validator /\ gv' = gv /\ cv.allowance = "inactive" /\ COpen
        /\ down \in Seq(Event) /\ up \in Seq(Command) /\ cpc \in CoordinatorPc
    BY TypedParts DEF gvars, DriveInStep, Dead, COpen, SessionTypeOK
  <1>1. CASE ~GOpen
    <2>1. cpc' = "retain" /\ UNCHANGED <<cv, up, down, refused>>
      BY <1>1 DEF CSend, wire
    <2> QED BY <1>0, <2>1, CrossQuiet DEF Dead, COpen
  <1>2. CASE GOpen
    <2>1. cv' \in AcceptCommand(cv, c) /\ up' = Append(up, c) /\ UNCHANGED <<down, refused>>
      BY <1>2 DEF CSend
    <2>2. GuardianOnTrack' /\ ChildrenRecorded' /\ Recorded(gv)'
      BY DEF CrossInv, GuardianOnTrack, ChildrenRecorded, gvars, gshut, session
    <2>3. Refused'
      BY <1>0, <2>1 DEF CrossInv, Refused
    <2>4. CASE gv.state \in Opening
      <3>1. InSync /\ refused = {}
        BY <1>0, <2>4 DEF CrossInv, Synchronous
      <3>2. ASSUME NEW b \in Command, b.kind # "Stop", cv \in AcceptCommand(gv, b)
            PROVE  FALSE
        <4>1. <<gv.state, b.kind, cv.state>> \in Sent
          BY <1>0, <2>4, <3>2, CommandResult
        <4> QED BY <4>1 DEF Sent, Turns, Window
      <3>3. ASSUME NEW e \in Event, gv \in AcceptEvent(cv, e)
            PROVE  FALSE
        <4>1. <<cv.state, e.kind, gv.state>> \in Answered
          BY <1>0, <2>4, <3>3, AnswerResult
        <4> QED BY <4>1 DEF Answered, Turns, Window
      <3>4. up = << >> /\ down = << >> /\ cv = gv
        BY <3>1, <3>2, <3>3 DEF InSync
      <3>5. c.kind # "Stop" /\ up' = <<c>>
        BY <2>1, <2>4, <3>4 DEF Opening
      <3>6. InSync'
        BY <1>0, <2>1, <3>4, <3>5 DEF InSync
      <3> QED BY <1>0, <2>1, <2>2, <2>4, <3>1, <3>6, CrossOpening
    <2>5. CASE gv.state \notin Opening
      <3>1. Unheard \/ Forwarded \/ Heard \/ Restored
        BY <1>0, <2>5 DEF CrossInv, FramesCross
      <3>2. ASSUME /\ up = << >> /\ down # << >> /\ Announcement(Tail(down))
                   /\ AcceptEvent(cv, Head(down)) # {}
                   /\ \A w \in AcceptEvent(cv, Head(down)) : Unaware(w) /\ w.state \in Window
            PROVE  FALSE
        <4>1. PICK e \in Event : e = Head(down)
          BY <1>0, <3>2
        <4>2. PICK w \in AcceptEvent(cv, e) : w.state \in Opening
          BY <3>2, <4>1 DEF Window, Opening
        <4>3. <<cv.state, e.kind, w.state>> \in Answered
          BY <1>0, <4>2, AnswerResult
        <4> QED BY <4>3 DEF Answered, Turns, Window
      <3>3. CASE cv.state \in Turns /\ c.kind \notin {"Stop", "TerminalRestored"}
        <4>1. Announcement(down) /\ Unaware(cv) /\ (cv.state \in Window => up = << >>)
          BY <3>1, <3>2, <3>3 DEF Unheard, Forwarded, Heard, Restored, Turns, Window
        <4>2. cv.state \in Window /\ up = << >> /\ MayCross(cv.state)
          BY <3>3, <4>1 DEF Unaware, Turns, Window, Asking, Reporting
        <4>3. cv.state \in Opening
          BY <4>2 DEF Window, Opening
        <4>4. PICK w \in AcceptCommand(cv, c) : w = cv'
          BY <2>1
        <4>5. /\ SameHistory(w, cv) /\ <<cv.state, c.kind, w.state>> \in Sent
              /\ c.kind = "Signal" => (w.was_suspended <=> cv.state = "Suspended")
          BY <1>0, <3>3, <4>3, <4>4, CommandResult
        <4>6. /\ w.state \in Asking /\ w.state \notin Window
              /\ <<cv.state, c.kind>> \in RecoveryRace
              /\ c.kind \in {"OpenInputGate", "Signal", "Resize", "Suspend", "Resume"}
              /\ c.kind = "OpenInputGate" => cv.state = "ReadyForGate"
              /\ cv.state = "Active" => w.state \in {"AwaitSignalForwarded", "AwaitResizeApplied", "AwaitSuspended"}
              /\ w.state = "AwaitSignalForwarded" => c.kind = "Signal"
          BY <4>2, <4>5 DEF Sent, Window, Asking, RecoveryRace
        <4>7. gv.failure = "none" => cv.state = "Active"
          BY <4>1, <4>2 DEF Unaware, Window
        <4>8. Unaware(w)
          BY <4>1, <4>5, <4>6, <4>7 DEF Unaware, SameHistory
        <4>9. Unaware(cv)' /\ Announcement(down)'
          BY <1>0, <2>1, <4>1, <4>4, <4>8 DEF Unaware, MayCross, Announcement, Quiesced
        <4>10. Unheard'
          BY <4>4, <4>6, <4>9 DEF Unheard
        <4>11. Crosses(c)
          BY <4>2, <4>6 DEF Crosses, MayCross
        <4>12. up' = <<c>> /\ gv.state \notin Winds
          BY <2>1, <4>1, <4>2 DEF Announcement, Winds
        <4>13. CommandsCross'
          BY <1>0, <4>11, <4>12 DEF CommandsCross, Crosses
        <4>14. FramesCross' /\ Synchronous'
          BY <1>0, <2>5, <4>10 DEF FramesCross, Synchronous
        <4> QED BY <2>2, <2>3, <4>13, <4>14 DEF CrossInv
      <3>4. CASE cv.state = "Quiesced" /\ c = Plain("TerminalRestored")
        <4>1. gv.state = "Quiesced" /\ SameRecord(cv) /\ down = << >>
          BY <3>1, <3>2, <3>4 DEF Unheard, Unaware, Forwarded, Heard, Restored, Window, Asking, Reporting
        <4>2. PICK w \in AcceptCommand(cv, c) : w = cv'
          BY <2>1
        <4>3. /\ w.state = "AwaitRecoveryDisarmed" /\ w.started = cv.started
              /\ w.gate_ever_opened = cv.gate_ever_opened /\ w.cause = cv.cause /\ w.failure = cv.failure
          BY <1>0, <3>4, <4>2, RestoreServed
        <4>4. Restored'
          BY <1>0, <2>1, <4>1, <4>2, <4>3 DEF Restored, SameRecord
        <4>5. ASSUME ~gbad
              PROVE  \/ up' = <<Plain("TerminalRestored")>>
                     \/ \E b \in Command : Crosses(b) /\ up' = <<b, Plain("TerminalRestored")>>
          <5>1. up = << >> \/ \E b \in Command : Crosses(b) /\ up = <<b>>
            BY <3>4, <4>1, <4>5 DEF CrossInv, CommandsCross, Winds
          <5>2. up = << >> => up' = <<c>>
            BY <2>1
          <5>3. \A b \in Command : up = <<b>> => up' = <<b, c>>
            <6>1. \A b \in Command : Append(<<b>>, c) = <<b, c>>
              BY TwoFrames
            <6> QED BY <2>1, <6>1
          <5> QED BY <3>4, <5>1, <5>2, <5>3
        <4>6. cv'.state \in Winds /\ gv.state \notin Winds
          BY <4>1, <4>2, <4>3 DEF Winds
        <4>7. gbad' = gbad
          BY DEF gvars
        <4>8. CommandsCross'
          BY <1>0, <4>1, <4>5, <4>6, <4>7 DEF CommandsCross, Crosses
        <4>9. FramesCross' /\ Synchronous'
          BY <1>0, <2>5, <4>4 DEF FramesCross, Synchronous
        <4> QED BY <2>2, <2>3, <4>8, <4>9 DEF CrossInv
      <3> QED BY <3>3, <3>4
    <2> QED BY <2>4, <2>5
  <1> QED BY <1>1, <1>2

LEMMA CrossCommand ==
  ASSUME SessionTypeOK, DriveInStep, CrossInv, CCommand
  PROVE  CrossInv'
  <1>1. PICK m \in CCommands : cpc = m[1] /\ CSend(m[2], m[3])
    BY DEF CCommand
  <1>2. UNCHANGED gvars /\ cv \in Validator
    BY TypedParts DEF CCommand, CQuiet
  <1> HIDE DEF Plain
  <1>3. PICK k \in {"Start", "TerminalArmAccepted", "OpenInputGate", "Suspend", "Resume", "TerminalRestored"} :
          m[2] = Plain(k) /\ <<m[1], k, m[3]>> \in
             {<<"start", "Start", "boot">>, <<"arm", "TerminalArmAccepted", "boot">>,
              <<"gate", "OpenInputGate", "gateack">>, <<"suspend", "Suspend", "suspending">>,
              <<"resumed", "Resume", "resume">>, <<"restored", "TerminalRestored", "disarm">>}
    BY DEF CCommands
  <1>4. PICK c \in Command : c = m[2] /\ c.kind = k /\ c.arg = "none"
    BY <1>3, PlainCommands DEF Plain
  <1>5. cpc \notin Dead \cup {"done"} /\ cv.allowance = "inactive" /\ <<cpc, cv.state>> \in CoordinatorAt
    BY <1>1, <1>3 DEF DriveInStep, Dead
  <1>6. CASE k = "TerminalRestored"
    <2>1. cv.state = "Quiesced" /\ c = Plain("TerminalRestored")
      BY <1>1, <1>3, <1>4, <1>5, <1>6 DEF CoordinatorAt
    <2>2. AcceptCommand(cv, c) # {}
      BY <1>2, <1>5, <2>1, RestoreServed
    <2> QED BY <1>1, <1>2, <1>4, <1>5, <2>1, <2>2, CrossSent
  <1>7. CASE k # "TerminalRestored"
    <2>1. /\ cv.state \in Turns /\ cv.state # "Quiesced"
          /\ \E n \in CommandMoves : n[1] = cv.state /\ n[2] = k /\ n[3] = "none"
      <3>1. /\ cv.state \in Turns /\ cv.state # "Quiesced"
            /\ <<cv.state, k>> \in {<<"AwaitStart", "Start">>, <<"AwaitTerminalArmAcceptance", "TerminalArmAccepted">>,
                                   <<"ReadyForGate", "OpenInputGate">>, <<"Active", "Suspend">>, <<"Suspended", "Resume">>}
        BY <1>1, <1>3, <1>5, <1>7 DEF CoordinatorAt, Turns, Window
      <3> QED BY <3>1, TurnMoved
    <2>2. AcceptCommand(cv, c) # {}
      BY <1>3, <1>4, <2>1, CommandAccepted
    <2> QED BY <1>1, <1>2, <1>4, <1>5, <1>7, <2>1, <2>2, CrossSent
  <1> QED BY <1>6, <1>7

LEMMA CrossVerify ==
  ASSUME SessionTypeOK, DriveInStep, CrossInv, CVerify
  PROVE  CrossInv'
  <1>1. PICK r \in ChildRole : /\ r = IF cv.state = "AwaitAppDescriptorVerification" THEN "app" ELSE "tui"
                               /\ CSend(Frame("ChildDescriptorsVerified", r), "boot")
    BY DEF CVerify, ChildRole
  <1>2. UNCHANGED gvars /\ cpc = "verify"
    BY DEF CVerify, CQuiet
  <1>3. PICK c \in Command : c = Frame("ChildDescriptorsVerified", r) /\ c.kind = "ChildDescriptorsVerified" /\ c.arg = r
    BY PlainCommands
  <1>4. cpc \notin Dead \cup {"done"} /\ <<cpc, cv.state>> \in CoordinatorAt
    BY <1>2 DEF DriveInStep, Dead
  <1>5. cv.state \in {"AwaitAppDescriptorVerification", "AwaitTuiDescriptorVerification"}
    BY <1>2, <1>4 DEF CoordinatorAt
  <1>6. cv.state \in Turns /\ cv.state # "Quiesced"
          /\ \E n \in CommandMoves : n[1] = cv.state /\ n[2] = "ChildDescriptorsVerified" /\ n[3] = r
    BY <1>1, <1>5, TurnMoved DEF Turns
  <1>7. AcceptCommand(cv, c) # {}
    BY <1>3, <1>6, CommandAccepted
  <1> QED BY <1>1, <1>2, <1>3, <1>4, <1>6, <1>7, CrossSent

LEMMA CrossSignal ==
  ASSUME SessionTypeOK, DriveInStep, CrossInv, cpc \in {"active", "suspended"}, NEW s \in UnixSignal,
         CSend(Frame("Signal", s), "signal"), UNCHANGED gvars
  PROVE  CrossInv'
  <1>1. PICK c \in Command : c = Frame("Signal", s) /\ c.kind = "Signal"
    BY PlainCommands
  <1>2. cpc \notin Dead \cup {"done"} /\ <<cpc, cv.state>> \in CoordinatorAt
    BY DEF DriveInStep, Dead
  <1>3. cv.state \in {"Active", "Suspended"} /\ cv.state \in Turns
    BY <1>2 DEF CoordinatorAt, Turns, Window
  <1>4. AcceptCommand(cv, c) # {}
    BY <1>1, <1>3, CommandAccepted
  <1> QED BY <1>1, <1>2, <1>3, <1>4, CrossSent

LEMMA CrossControl ==
  ASSUME SessionTypeOK, DriveInStep, CrossInv, CControl
  PROVE  CrossInv'
  <1>1. cpc = "active" /\ next_active # "none" /\ UNCHANGED gvars
    BY DEF CControl, CQuiet
  <1>2. CASE next_active = "tstp"
    <2>1. cpc' = "suspend" /\ UNCHANGED <<cv, up, down, refused>>
      BY <1>2 DEF CControl, wire
    <2> QED BY <1>1, <2>1, CrossQuiet DEF Dead, COpen
  <1>3. CASE next_active = "winch"
    <2>1. PICK c \in Command : c = Plain("Resize") /\ c.kind = "Resize" /\ c.arg = "none"
      BY PlainCommands DEF Plain
    <2>2. CSend(c, "resize")
      BY <1>3, <2>1 DEF CControl
    <2>3. cpc \notin Dead \cup {"done"} /\ cv.state = "Active" /\ cv.state \in Turns
      BY <1>1 DEF DriveInStep, Dead, CoordinatorAt, Turns, Window
    <2>4. \E n \in CommandMoves : n[1] = "Active" /\ n[2] = "Resize" /\ n[3] = "none"
      BY TurnMoved
    <2>5. AcceptCommand(cv, c) # {}
      BY <2>1, <2>3, <2>4, CommandAccepted
    <2> QED BY <1>1, <2>1, <2>2, <2>3, <2>5, CrossSent
  <1>4. CASE next_active \notin {"tstp", "winch"}
    <2>1. next_active \in UnixSignal
      BY <1>1, <1>4, FirstActive DEF UnixSignal
    <2>2. CSend(Frame("Signal", next_active), "signal")
      BY <1>4 DEF CControl
    <2> QED BY <1>1, <2>1, <2>2, CrossSignal
  <1> QED BY <1>2, <1>3, <1>4

LEMMA CrossSuspended ==
  ASSUME SessionTypeOK, DriveInStep, CrossInv, CSuspended
  PROVE  CrossInv'
  <1>1. cpc = "suspended" /\ next_suspended # "none" /\ UNCHANGED gvars
    BY DEF CSuspended, CQuiet
  <1>2. CASE next_suspended = "cont"
    <2>1. cpc' = "resuming" /\ UNCHANGED <<cv, up, down, refused>>
      BY <1>2 DEF CSuspended, wire
    <2> QED BY <1>1, <2>1, CrossQuiet DEF Dead, COpen
  <1>3. CASE next_suspended # "cont"
    <2>1. next_suspended \in UnixSignal
      BY <1>1, <1>3, FirstSuspended DEF UnixSignal
    <2>2. CSend(Frame("Signal", next_suspended), "signal")
      BY <1>3 DEF CSuspended
    <2> QED BY <1>1, <2>1, <2>2, CrossSignal
  <1> QED BY <1>2, <1>3

------------------------------------------------------------------------------
(* Crossing frames: every step *)

LEMMA CrossInit == Init => CrossInv
  <1> SUFFICES ASSUME Init
               PROVE  CrossInv
    OBVIOUS
  <1>1. /\ cpc = "lease" /\ gpc = "lease" /\ cv = before_start /\ gv = before_start /\ up = << >> /\ down = << >>
        /\ ~gbad /\ gcond = "healthy" /\ refused = {} /\ app = "none" /\ tui = "none"
    BY DEF Init
  <1>2. /\ gv.state = "AwaitLeaseBeforeStart" /\ gv.allowance = "inactive" /\ gv.failure = "none"
        /\ gv.cause = "none" /\ gv.started = {}
    BY <1>1 DEF before_start
  <1>3. gv.state \in Opening /\ gv.state \notin {"FailedAwaitQuiesced", "AwaitQuiesced", "Quiesced"} \cup Winds
    BY <1>2 DEF Opening, Winds
  <1>4. GuardianOnTrack
    BY <1>1, <1>2 DEF GuardianOnTrack, GuardianAt
  <1>5. Recorded(gv)
    BY <1>2, <1>3 DEF Recorded, LifecycleState
  <1>6. ChildrenRecorded
    BY <1>1, <1>2 DEF ChildrenRecorded, ChildRole
  <1>7. Synchronous /\ CommandsCross /\ FramesCross /\ Refused
    BY <1>1, <1>3 DEF Synchronous, InSync, CommandsCross, FramesCross, Refused
  <1> QED BY <1>4, <1>5, <1>6, <1>7 DEF CrossInv

LEMMA CrossNext ==
  ASSUME SessionInv, GateInv, CrossInv, [Next]_vars
  PROVE  CrossInv'
  <1>0. SessionTypeOK /\ DriveInStep
    BY DEF SessionInv, GateInv
  <1>1. CASE CStep
    BY <1>0, <1>1, CrossReceive, CrossGivesUp, CrossMoves, CrossCommand, CrossVerify, CrossControl, CrossSuspended
       DEF CStep
  <1>2. CASE CDeadline
    BY <1>2, CrossGivesUp
  <1>3. CASE GSteps
    BY <1>0, <1>3, CrossStartChild, CrossBootEmit, CrossBootReceive, CrossVerified, CrossStarted, CrossComponentFails,
       CrossServe, CrossPeerLost, CrossReap, CrossQuiesced, CrossEnded, CrossFallback, CrossAwait, CrossCleanup,
       CrossReport DEF GSteps
  <1>4. CASE GEnds \/ GFaults
    BY <1>0, <1>4, CrossComponentFails, CrossNaturalExit, CrossUsage, CrossPeerLost, CrossFallback, CrossReap
       DEF GEnds, GFaults
  <1>5. CASE ASteps \/ ATimeout \/ Environment
    BY <1>5, CrossOuter, CrossEnded
  <1>6. CASE UNCHANGED vars
    <2>1. UNCHANGED <<cpc, cv, gvars, up, down, refused>>
      BY <1>6 DEF vars, cvars, wire
    <2> QED BY <2>1, CrossQuiet DEF COpen
  <1> QED BY <1>1, <1>2, <1>3, <1>4, <1>5, <1>6 DEF Next

(* The two transcripts of protocol.rs agree to the end of the session:      *)
(* before it is announced they differ by at most the one frame on the wire; *)
(* after it the wire holds nothing but the command that crossed the         *)
(* announcement, the announcement, and the frames of the restore and of the *)
(* last report in their order, and what the two record of the session is    *)
(* the same as soon as the coordinator has heard the announcement.          *)
THEOREM TranscriptsAgree == Spec => []CrossInv
  <1>1. Init => CrossInv
    BY CrossInit
  <1>2. SessionInv /\ GateInv /\ CrossInv /\ [Next]_vars => CrossInv'
    BY CrossNext
  <1> QED BY <1>1, <1>2, SessionInvariant, TurnsAreTaken, PTL DEF Spec

(* Of all the frames that cross, in whatever order the guardian, the        *)
(* coordinator and their faults come, the validators of protocol.rs refuse  *)
(* only the ones the protocol reserves, and none after the loss of the      *)
(* anchor: there a validator that refused a late command would strand the   *)
(* recovery (accept_recovery_superseded_command, accept_event).             *)
THEOREM CrossingAbsorbed == Spec => []CrossingFramesAbsorbed
  <1>1. CrossInv => CrossingFramesAbsorbed
    BY DEF CrossInv, Refused, CrossingFramesAbsorbed
  <1> QED BY <1>1, TranscriptsAgree, PTL

==============================================================================
