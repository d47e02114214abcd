------------------------ MODULE ControlCommandsProofs ------------------------
(* What the receipts of control commands and deliveries guarantee for any    *)
(* number of requests, commands, deliveries and faults.                      *)
EXTENDS ControlCommands, TLAPS

-----------------------------------------------------------------------------
(* Types, in the parts that the steps disturb together.                    *)

TableTypes ==
    /\ commands \in [Keys -> Statuses \union {None}]
    /\ deliveries \in [Deliveries -> {None, "received", "ignored", "rejected", "processed"}]
    /\ audit \subseteq Keys \X {"authorized", "applied", "failed", "rejected"}
    /\ signals \subseteq Reasons
ControlTypes == control \in Controls /\ applications \in [Keys -> Nat]
HandlerTypes ==
    /\ pc \in [Requests -> Places]
    /\ job \in [Requests -> [command : AllCommands \union {None},
                             delivery : Deliveries \union {None}]]
FaultTypes == disturbed \subseteq Keys /\ faults \in 0..MaxFaults

(* Where a handler has a command or a delivery in its hands.               *)
CommandPlaces ==
    {"validate", "record", "audit authorized", "mark authorized", "apply", "signal",
     "mark applied", "audit applied", "mark failed", "audit failed", "record rejected",
     "mark rejected", "audit rejected", "acknowledge", "refused", "explain"}
DeliveryPlaces ==
    {"route", "serve", "processed", "acknowledge", "refused", "explain", "audit denied", "deny",
     "wake"}

HandlerHas(r) ==
    /\ pc[r] \in CommandPlaces => Command(r) # None
    /\ pc[r] \in DeliveryPlaces => FromGithub(r)
    /\ pc[r] \in {"idle", "route"} => Command(r) = None
    /\ pc[r] = "idle" => ~FromGithub(r)
    /\ Command(r) # None /\ FromGithub(r) => Command(r) = Delivery[job[r].delivery].command
    /\ pc[r] = "signal" => WakeReason(Command(r)) # None

HandlersHave == \A r \in Requests : HandlerHas(r)

TypeInv == TypeOK /\ HandlersHave

(* The parts are the type invariant. *)
LEMMA TypeParts == TypeOK <=> TableTypes /\ ControlTypes /\ HandlerTypes /\ FaultTypes
  BY DEF TypeOK, TableTypes, ControlTypes, HandlerTypes, FaultTypes

(* The same of the next state. *)
LEMMA NextTypeParts == TypeOK' <=> TableTypes' /\ ControlTypes' /\ HandlerTypes' /\ FaultTypes'
  BY TypeParts, PTL

(* What is read of a delivery: a directive nobody can read admits no one.  *)
LEMMA DeliveryType ==
    /\ Delivery \in [Deliveries -> [kind : {"nothing", "unreadable", "issues", "status", "command"},
                                    command : AllCommands \union {None}, admitted : BOOLEAN]]
    /\ \A d \in Deliveries : /\ Delivery[d].kind = "unreadable" => ~Delivery[d].admitted
                             /\ Delivery[d].kind = "command" => Delivery[d].command \in AllCommands
<1>1. ASSUME NEW d \in Deliveries
      PROVE  /\ Delivery[d].kind \in {"nothing", "unreadable", "issues", "status", "command"}
             /\ Delivery[d].admitted \in BOOLEAN
             /\ Delivery[d].kind = "unreadable" => ~Delivery[d].admitted
             /\ Delivery[d].kind = "command" => Delivery[d].command \in AllCommands
             /\ Delivery[d].kind # "command" => Delivery[d].command = None
             /\ Delivery[d] = [kind |-> Delivery[d].kind, admitted |-> Delivery[d].admitted,
                               command |-> Delivery[d].command]
  <2>1. Delivery[d] = [kind |-> Kind(Event[d]), admitted |-> Admitted(Event[d]),
                       command |-> IF Kind(Event[d]) = "command" THEN CommandOf(Event[d]) ELSE None]
    BY DEF Delivery
  <2>2. Kind(Event[d]) \in {"nothing", "unreadable", "issues", "status", "command"}
    BY DEF Kind, KindOfDirective
  <2>3. Admitted(Event[d]) \in BOOLEAN
    BY DEF Admitted
  <2>4. Kind(Event[d]) = "unreadable" => ~Admitted(Event[d])
    BY DEF Admitted
  <2>5. Delivery[d].kind = "command" => Delivery[d].command \in AllCommands
    BY DEF AllCommands
  <2> QED
    BY <2>1, <2>2, <2>3, <2>4, <2>5
<1>2. Delivery = [d \in Deliveries |-> Delivery[d]]
  BY DEF Delivery
<1> QED
  BY <1>1, <1>2

(* Nothing has been asked for at the start. *)
LEMMA TypeInit == Init => TypeInv
<1> SUFFICES ASSUME Init PROVE TypeInv
  OBVIOUS
<1>1. TableTypes
  BY DEF Init, TableTypes
<1>2. ControlTypes
  BY DEF Init, ControlTypes
<1>3. HandlerTypes
  BY DEF Init, HandlerTypes, Places
<1>4. FaultTypes
  BY ControlAssumption DEF Init, FaultTypes
<1>5. HandlersHave
  BY DEF Init, HandlersHave, HandlerHas, CommandPlaces, DeliveryPlaces, Command, FromGithub
<1> QED
  BY <1>1, <1>2, <1>3, <1>4, <1>5, TypeParts DEF TypeInv

(* What a handler that has a command works on. *)
LEMMA KeysOfCommands ==
    ASSUME TypeInv, NEW r \in Requests, Command(r) # None
    PROVE  Command(r) \in AllCommands /\ Key(r) \in Keys
  BY DEF TypeInv, TypeOK, Command, Key, Keys

-----------------------------------------------------------------------------
(* The inductive invariant.                                                *)

\* What a validation saw of a command and nothing takes back.
WasValid(c) ==
    /\ c.type \in Types
    /\ c.type = "execution.safe-retry" => control.execution = "refused"
    /\ c.type = "ade.decide" => control.decision # "absent" /\ c.option \in Options

Taken == {"signal", "mark applied"}

\* What a handler's place says of its command.
HandlerTrue(r) ==
    /\ pc[r] \in {"record", "audit authorized", "mark authorized", "apply"} => WasValid(Command(r))
    /\ pc[r] \in Taken \union {"audit applied"} => TookEffect(Command(r))
    /\ pc[r] \in {"serve", "processed"} /\ Command(r) = None
          => Delivery[job[r].delivery].kind # "command"
    /\ pc[r] = "serve" => Command(r) = None
    /\ pc[r] \in {"processed", "acknowledge", "wake", "applied"} /\ Command(r) # None
          => TookEffect(Command(r))

HandlersTrue == \A r \in Requests : HandlerTrue(r)
AppliedWasValid == \A c \in AllCommands : applications[c.key] > 0 => WasValid(c)

\* A decision that was answered has no second answer.
DecidedOnce ==
    \A c \in AllCommands : c.type = "ade.decide" /\ applications[c.key] > 0 => Settled(c)

\* A handler of an undisturbed key knows whether the command was applied.
HandlerQuiet(r) ==
    Command(r) # None /\ Key(r) \notin disturbed =>
        /\ pc[r] \notin {"mark failed", "audit failed"}
        /\ pc[r] \in {"audit authorized", "mark authorized", "apply"} =>
              applications[Key(r)] = 0 \/ Settled(Command(r))
        /\ pc[r] \in {"record rejected", "mark rejected"} =>
              \/ Command(r).type \notin Types \/ Command(r).type = "ade.decide"
              \/ Settled(Command(r))

\* An application that the receipt does not show is being reported, or nothing
\* can follow it.
Remembered(c) ==
    applications[c.key] > 0 /\ commands[c.key] # "applied" =>
        Settled(c) \/ \E r \in Requests : Command(r) = c /\ pc[r] \in Taken

HandlersQuiet == \A r \in Requests : HandlerQuiet(r)
LedgerKept == \A c \in AllCommands : c.key \notin disturbed => Remembered(c)
Applies(r, c) == Command(r) = c /\ pc[r] \in Window
Alone ==
    \A c \in AllCommands : c.key \notin disturbed =>
        \A r, s \in Requests : Applies(r, c) /\ Applies(s, c) => r = s

Told == HandlersTrue /\ AppliedWasValid /\ DecidedOnce /\ AppliedOrSettled
Quiet == AppliedOnce /\ HandlersQuiet /\ LedgerKept /\ Alone
CommandInv == TypeInv /\ Told /\ Quiet

(* Nothing has been asked for, applied or reported at the start.           *)
LEMMA CommandInit == Init => CommandInv
<1> SUFFICES ASSUME Init PROVE CommandInv
  OBVIOUS
<1>1. TypeInv
  BY TypeInit
<1>2. /\ \A r \in Requests : pc[r] = "idle" /\ Command(r) = None
      /\ \A k \in Keys : applications[k] = 0 /\ commands[k] = None
      /\ \A d \in Deliveries : deliveries[d] = None
  BY DEF Init, Command
<1>3. \A c \in AllCommands : c.key \in Keys
  BY Zenon DEF Keys
<1>n. None # "applied" /\ None # "processed"
  BY ControlAssumption
<1>4. Told
  <2>1. HandlersTrue
    BY <1>2 DEF HandlersTrue, HandlerTrue, Taken
  <2>2. AppliedWasValid /\ DecidedOnce
    BY <1>2, <1>3 DEF AppliedWasValid, DecidedOnce
  <2>3. AppliedOrSettled
    <3>1. /\ \A c \in AllCommands : commands[c.key] # "applied"
          /\ \A d \in Deliveries : deliveries[d] # "processed"
          /\ \A r \in Requests : pc[r] # "applied"
      BY <1>2, <1>3, <1>n
    <3> QED
      BY <3>1 DEF AppliedOrSettled
  <2> QED
    BY <2>1, <2>2, <2>3 DEF Told
<1>5. Quiet
  <2>1. AppliedOnce
    BY <1>2 DEF AppliedOnce
  <2>2. HandlersQuiet /\ Alone
    BY <1>2 DEF HandlersQuiet, HandlerQuiet, Alone, Applies, Window
  <2>3. LedgerKept
    BY <1>2, <1>3 DEF LedgerKept, Remembered
  <2> QED
    BY <2>1, <2>2, <2>3 DEF Quiet
<1> QED
  BY <1>1, <1>4, <1>5 DEF CommandInv

-----------------------------------------------------------------------------
(* One call of a handler.                                                  *)

\* A call meets one fault at most, and disturbs no key but its handler's.
CallFaults(r) ==
    /\ faults' = faults \/ (faults < MaxFaults /\ faults' = faults + 1)
    /\ disturbed' = disturbed \/ (Command(r) # None /\ disturbed' = disturbed \union {Key(r)})

\* Where a handler may go with what it has in its hands.
GoesOn(r) ==
    /\ job' = job
    /\ \E place \in Places \ {"idle", "route"} :
          /\ pc' = [pc EXCEPT ![r] = place]
          /\ place \in CommandPlaces => Command(r) # None
          /\ place \in DeliveryPlaces => FromGithub(r)
          /\ place = "signal" => WakeReason(Command(r)) # None

\* What a call does to the tables.
Effects(r) ==
    \/ UNCHANGED <<tables, applications>>
    \/ /\ Command(r) # None
       /\ \/ \E status \in Statuses :
                SetStatus(Key(r), status) /\ (status = "applied" => pc[r] = "mark applied")
          \/ RecordReceipt(Key(r))
          \/ \E result \in {"authorized", "applied", "failed", "rejected"} : Audit(Key(r), result)
          \/ WakeReason(Command(r)) \in Reasons /\ Signal(WakeReason(Command(r)))
          \/ pc[r] = "apply" /\ WasValid(Command(r)) /\ ApplyEffect(Command(r))
    \/ /\ FromGithub(r)
       /\ \/ \E status \in {"rejected", "processed", "ignored"} :
                /\ SetOutcome(job[r].delivery, status)
                /\ status = "processed" => pc[r] = "processed"
          \/ Signal("github-webhook")

\* The calls of a handler, all but the look at its delivery.
Calls(r) ==
    \/ Serve(r) \/ Validate(r) \/ RecordRejected(r) \/ MarkRejected(r) \/ AuditRejected(r)
    \/ Record(r) \/ AuditAuthorized(r) \/ MarkAuthorized(r) \/ Apply(r) \/ SignalWake(r)
    \/ MarkApplied(r) \/ AuditApplied(r) \/ MarkFailed(r) \/ AuditFailed(r)
    \/ Processed(r) \/ Acknowledge(r) \/ Wake(r) \/ Refuse(r) \/ Explain(r)
    \/ AuditDenied(r) \/ Deny(r)

(* Every call moves its own handler, changes one table and meets at most    *)
(* one fault.                                                              *)
LEMMA CallsMove ==
    ASSUME TypeInv, HandlersTrue, NEW r \in Requests, Calls(r)
    PROVE  GoesOn(r) /\ Effects(r) /\ CallFaults(r)
<1>h. HandlerHas(r) /\ pc[r] \in Places
  BY DEF TypeInv, HandlersHave, TypeOK
<1> USE DEF GoesOn, CallFaults, Effects, Call, Answers, Fails, Forgetful, Goes, NoEffect, Throws, Succeeds, Places, Answered,
            CommandPlaces, DeliveryPlaces, HandlerHas, Statuses, Reasons
<1>1. CASE Serve(r) \/ AuditDenied(r) \/ Explain(r) \/ Acknowledge(r)
  BY <1>1, <1>h DEF Serve, AuditDenied, Explain, Acknowledge
<1>8. CASE Validate(r)
  <2>1. Command(r) # None /\ UNCHANGED <<tables, applications>> /\ CallFaults(r) /\ job' = job
    BY <1>8, <1>h DEF Validate
  <2>2. \E place \in {"record", "record rejected"} : pc' = [pc EXCEPT ![r] = place]
    BY <1>8 DEF Validate
  <2> QED
    BY <2>1, <2>2
<1>2. CASE RecordRejected(r) \/ MarkRejected(r) \/ MarkFailed(r) \/ MarkApplied(r)
  BY <1>2, <1>h DEF RecordRejected, MarkRejected, MarkFailed, MarkApplied
<1>3. CASE Record(r) \/ MarkAuthorized(r)
  BY <1>3, <1>h DEF Record, Enter, MarkAuthorized
<1>4. CASE AuditRejected(r) \/ AuditAuthorized(r) \/ AuditApplied(r) \/ AuditFailed(r)
  BY <1>4, <1>h DEF AuditRejected, AuditAuthorized, AuditApplied, AuditFailed
<1>5. CASE Apply(r)
  <2>1. Command(r) # None
    BY <1>5, <1>h DEF Apply
  <2>2. ApplyEffect(Command(r)) \/ UNCHANGED <<tables, applications>>
    BY <1>5 DEF Apply
  <2>6. pc[r] = "apply" /\ WasValid(Command(r))
    BY <1>5 DEF Apply, HandlersTrue, HandlerTrue
  <2>3. CallFaults(r) /\ job' = job
    BY <1>5, <2>1 DEF Apply
  <2>4. \E place \in {"signal", "mark applied", "mark failed"} :
           /\ pc' = [pc EXCEPT ![r] = place]
           /\ place = "signal" => WakeReason(Command(r)) # None
    BY <1>5 DEF Apply, SignalsAfter
  <2>5. GoesOn(r)
    BY <2>1, <2>3, <2>4
  <2> QED
    BY <2>1, <2>2, <2>3, <2>5, <2>6
<1>6. CASE SignalWake(r)
  <2>1. WakeReason(Command(r)) \in Reasons
    BY <1>6, <1>h DEF SignalWake, WakeReason
  <2> QED
    BY <1>6, <1>h, <2>1 DEF SignalWake
<1>7. CASE Processed(r) \/ Wake(r) \/ Refuse(r) \/ Deny(r)
  BY <1>7, <1>h DEF Processed, Wake, Refuse, Deny
<1> QED
  BY <1>1, <1>2, <1>3, <1>4, <1>5, <1>6, <1>7, <1>8 DEF Calls

(* The changes of a command leave the rows typed.                          *)
LEMMA ChangedTypes ==
    ASSUME control \in Controls, NEW c, c.type \in Types, Writes(c),
           c.type = "ade.decide" => c.option \in Options
    PROVE  Changed(c) \in Controls
<1>1. CASE c.type \in {"project.pause", "project.resume", "project.reprioritize"}
  BY <1>1 DEF Controls, Changed
<1>2. CASE c.type \in {"global.pause", "global.resume", "global.safe-mode"}
  BY <1>2 DEF Controls, Changed
<1>3. CASE c.type \in {"runner.drain", "runner.disable", "runner.enable"}
  BY <1>3 DEF Controls, Changed
<1>4. CASE c.type = "execution.cancel"
  BY <1>4 DEF Controls, Changed
<1>5. CASE c.type = "ade.decide"
  BY <1>5 DEF Controls, Changed
<1> QED
  BY <1>1, <1>2, <1>3, <1>4, <1>5 DEF Types, Writes

(* Whatever a call writes has the type of its table.                       *)
LEMMA EffectTypes ==
    ASSUME TypeInv, NEW r \in Requests, Effects(r)
    PROVE  TableTypes' /\ ControlTypes'
<1>t. TableTypes /\ ControlTypes /\ HandlerTypes
  BY TypeParts DEF TypeInv
<1>1. CASE UNCHANGED <<tables, applications>>
  BY <1>1, <1>t DEF tables, TableTypes, ControlTypes
<1>2. CASE Command(r) # None
  <2>1. Key(r) \in Keys /\ Key(r) = Command(r).key
    BY <1>2, KeysOfCommands DEF Key
  <2>2. ASSUME NEW status \in Statuses, SetStatus(Key(r), status)
        PROVE  TableTypes' /\ ControlTypes'
    BY <2>1, <2>2, <1>t DEF SetStatus, TableTypes, ControlTypes
  <2>3. ASSUME RecordReceipt(Key(r))
        PROVE  TableTypes' /\ ControlTypes'
    <3>1. (IF commands[Key(r)] = None THEN "received" ELSE commands[Key(r)]) \in Statuses
      BY <2>1, <1>t DEF TableTypes, Statuses
    <3> QED
      BY <2>1, <2>3, <3>1, <1>t DEF RecordReceipt, SetStatus, TableTypes, ControlTypes
  <2>4. ASSUME NEW result \in {"authorized", "applied", "failed", "rejected"}, Audit(Key(r), result)
        PROVE  TableTypes' /\ ControlTypes'
    BY <2>1, <2>4, <1>t DEF Audit, TableTypes, ControlTypes
  <2>5. ASSUME NEW reason \in Reasons, Signal(reason)
        PROVE  TableTypes' /\ ControlTypes'
    BY <2>5, <1>t DEF Signal, TableTypes, ControlTypes
  <2>6. ASSUME WasValid(Command(r)), ApplyEffect(Command(r))
        PROVE  TableTypes' /\ ControlTypes'
    <3>1. Writes(Command(r)) => Changed(Command(r)) \in Controls
      BY <2>6, <1>t, ChangedTypes DEF WasValid, ControlTypes
    <3>2. IsSignal(Command(r)) => WakeReason(Command(r)) \in Reasons
      BY DEF IsSignal, WakeReason, Reasons
    <3>3. TableTypes'
      BY <2>6, <3>2, <1>t DEF ApplyEffect, TableTypes
    <3>4. control' \in Controls
      BY <2>6, <3>1, <1>t DEF ApplyEffect, ControlTypes
    <3>5. applications' \in [Keys -> Nat]
      BY <2>1, <2>6, <1>t DEF ApplyEffect, ControlTypes
    <3> QED
      BY <3>3, <3>4, <3>5 DEF ControlTypes
  <2>7. ASSUME FromGithub(r),
               \/ \E status \in {"rejected", "processed", "ignored"} :
                     SetOutcome(job[r].delivery, status)
               \/ Signal("github-webhook")
        PROVE  TableTypes' /\ ControlTypes'
    BY <2>7, <1>t
       DEF FromGithub, SetOutcome, Signal, Reasons, TableTypes, ControlTypes, HandlerTypes
  <2> QED
    BY <2>2, <2>3, <2>4, <2>5, <2>6, <2>7, <1>1 DEF Effects
<1>3. CASE FromGithub(r) /\ (\/ \E status \in {"rejected", "processed", "ignored"} :
                                   SetOutcome(job[r].delivery, status)
                             \/ Signal("github-webhook"))
  BY <1>3, <1>t DEF FromGithub, SetOutcome, Signal, Reasons, TableTypes, ControlTypes, HandlerTypes
<1> QED
  BY <1>1, <1>2, <1>3 DEF Effects

(* A handler that goes on has what its new place needs.                    *)
LEMMA GoesOnTypes ==
    ASSUME TypeInv, NEW r \in Requests, GoesOn(r), CallFaults(r)
    PROVE  HandlerTypes' /\ FaultTypes' /\ HandlersHave'
<1>t. HandlerTypes /\ FaultTypes /\ HandlersHave
  BY TypeParts DEF TypeInv
<1>1. HandlerTypes'
  BY <1>t DEF HandlerTypes, GoesOn
<1>2. FaultTypes'
  BY <1>t, KeysOfCommands, ControlAssumption DEF FaultTypes, CallFaults
<1>3. ASSUME NEW s \in Requests PROVE HandlerHas(s)'
  <2>1. PICK place \in Places \ {"idle", "route"} :
           /\ pc' = [pc EXCEPT ![r] = place]
           /\ place \in CommandPlaces => Command(r) # None
           /\ place \in DeliveryPlaces => FromGithub(r)
           /\ place = "signal" => WakeReason(Command(r)) # None
    BY DEF GoesOn
  <2>2. HandlerHas(s) /\ HandlerHas(r) /\ job' = job
    BY <1>t DEF HandlersHave, GoesOn
  <2>3. CASE s = r
    <3>1. pc'[s] = place
      BY <2>1, <2>3, <1>t DEF HandlerTypes
    <3> QED
      BY <2>1, <2>2, <2>3, <3>1 DEF HandlerHas, Command, FromGithub, WakeReason
  <2>4. CASE s # r
    BY <2>1, <2>2, <2>4, <1>t DEF HandlerHas, Command, FromGithub, WakeReason, HandlerTypes
  <2> QED
    BY <2>3, <2>4
<1> QED
  BY <1>1, <1>2, <1>3 DEF HandlersHave

-----------------------------------------------------------------------------
(* A call keeps what is said of the other handlers and their commands.     *)

\* What a call of handler r leaves alone.
Frame(r) ==
    /\ job' = job /\ \A s \in Requests \ {r} : pc'[s] = pc[s]
    /\ disturbed \subseteq disturbed'
    /\ \A c \in AllCommands : /\ WasValid(c) => WasValid(c)'
                              /\ Settled(c) => Settled(c)'
                              /\ TookEffect(c) => TookEffect(c)'
    /\ \A k \in Keys : Command(r) = None \/ k # Key(r) => commands'[k] = commands[k]
    /\ \A k \in Keys : Command(r) = None \/ k # Key(r) \/ pc[r] # "apply" =>
          applications'[k] = applications[k]
    /\ \A d \in Deliveries :
          deliveries'[d] # deliveries[d] => FromGithub(r) /\ d = job[r].delivery

\* What the call has to keep of its own command and delivery.
Owned(r) ==
    /\ HandlerTrue(r)'
    /\ Command(r) # None =>
          /\ commands'[Key(r)] = "applied" => TookEffect(Command(r))'
          /\ applications'[Key(r)] > 0 => WasValid(Command(r))'
          /\ Command(r).type = "ade.decide" /\ applications'[Key(r)] > 0 => Settled(Command(r))'
          /\ Key(r) \notin disturbed' =>
                /\ applications'[Key(r)] <= 1 /\ HandlerQuiet(r)' /\ Remembered(Command(r))'
                /\ pc'[r] \in Window => \/ pc[r] \in Window
                                        \/ \A s \in Requests : ~InWindow(s, Key(r))
    /\ FromGithub(r) /\ deliveries'[job[r].delivery] = "processed"
          /\ Delivery[job[r].delivery].kind = "command" =>
          TookEffect(Delivery[job[r].delivery].command)'

(* The rows of a command settle once: what was valid stays so, an answer    *)
(* and the end of an execution are final.                                  *)
LEMMA EffectsLast ==
    ASSUME TypeInv, NEW r \in Requests, Effects(r), NEW c \in AllCommands
    PROVE  (WasValid(c) => WasValid(c)') /\ (Settled(c) => Settled(c)')
<1>1. CASE control' = control
  BY <1>1 DEF WasValid, Settled
<1>2. CASE ApplyEffect(Command(r)) /\ WasValid(Command(r)) /\ control' # control
  <2>1. control' = Changed(Command(r)) /\ Command(r).type \in Types /\ control \in Controls
    BY <1>2 DEF ApplyEffect, WasValid, TypeInv, TypeOK
  <2>2. Command(r).type \notin {"execution.safe-retry", "github.reconcile"}
    BY <1>2 DEF ApplyEffect, Writes
  <2>3. control'.execution = control.execution
    BY <2>1, <2>2 DEF Changed, Types, Controls
  <2>4. control'.decision = control.decision \/ control'.decision = "resolved"
    BY <2>1, <2>2 DEF Changed, Types, Controls
  <2> QED
    BY <2>3, <2>4 DEF WasValid, Settled
<1> QED
  BY <1>1, <1>2 DEF Effects, tables, SetStatus, RecordReceipt, Audit, Signal, SetOutcome

(* What a call writes is its own command's or delivery's.                  *)
LEMMA CallFrame ==
    ASSUME TypeInv, HandlersTrue, NEW r \in Requests, Calls(r)
    PROVE  Frame(r)
<1>1. GoesOn(r) /\ Effects(r) /\ CallFaults(r)
  BY CallsMove
<1>t. TableTypes /\ ControlTypes /\ HandlerTypes
  BY TypeParts DEF TypeInv
<1>2. job' = job /\ \A s \in Requests \ {r} : pc'[s] = pc[s]
  BY <1>1, <1>t DEF GoesOn, HandlerTypes
<1>3. disturbed \subseteq disturbed'
  BY <1>1 DEF CallFaults
<1>4. ASSUME NEW k \in Keys
      PROVE  /\ applications[k] > 0 => applications'[k] > 0
             /\ Command(r) = None \/ k # Key(r) => commands'[k] = commands[k]
             /\ Command(r) = None \/ k # Key(r) \/ pc[r] # "apply" =>
                   applications'[k] = applications[k]
  <2>1. CASE Command(r) # None /\ pc[r] = "apply" /\ ApplyEffect(Command(r))
    <3>1. commands' = commands /\ (\/ applications' = applications
                                   \/ applications' = [applications EXCEPT ![Key(r)] = @ + 1])
      BY <2>1 DEF ApplyEffect, Key
    <3>2. applications[k] \in Nat
      BY <1>t DEF ControlTypes
    <3> QED
      BY <2>1, <3>1, <3>2, <1>t DEF ControlTypes
  <2>2. CASE UNCHANGED applications /\ (Command(r) # None \/ UNCHANGED commands)
    <3>1. Command(r) = None \/ k # Key(r) => commands'[k] = commands[k]
      BY <1>1, <1>t, <2>2
         DEF Effects, tables, SetStatus, RecordReceipt, Audit, Signal, SetOutcome, ApplyEffect,
             TableTypes
    <3> QED
      BY <2>2, <3>1
  <2> QED
    BY <1>1, <2>1, <2>2
       DEF Effects, tables, SetStatus, RecordReceipt, Audit, Signal, SetOutcome
<1>5. ASSUME NEW c \in AllCommands
      PROVE  /\ WasValid(c) => WasValid(c)'
             /\ Settled(c) => Settled(c)'
             /\ TookEffect(c) => TookEffect(c)'
  <2>1. c.key \in Keys
    BY Zenon DEF Keys
  <2>2. (WasValid(c) => WasValid(c)') /\ (Settled(c) => Settled(c)')
    BY <1>1, EffectsLast
  <2> QED
    BY <2>1, <2>2, <1>4 DEF TookEffect
<1>6. ASSUME NEW d \in Deliveries, deliveries'[d] # deliveries[d]
      PROVE  FromGithub(r) /\ d = job[r].delivery
  BY <1>1, <1>6, <1>t
     DEF Effects, tables, SetStatus, RecordReceipt, Audit, Signal, SetOutcome, ApplyEffect,
             TableTypes
<1> QED
  BY <1>2, <1>3, <1>4, <1>5, <1>6 DEF Frame

(* What the call keeps of its own is all there is to keep.                 *)
LEMMA FrameKeeps ==
    ASSUME CommandInv, TypeInv', NEW r \in Requests, Frame(r), Owned(r)
    PROVE  CommandInv'
<1>t. TableTypes /\ ControlTypes /\ HandlerTypes /\ HandlersHave
  BY TypeParts DEF CommandInv, TypeInv
<1>j. \A s \in Requests : Command(s)' = Command(s) /\ Key(s)' = Key(s)
  BY DEF Frame, Command, Key
<1>k. /\ \A c \in AllCommands : c.key \in Keys
      /\ \A s \in Requests : Command(s) # None =>
            Command(s) \in AllCommands /\ Key(s) \in Keys /\ Key(s) = Command(s).key
  <2>1. \A c \in AllCommands : c.key \in Keys
    BY Zenon DEF Keys
  <2> QED
    BY <2>1, KeysOfCommands DEF CommandInv, Key
<1>c. ASSUME NEW c \in AllCommands, Command(r) # None, c.key = Key(r)
      PROVE  c = Command(r)
  BY <1>c, <1>k, ControlAssumption
<1>1. HandlersTrue'
  <2>1. ASSUME NEW s \in Requests PROVE HandlerTrue(s)'
    <3>1. CASE s = r
      BY <3>1 DEF Owned
    <3>2. CASE s # r
      <4>1. HandlerTrue(s) /\ HandlerHas(s)
        BY <1>t DEF CommandInv, Told, HandlersTrue, HandlersHave
      <4>2. pc'[s] = pc[s] /\ job' = job
        BY <3>2 DEF Frame
      <4>3. Command(s) # None => (WasValid(Command(s)) => WasValid(Command(s))')
                              /\ (TookEffect(Command(s)) => TookEffect(Command(s))')
        BY <1>k, <1>j DEF Frame
      <4>4. pc[s] \in CommandPlaces => Command(s) # None
        BY <4>1 DEF HandlerHas
      <4> QED
        BY <4>1, <4>2, <4>3, <4>4, <1>j DEF HandlerTrue, CommandPlaces, Taken
    <3> QED
      BY <3>1, <3>2
  <2> QED
    BY <2>1 DEF HandlersTrue
<1>2. AppliedWasValid' /\ DecidedOnce'
  <2>1. ASSUME NEW c \in AllCommands, applications'[c.key] > 0
        PROVE  WasValid(c)' /\ (c.type = "ade.decide" => Settled(c)')
    <3>1. CASE Command(r) # None /\ c.key = Key(r)
      BY <2>1, <3>1, <1>c, <1>j DEF Owned
    <3>2. CASE Command(r) = None \/ c.key # Key(r)
      BY <2>1, <3>2, <1>k DEF Frame, CommandInv, Told, AppliedWasValid, DecidedOnce
    <3> QED
      BY <3>1, <3>2
  <2> QED
    BY <2>1 DEF AppliedWasValid, DecidedOnce
<1>3. AppliedOrSettled'
  <2>1. ASSUME NEW c \in AllCommands, commands'[c.key] = "applied" PROVE TookEffect(c)'
    <3>1. CASE Command(r) # None /\ c.key = Key(r)
      BY <2>1, <3>1, <1>c, <1>j DEF Owned
    <3>2. CASE Command(r) = None \/ c.key # Key(r)
      BY <2>1, <3>2, <1>k DEF Frame, CommandInv, Told, AppliedOrSettled
    <3> QED
      BY <3>1, <3>2
  <2>2. ASSUME NEW d \in Deliveries, deliveries'[d] = "processed", Delivery[d].kind = "command"
        PROVE  TookEffect(Delivery[d].command)'
    <3>1. CASE deliveries'[d] = deliveries[d]
      <4>1. Delivery[d].command \in AllCommands
        BY <2>2 DEF AllCommands
      <4>2. TookEffect(Delivery[d].command)
        BY <2>2, <3>1 DEF CommandInv, Told, AppliedOrSettled
      <4> QED
        BY <4>1, <4>2 DEF Frame
    <3>2. CASE deliveries'[d] # deliveries[d]
      BY <2>2, <3>2 DEF Frame, Owned
    <3> QED
      BY <3>1, <3>2
  <2>3. ASSUME NEW s \in Requests, pc'[s] = "applied", Command(s)' # None
        PROVE  TookEffect(Command(s))'
    BY <2>3, <1>1 DEF HandlersTrue, HandlerTrue
  <2> QED
    BY <2>1, <2>2, <2>3 DEF AppliedOrSettled
<1>4. AppliedOnce'
  <2>1. ASSUME NEW k \in Keys, k \notin disturbed' PROVE applications'[k] <= 1
    <3>1. CASE Command(r) # None /\ k = Key(r)
      BY <2>1, <3>1 DEF Owned
    <3>2. CASE Command(r) = None \/ k # Key(r)
      BY <2>1, <3>2 DEF Frame, CommandInv, Quiet, AppliedOnce
    <3> QED
      BY <3>1, <3>2
  <2> QED
    BY <2>1 DEF AppliedOnce
<1>5. HandlersQuiet'
  <2>1. ASSUME NEW s \in Requests, Command(s)' # None, Key(s)' \notin disturbed'
        PROVE  HandlerQuiet(s)'
    <3>1. CASE s = r
      BY <2>1, <3>1, <1>j DEF Owned
    <3>2. CASE s # r
      <4>1. Command(s) \in AllCommands /\ Key(s) \in Keys /\ Key(s) \notin disturbed /\ pc'[s] = pc[s]
        BY <2>1, <3>2, <1>j, <1>k DEF Frame
      <4>2. Settled(Command(s)) => Settled(Command(s))'
        BY <4>1, <1>j DEF Frame
      <4>3. HandlerQuiet(s)
        BY DEF CommandInv, Quiet, HandlersQuiet
      <4>4. CASE applications'[Key(s)] = applications[Key(s)]
        BY <2>1, <4>1, <4>2, <4>3, <4>4, <1>j DEF HandlerQuiet
      <4>5. CASE applications'[Key(s)] # applications[Key(s)]
        <5>1. Command(r) # None /\ Key(s) = Key(r) /\ pc[r] = "apply"
          BY <4>1, <4>5 DEF Frame
        <5>2. Command(s) = Command(r)
          BY <4>1, <5>1, <1>c, <1>k, <2>1, <1>j
        <5>3. ~(pc[s] \in Window)
          BY <3>2, <4>1, <5>1, <5>2, <2>1, <1>j, <1>k
             DEF CommandInv, Quiet, Alone, Applies, Window
        <5> QED
          BY <2>1, <4>1, <4>2, <4>3, <5>3, <1>j DEF HandlerQuiet, Window
      <4> QED
        BY <4>4, <4>5
    <3> QED
      BY <3>1, <3>2
  <2> QED
    BY <2>1 DEF HandlersQuiet, HandlerQuiet
<1>6. LedgerKept'
  <2>1. ASSUME NEW c \in AllCommands, c.key \notin disturbed' PROVE Remembered(c)'
    <3>1. CASE Command(r) # None /\ c.key = Key(r)
      BY <2>1, <3>1, <1>c, <1>j DEF Owned
    <3>2. CASE Command(r) = None \/ c.key # Key(r)
      <4>1. Remembered(c)
        BY <2>1 DEF Frame, CommandInv, Quiet, LedgerKept
      <4>2. /\ commands'[c.key] = commands[c.key] /\ applications'[c.key] = applications[c.key]
            /\ Settled(c) => Settled(c)'
        BY <3>2, <1>k DEF Frame
      <4>3. ASSUME NEW s \in Requests, Command(s) = c, pc[s] \in Taken
            PROVE  Command(s)' = c /\ pc'[s] \in Taken
        <5>1. s # r
          BY <3>2, <4>3, <1>k, ControlAssumption
        <5> QED
          BY <4>3, <5>1, <1>j DEF Frame
      <4> QED
        BY <4>1, <4>2, <4>3 DEF Remembered
    <3> QED
      BY <3>1, <3>2
  <2> QED
    BY <2>1 DEF LedgerKept
<1>7. Alone'
  <2>1. ASSUME NEW c \in AllCommands, c.key \notin disturbed', NEW s \in Requests, NEW u \in Requests,
               Applies(s, c)', Applies(u, c)'
        PROVE  s = u
    <3>1. /\ Command(s) = c /\ Command(u) = c /\ c # None /\ c.key \notin disturbed
          /\ \A v \in Requests \ {r} : pc'[v] = pc[v]
      BY <2>1, <1>j, ControlAssumption DEF Applies, Frame
    <3>2. ASSUME NEW v \in Requests, v # r, Command(r) = c, Command(v) = c,
                 pc'[r] \in Window, pc[v] \in Window
          PROVE  FALSE
      <4>1. Key(r) = c.key /\ Key(v) = c.key
        BY <3>2 DEF Key
      <4>2. pc[r] \in Window \/ \A w \in Requests : ~InWindow(w, Key(r))
        BY <2>1, <3>1, <3>2, <4>1 DEF Owned
      <4>3. pc[r] \in Window
        BY <3>1, <3>2, <4>1, <4>2 DEF InWindow
      <4> QED
        BY <3>1, <3>2, <4>3 DEF CommandInv, Quiet, Alone, Applies
    <3>3. CASE s = r /\ u # r
      BY <2>1, <3>1, <3>2, <3>3 DEF Applies
    <3>4. CASE u = r /\ s # r
      BY <2>1, <3>1, <3>2, <3>4 DEF Applies
    <3>5. CASE s # r /\ u # r
      BY <2>1, <3>1, <3>5 DEF Applies, CommandInv, Quiet, Alone
    <3> QED
      BY <3>3, <3>4, <3>5
  <2> QED
    BY <2>1 DEF Alone
<1> QED
  BY <1>1, <1>2, <1>3, <1>4, <1>5, <1>6, <1>7 DEF CommandInv, Told, Quiet

-----------------------------------------------------------------------------
(* What each call keeps of its own.                                        *)

(* Applying a valid command takes effect: it writes, or nothing is left.   *)
LEMMA ApplyTakesEffect ==
    ASSUME TypeInv, NEW c \in AllCommands, WasValid(c), ApplyEffect(c)
    PROVE  TookEffect(c)'
<1>t. control \in Controls /\ applications \in [Keys -> Nat] /\ c.key \in Keys
  <2>1. c.key \in Keys
    BY Zenon DEF Keys
  <2> QED
    BY <2>1 DEF TypeInv, TypeOK
<1>1. CASE Writes(c) \/ IsSignal(c)
  <2>1. applications' = [applications EXCEPT ![c.key] = @ + 1]
    BY <1>1 DEF ApplyEffect
  <2>2. applications'[c.key] > 0
    BY <2>1, <1>t
  <2> QED
    BY <2>2 DEF TookEffect
<1>2. CASE ~Writes(c) /\ ~IsSignal(c)
  <2>1. control' = control
    BY <1>2 DEF ApplyEffect
  <2>2. Settled(c)
    BY <1>2, <1>t DEF Writes, IsSignal, WasValid, Settled, Controls
  <2> QED
    BY <2>1, <2>2 DEF TookEffect, Settled
<1> QED
  BY <1>1, <1>2

(* A handler's new place is true of its command.                           *)
LEMMA CallTrue ==
    ASSUME CommandInv, NEW r \in Requests, Calls(r)
    PROVE  HandlerTrue(r)'
<1>i. TypeInv /\ HandlersTrue /\ HandlerTrue(r) /\ HandlerHas(r)
  BY DEF CommandInv, Told, HandlersTrue, TypeInv, HandlersHave
<1>f. Frame(r) /\ GoesOn(r)
  BY <1>i, CallFrame, CallsMove
<1>j. job' = job /\ Command(r)' = Command(r) /\ Key(r)' = Key(r)
  BY <1>f DEF Frame, Command, Key
<1>p. \A place : Goes(r, place) => pc'[r] = place
  BY <1>i DEF Goes, TypeInv, TypeOK
<1>k. Command(r) # None => /\ WasValid(Command(r)) => WasValid(Command(r))'
                           /\ TookEffect(Command(r)) => TookEffect(Command(r))'
  BY <1>i, <1>f, <1>j, KeysOfCommands DEF Frame
<1>c. pc[r] \in CommandPlaces => Command(r) # None
  BY <1>i DEF HandlerHas
<1> USE DEF Call, Answers, Fails, HandlerTrue, CommandPlaces, Throws, Succeeds, Taken
<1>1. CASE Serve(r) \/ Explain(r) \/ Acknowledge(r) \/ AuditDenied(r)
  BY <1>1, <1>i, <1>j, <1>k, <1>p DEF Serve, Explain, Acknowledge, AuditDenied
<1>2. CASE Wake(r) \/ Refuse(r) \/ Deny(r) \/ Processed(r)
  BY <1>2, <1>i, <1>j, <1>k, <1>p DEF Wake, Refuse, Deny, Processed
<1>3. CASE \/ RecordRejected(r) \/ MarkRejected(r) \/ AuditRejected(r)
           \/ MarkFailed(r) \/ AuditFailed(r)
  BY <1>3, <1>i, <1>j, <1>p DEF RecordRejected, MarkRejected, AuditRejected, MarkFailed, AuditFailed
<1>4. CASE Validate(r)
  <2>1. Valid(Command(r)) => WasValid(Command(r))
    BY DEF Valid, Resolvable, WasValid
  <2>2. pc'[r] \in {"record", "record rejected"}
    BY <1>4, <1>p DEF Validate
  <2>3. pc'[r] = "record" => Valid(Command(r))
    BY <1>4, <1>p DEF Validate
  <2> QED
    BY <1>4, <1>c, <1>j, <1>k, <2>1, <2>2, <2>3 DEF Validate
<1>5. CASE Record(r)
  <2>1. Command(r) # None /\ pc[r] = "record" /\ Command(r) \in AllCommands
        /\ Key(r) = Command(r).key
    BY <1>5, <1>c, <1>i, KeysOfCommands DEF Record, Key
  <2>2. commands[Key(r)] = "applied" => TookEffect(Command(r))'
    BY <2>1, <1>k DEF CommandInv, Told, AppliedOrSettled
  <2>3. \/ commands[Key(r)] = "applied" /\ pc'[r] = Succeeds(r)
        \/ pc'[r] = "audit authorized" \/ pc'[r] = Throws(r)
    BY <1>5, <1>p DEF Record, Enter
  <2> QED
    BY <2>1, <2>2, <2>3, <1>i, <1>j, <1>k
<1>6. CASE AuditAuthorized(r) \/ MarkAuthorized(r)
  BY <1>6, <1>i, <1>c, <1>j, <1>k, <1>p DEF AuditAuthorized, MarkAuthorized
<1>7. CASE Apply(r)
  <2>1. Command(r) \in AllCommands /\ WasValid(Command(r))
    BY <1>7, <1>c, <1>i, KeysOfCommands DEF Apply
  <2>2. pc'[r] \in Taken => TookEffect(Command(r))'
    <3>1. pc'[r] \in Taken => ApplyEffect(Command(r))
      BY <1>7, <1>p DEF Apply
    <3> QED
      BY <2>1, <3>1, <1>i, <1>j, ApplyTakesEffect
  <2>3. pc'[r] \in Taken \union {"mark failed"}
    BY <1>7, <1>p DEF Apply
  <2> QED
    BY <2>2, <2>3, <1>j
<1>8. CASE SignalWake(r) \/ MarkApplied(r) \/ AuditApplied(r)
  BY <1>8, <1>i, <1>c, <1>j, <1>k, <1>p DEF SignalWake, MarkApplied, AuditApplied
<1> QED
  BY <1>1, <1>2, <1>3, <1>4, <1>5, <1>6, <1>7, <1>8 DEF Calls

(* The receipt and the delivery tell the truth after the call.             *)
LEMMA CallTells ==
    ASSUME CommandInv, NEW r \in Requests, Calls(r)
    PROVE  /\ Command(r) # None =>
                 /\ commands'[Key(r)] = "applied" => TookEffect(Command(r))'
                 /\ applications'[Key(r)] > 0 => WasValid(Command(r))'
                 /\ Command(r).type = "ade.decide" /\ applications'[Key(r)] > 0
                       => Settled(Command(r))'
           /\ FromGithub(r) /\ deliveries'[job[r].delivery] = "processed"
                 /\ Delivery[job[r].delivery].kind = "command" =>
                 TookEffect(Delivery[job[r].delivery].command)'
<1>i. TypeInv /\ HandlersTrue /\ HandlerTrue(r) /\ HandlerHas(r)
  BY DEF CommandInv, Told, HandlersTrue, TypeInv, HandlersHave
<1>f. Frame(r) /\ Effects(r)
  BY <1>i, CallFrame, CallsMove
<1>t. TableTypes /\ ControlTypes /\ HandlerTypes
  BY <1>i, TypeParts DEF TypeInv
<1>k. Command(r) # None => /\ Command(r) \in AllCommands /\ Key(r) \in Keys
                           /\ Key(r) = Command(r).key /\ Command(r)' = Command(r)
  BY <1>i, <1>f, KeysOfCommands DEF Key, Frame, Command
<1>1. ASSUME Command(r) # None, commands'[Key(r)] = "applied"
      PROVE  TookEffect(Command(r))'
  <2>1. commands[Key(r)] = "applied" \/ pc[r] = "mark applied"
    <3>1. CASE commands' = commands
      BY <1>1, <3>1
    <3>2. ASSUME NEW status \in Statuses, SetStatus(Key(r), status),
                 status = "applied" => pc[r] = "mark applied"
          PROVE  pc[r] = "mark applied"
      BY <1>1, <3>2, <1>k, <1>t DEF SetStatus, TableTypes
    <3>3. CASE RecordReceipt(Key(r))
      BY <1>1, <3>3, <1>k, <1>t DEF RecordReceipt, SetStatus, TableTypes
    <3> QED
      BY <3>1, <3>2, <3>3, <1>f DEF Effects, tables, Audit, Signal, SetOutcome, ApplyEffect
  <2>2. TookEffect(Command(r))
    BY <2>1, <1>1, <1>k, <1>i DEF CommandInv, Told, AppliedOrSettled, HandlerTrue, Taken
  <2> QED
    BY <2>2, <1>1, <1>k, <1>f DEF Frame
<1>2. ASSUME Command(r) # None, applications'[Key(r)] > 0
      PROVE  /\ WasValid(Command(r))'
             /\ Command(r).type = "ade.decide" => Settled(Command(r))'
  <2>1. CASE UNCHANGED applications
    <3>1. /\ WasValid(Command(r))
          /\ Command(r).type = "ade.decide" => Settled(Command(r))
      BY <1>2, <2>1, <1>k DEF CommandInv, Told, AppliedWasValid, DecidedOnce
    <3> QED
      BY <3>1, <1>2, <1>k, <1>f DEF Frame
  <2>2. CASE WasValid(Command(r)) /\ ApplyEffect(Command(r))
    <3>1. WasValid(Command(r))'
      BY <2>2, <1>2, <1>k, <1>f DEF Frame
    <3>2. ASSUME Command(r).type = "ade.decide" PROVE Settled(Command(r))'
      <4>1. CASE Writes(Command(r))
        <5>1. control' = [control EXCEPT !.decision = "resolved", !.answer = Command(r).option]
          BY <2>2, <3>2, <4>1 DEF ApplyEffect, Changed
        <5>2. control'.decision = "resolved"
          BY <5>1, <1>t DEF ControlTypes, Controls
        <5> QED
          BY <1>2, <1>k, <3>2, <5>2 DEF Settled
      <4>2. CASE ~Writes(Command(r))
        <5>1. control.decision = "resolved"
          BY <2>2, <3>2, <4>2, <1>t DEF Writes, WasValid, ControlTypes, Controls
        <5> QED
          BY <1>2, <1>k, <3>2, <5>1, <1>f DEF Settled, Frame
      <4> QED
        BY <4>1, <4>2
    <3> QED
      BY <3>1, <3>2
  <2> QED
    BY <2>1, <2>2, <1>f DEF Effects, RecordReceipt, SetStatus, Audit, Signal, SetOutcome
<1>3. ASSUME FromGithub(r), deliveries'[job[r].delivery] = "processed",
             Delivery[job[r].delivery].kind = "command"
      PROVE  TookEffect(Delivery[job[r].delivery].command)'
  <2> DEFINE d == job[r].delivery
  <2>k. d \in Deliveries /\ Delivery[d].command \in AllCommands
    BY <1>3, <1>t DEF FromGithub, HandlerTypes, AllCommands
  <2>1. deliveries[d] = "processed" \/ pc[r] = "processed"
    <3>1. CASE deliveries' = deliveries
      BY <1>3, <3>1
    <3>2. ASSUME NEW status \in {"rejected", "processed", "ignored"}, SetOutcome(d, status),
                 status = "processed" => pc[r] = "processed"
          PROVE  pc[r] = "processed"
      BY <1>3, <3>2, <2>k, <1>t DEF SetOutcome, TableTypes
    <3> QED
      BY <3>1, <3>2, <1>f DEF Effects, tables, SetStatus, RecordReceipt, Audit, Signal, ApplyEffect
  <2>2. TookEffect(Delivery[d].command)
    <3>1. CASE deliveries[d] = "processed"
      BY <3>1, <2>k, <1>3 DEF CommandInv, Told, AppliedOrSettled
    <3>2. CASE pc[r] = "processed"
      BY <3>2, <1>3, <1>i DEF HandlerTrue, HandlerHas
    <3> QED
      BY <2>1, <3>1, <3>2
  <2> QED
    BY <2>2, <2>k, <1>f DEF Frame
<1> QED
  BY <1>1, <1>2, <1>3

(* A call that leaves its key undisturbed forgets no application and begins *)
(* none beside another.                                                    *)
LEMMA CallQuiet ==
    ASSUME CommandInv, NEW r \in Requests, Calls(r), Command(r) # None, Key(r) \notin disturbed'
    PROVE  /\ applications'[Key(r)] <= 1 /\ HandlerQuiet(r)' /\ Remembered(Command(r))'
           /\ pc'[r] \in Window => pc[r] \in Window \/ \A s \in Requests : ~InWindow(s, Key(r))
<1>0. PICK c, k : c = Command(r) /\ k = Key(r)
  OBVIOUS
<1>i. TypeInv /\ HandlersTrue /\ HandlerTrue(r) /\ HandlerHas(r)
  BY DEF CommandInv, Told, HandlersTrue, TypeInv, HandlersHave
<1>f. Frame(r)
  BY <1>i, CallFrame
<1>t. /\ commands \in [Keys -> Statuses \union {None}]
      /\ applications \in [Keys -> Nat] /\ pc \in [Requests -> Places]
  BY <1>i DEF TypeInv, TypeOK
<1>c. c \in AllCommands /\ k \in Keys /\ k = c.key
  BY <1>0, <1>i, KeysOfCommands DEF Key
<1>j. job' = job /\ Command(r)' = c /\ Key(r)' = k
  BY <1>0, <1>f DEF Frame, Command, Key
<1>p. \A place : Goes(r, place) => pc'[r] = place
  BY <1>t DEF Goes
<1>d. k \notin disturbed
  BY <1>0, <1>f DEF Frame
<1>e. disturbed' # disturbed \union {Key(r)}
  OBVIOUS
<1>a. applications[k] \in Nat /\ applications[k] <= 1
  BY <1>c, <1>d, <1>t DEF CommandInv, Quiet, AppliedOnce
<1>g. Settled(c) => Settled(c)'
  BY <1>c, <1>f DEF Frame
<1>h. /\ pc[r] \notin {"mark failed", "audit failed"}
      /\ pc[r] \in {"audit authorized", "mark authorized", "apply"} =>
            applications[k] = 0 \/ Settled(c)
      /\ pc[r] \in {"record rejected", "mark rejected"} =>
            c.type \notin Types \/ c.type = "ade.decide" \/ Settled(c)
  BY <1>0, <1>d DEF CommandInv, Quiet, HandlersQuiet, HandlerQuiet
<1>l. \/ pc'[r] \notin {"mark failed", "audit failed", "audit authorized", "mark authorized",
                        "apply", "record rejected", "mark rejected"}
      \/ /\ pc'[r] \in {"audit authorized", "mark authorized", "apply"}
         /\ applications'[k] = 0 \/ Settled(c)'
      \/ /\ pc'[r] \in {"record rejected", "mark rejected"}
         /\ c.type \notin Types \/ c.type = "ade.decide" \/ Settled(c)'
      => HandlerQuiet(r)'
  BY <1>j DEF HandlerQuiet, Settled
\* The application is remembered: the receipt says so, somebody is about to
\* write it, or nothing can follow.
<1>m. Remembered(c)
  BY <1>c, <1>d DEF CommandInv, Quiet, LedgerKept
<1>r. ASSUME \/ /\ applications'[k] = applications[k]
                /\ commands[k] = "applied" => commands'[k] = "applied"
                /\ pc[r] \in Taken => pc'[r] \in Taken
             \/ commands'[k] = "applied" \/ pc'[r] \in Taken
             \/ applications'[k] = 0 \/ Settled(c)'
      PROVE  Remembered(c)'
  <2>1. CASE commands'[k] = "applied" \/ applications'[k] = 0 \/ Settled(c)' \/ pc'[r] \in Taken
    BY <2>1, <1>c, <1>j DEF Remembered
  <2>2. CASE /\ applications'[k] = applications[k]
             /\ commands[k] = "applied" => commands'[k] = "applied"
             /\ pc[r] \in Taken => pc'[r] \in Taken
    <3>1. ASSUME NEW s \in Requests, Command(s) = c, pc[s] \in Taken
          PROVE  Command(s)' = c /\ pc'[s] \in Taken
      <4>1. Command(s)' = Command(s)
        BY <1>f DEF Frame, Command
      <4> QED
        BY <3>1, <4>1, <2>2, <1>f DEF Frame
    <3> QED
      BY <2>2, <3>1, <1>m, <1>g, <1>c DEF Remembered
  <2> QED
    BY <1>r, <2>1, <2>2
<1>z. /\ Remembered(c)' => Remembered(Command(r))'
      /\ applications'[k] <= 1 => applications'[Key(r)] <= 1
  BY <1>0, <1>j DEF Remembered, Settled
<1>s. ASSUME UNCHANGED <<commands, applications>>, pc[r] \in Taken => pc'[r] \in Taken
      PROVE  applications'[k] <= 1 /\ Remembered(c)'
  BY <1>s, <1>a, <1>r
<1>w. ASSUME pc'[r] \notin Window \/ pc[r] \in Window
      PROVE  pc'[r] \in Window => pc[r] \in Window \/ \A s \in Requests : ~InWindow(s, Key(r))
  BY <1>w
<1> USE DEF Call, Answers, Fails, Forgetful, NoEffect, tables
<1>1. CASE Serve(r) \/ Explain(r) \/ Acknowledge(r) \/ AuditDenied(r)
  <2>1. UNCHANGED <<commands, applications>> /\ pc[r] \notin Taken
    BY <1>1 DEF Serve, Explain, Acknowledge, AuditDenied, Taken
  <2>2. pc'[r] \in {"processed", "denied", "wake", "deny", "audit denied", "refused", "error"}
    BY <1>1, <1>p DEF Serve, Explain, Acknowledge, AuditDenied
  <2> QED
    BY <1>s, <1>l, <1>w, <2>1, <2>2, <1>0, <1>z DEF Window
<1>2. CASE Wake(r) \/ Refuse(r) \/ Deny(r) \/ Processed(r)
  <2>1. UNCHANGED <<commands, applications>> /\ pc[r] \notin Taken
    BY <1>2 DEF Wake, Refuse, Deny, Processed, Taken, Signal, SetOutcome
  <2>2. pc'[r] \in {"applied", "explain", "denied", "wake", "acknowledge", "error", "audit denied",
                    "refused"}
    BY <1>2, <1>p DEF Wake, Refuse, Deny, Processed
  <2> QED
    BY <1>s, <1>l, <1>w, <2>1, <2>2, <1>0, <1>z DEF Window
<1>3. CASE AuditRejected(r) \/ AuditApplied(r)
  <2>1. UNCHANGED <<commands, applications>> /\ pc[r] \notin Taken
    BY <1>3 DEF AuditRejected, AuditApplied, Taken, Audit
  <2>2. pc'[r] \in {"refused", "error", "processed", "applied"}
    BY <1>3, <1>e, <1>p DEF AuditRejected, AuditApplied, Throws, Succeeds
  <2> QED
    BY <1>s, <1>l, <1>w, <2>1, <2>2, <1>0, <1>z DEF Window
<1>4. CASE AuditAuthorized(r)
  <2>1. UNCHANGED <<commands, applications>> /\ pc[r] = "audit authorized"
    BY <1>4 DEF AuditAuthorized, Audit
  <2>2. pc'[r] \in {"mark authorized", "refused", "error"}
    BY <1>4, <1>p DEF AuditAuthorized, Throws
  <2> QED
    BY <1>s, <1>l, <1>w, <1>h, <1>g, <2>1, <2>2, <1>0, <1>z DEF Taken, Window
<1>5. CASE SignalWake(r)
  <2>1. UNCHANGED <<commands, applications>> /\ pc[r] = "signal" /\ pc'[r] = "mark applied"
    BY <1>5, <1>e, <1>p DEF SignalWake, Signal
  <2> QED
    BY <1>s, <1>l, <1>w, <2>1, <1>0, <1>z DEF Taken, Window
<1>6. CASE Validate(r)
  <2>1. UNCHANGED <<commands, applications>> /\ control' = control /\ pc[r] = "validate"
    BY <1>6 DEF Validate
  <2>2. pc'[r] = IF Valid(c) THEN "record" ELSE "record rejected"
    BY <1>6, <1>e, <1>p, <1>0 DEF Validate
  <2>3. ~Valid(c) => c.type \notin Types \/ c.type = "ade.decide" \/ Settled(c)
    BY DEF Valid, Resolvable, Settled
  <2>4. HandlerQuiet(r)'
    BY <2>2, <2>3, <1>g, <1>l
  <2> QED
    BY <1>s, <1>w, <2>1, <2>2, <2>4, <1>0, <1>z DEF Taken, Window
<1>7. CASE RecordRejected(r)
  <2>1. pc[r] = "record rejected" /\ (RecordReceipt(k) \/ UNCHANGED <<tables, applications>>)
        /\ pc'[r] \in {"mark rejected", "refused", "error"}
    BY <1>7, <1>p, <1>0 DEF RecordRejected, Throws
  <2>2. applications' = applications /\ (commands[k] = "applied" => commands'[k] = "applied")
    BY <2>1, <1>c, <1>t, ControlAssumption DEF RecordReceipt, SetStatus
  <2>3. Remembered(c)'
    BY <2>1, <2>2, <1>r DEF Taken
  <2>4. HandlerQuiet(r)'
    BY <2>1, <1>h, <1>g, <1>l
  <2> QED
    BY <2>1, <2>2, <2>3, <2>4, <1>a, <1>w, <1>0, <1>z DEF Window
<1>8. CASE MarkRejected(r)
  <2>1. pc[r] = "mark rejected" /\ applications' = applications
        /\ pc'[r] \in {"audit rejected", "refused", "error"}
    BY <1>8, <1>p DEF MarkRejected, SetStatus, Throws
  <2>2. applications[k] = 0 \/ Settled(c)
    <3>1. c.type \notin Types => applications[k] = 0
      BY <1>a, <1>c DEF CommandInv, Told, AppliedWasValid, WasValid
    <3>2. c.type = "ade.decide" => applications[k] = 0 \/ Settled(c)
      BY <1>a, <1>c DEF CommandInv, Told, DecidedOnce
    <3> QED
      BY <3>1, <3>2, <2>1, <1>h
  <2>3. Remembered(c)' /\ HandlerQuiet(r)'
    BY <2>1, <2>2, <1>r, <1>g, <1>l
  <2> QED
    BY <2>1, <2>3, <1>a, <1>w, <1>0, <1>z DEF Window
<1>9. CASE MarkAuthorized(r)
  <2>1. pc[r] = "mark authorized" /\ applications' = applications
        /\ pc'[r] \in {"apply", "refused", "error"}
    BY <1>9, <1>p DEF MarkAuthorized, SetStatus, Throws
  <2>2. applications[k] = 0 \/ Settled(c)
    BY <2>1, <1>h
  <2>3. Remembered(c)' /\ HandlerQuiet(r)'
    BY <2>1, <2>2, <1>r, <1>g, <1>l
  <2> QED
    BY <2>1, <2>3, <1>a, <1>w, <1>0, <1>z DEF Window
<1>10. CASE MarkApplied(r)
  <2>1. SetStatus(k, "applied") /\ pc[r] = "mark applied" /\ pc'[r] = "audit applied"
    BY <1>10, <1>e, <1>p, <1>0 DEF MarkApplied
  <2>2. commands'[k] = "applied" /\ applications' = applications
    BY <2>1, <1>c, <1>t DEF SetStatus
  <2> QED
    BY <2>1, <2>2, <1>r, <1>l, <1>w, <1>a, <1>0, <1>z DEF Window
<1>11. CASE MarkFailed(r) \/ AuditFailed(r)
  BY <1>11, <1>h DEF MarkFailed, AuditFailed
<1>12. CASE Apply(r)
  <2>1. ApplyEffect(c) /\ pc[r] = "apply" /\ pc'[r] \in Taken
    BY <1>12, <1>e, <1>p, <1>0 DEF Apply, Taken
  <2>2. applications'[k] <= 1
    <3>1. CASE applications' = applications
      BY <3>1, <1>a
    <3>2. CASE Writes(c) \/ IsSignal(c)
      <4>1. applications'[k] = applications[k] + 1
        BY <2>1, <3>2, <1>c, <1>t DEF ApplyEffect
      <4>2. ~Settled(c)
        BY <3>2, <1>i DEF Settled, Writes, IsSignal, TypeInv, TypeOK, Controls
      <4>3. applications[k] = 0
        BY <2>1, <4>2, <1>h
      <4> QED
        BY <4>1, <4>3
    <3> QED
      BY <2>1, <3>1, <3>2 DEF ApplyEffect
  <2>3. Remembered(c)' /\ HandlerQuiet(r)'
    BY <2>1, <1>r, <1>l DEF Taken
  <2> QED
    BY <2>1, <2>2, <2>3, <1>w, <1>0, <1>z DEF Window
<1>13. CASE Record(r)
  <2>1. pc[r] = "record" /\ (RecordReceipt(k) \/ UNCHANGED <<tables, applications>>)
    BY <1>13, <1>0 DEF Record, Enter
  <2>2. applications' = applications /\ (commands[k] = "applied" => commands'[k] = "applied")
    BY <2>1, <1>c, <1>t, ControlAssumption DEF RecordReceipt, SetStatus
  <2>3. Remembered(c)'
    BY <2>1, <2>2, <1>r DEF Taken
  <2>4. \/ pc'[r] \in {"applied", "processed", "error", "refused"}
        \/ /\ commands[k] # "applied" /\ pc'[r] = "audit authorized"
           /\ \A s \in Requests : ~InWindow(s, k)
    BY <1>13, <1>0, <1>p, <1>e DEF Record, Enter, Succeeds, Throws
  <2>5. HandlerQuiet(r)'
    <3>1. CASE pc'[r] \in {"applied", "processed", "error", "refused"}
      BY <3>1, <1>l
    <3>2. CASE /\ commands[k] # "applied" /\ pc'[r] = "audit authorized"
               /\ \A s \in Requests : ~InWindow(s, k)
      <4>1. \A s \in Requests : ~(Command(s) = c /\ pc[s] \in Taken)
        BY <3>2, <1>0 DEF InWindow, Key, Taken, Window
      <4>2. applications[k] = 0 \/ Settled(c)
        <5>1. applications[c.key] > 0 /\ commands[c.key] # "applied" => Settled(c)
          BY <4>1, <1>m, Zenon DEF Remembered
        <5>2. applications[k] = 0 \/ applications[c.key] > 0
          BY ONLY <1>a, <1>c
        <5> QED
          BY <5>1, <5>2, <3>2, <1>c
      <4>3. applications'[k] = 0 \/ Settled(c)'
        BY <4>2, <2>2, <1>g
      <4>4. pc'[r] = "audit authorized"
        BY <3>2
      <4> QED
        BY <4>3, <4>4, <1>l
    <3> QED
      BY <2>4, <3>1, <3>2
  <2>6. pc'[r] \in Window => pc[r] \in Window \/ \A s \in Requests : ~InWindow(s, Key(r))
    BY <2>4, <1>0 DEF Window
  <2> QED
    BY <2>2, <2>3, <2>5, <2>6, <1>a, <1>0, <1>z
<1> QED
  BY <1>1, <1>2, <1>3, <1>4, <1>5, <1>6, <1>7, <1>8, <1>9, <1>10, <1>11, <1>12, <1>13 DEF Calls

(* A call of a handler keeps the invariant.                                *)
LEMMA CallKeeps ==
    ASSUME CommandInv, NEW r \in Requests, Calls(r)
    PROVE  CommandInv'
<1>1. TypeInv /\ HandlersTrue
  BY DEF CommandInv, Told
<1>2. GoesOn(r) /\ Effects(r) /\ CallFaults(r) /\ Frame(r)
  BY <1>1, CallsMove, CallFrame
<1>3. TypeInv'
  BY <1>1, <1>2, GoesOnTypes, EffectTypes, NextTypeParts DEF TypeInv
<1>4. Owned(r)
  BY CallTrue, CallTells, CallQuiet DEF Owned
<1> QED
  BY <1>2, <1>3, <1>4, FrameKeeps

-----------------------------------------------------------------------------
(* Handlers that receive their command or delivery.                        *)

\* Handler r takes up command c, or none, and nothing is applied or reported.
TakesUp(r, c) ==
    /\ UNCHANGED <<commands, control, applications, disturbed>>
    /\ \A d \in Deliveries : deliveries'[d] = "processed" => deliveries[d] = "processed"
    /\ Command(r) = None /\ Command(r)' = c
    /\ \A s \in Requests \ {r} : job'[s] = job[s] /\ pc'[s] = pc[s]
    /\ c = None \/ (c \in AllCommands /\ pc'[r] = "validate")
    /\ HandlerTrue(r)'

(* A handler that takes up a command has not done anything about it.       *)
LEMMA TakingUpKeeps ==
    ASSUME CommandInv, TypeInv', NEW r \in Requests, NEW c, TakesUp(r, c)
    PROVE  CommandInv'
<1>o. /\ Command(r) = None /\ Command(r)' = c
      /\ \A s \in Requests \ {r} : /\ Command(s)' = Command(s) /\ Key(s)' = Key(s)
                                   /\ pc'[s] = pc[s] /\ job'[s] = job[s]
      /\ \A e : /\ WasValid(e)' <=> WasValid(e)
                /\ Settled(e)' <=> Settled(e)
                /\ TookEffect(e)' <=> TookEffect(e)
  BY DEF TakesUp, Command, Key, WasValid, Settled, TookEffect
<1>u. UNCHANGED <<commands, control, applications, disturbed>>
  BY DEF TakesUp
<1>n. None \notin AllCommands
  BY ControlAssumption
<1>1. HandlersTrue'
  <2>1. ASSUME NEW s \in Requests, s # r PROVE HandlerTrue(s)'
    <3>1. HandlerTrue(s)
      BY DEF CommandInv, Told, HandlersTrue
    <3> QED
      BY <2>1, <3>1, <1>o, <1>u DEF HandlerTrue
  <2> QED
    BY <2>1 DEF HandlersTrue, TakesUp
<1>2. AppliedWasValid' /\ DecidedOnce'
  BY <1>o, <1>u DEF CommandInv, Told, AppliedWasValid, DecidedOnce
<1>3. AppliedOrSettled'
  <2>1. ASSUME NEW s \in Requests, pc'[s] = "applied", Command(s)' # None
        PROVE  TookEffect(Command(s))'
    BY <2>1, <1>1 DEF HandlersTrue, HandlerTrue
  <2>2. \A d \in Deliveries : deliveries'[d] = "processed" => deliveries[d] = "processed"
    BY DEF TakesUp
  <2> QED
    BY <2>1, <2>2, <1>o, <1>u DEF CommandInv, Told, AppliedOrSettled
<1>4. AppliedOnce'
  BY <1>u DEF CommandInv, Quiet, AppliedOnce
<1>5. HandlersQuiet'
  <2>1. ASSUME NEW s \in Requests PROVE HandlerQuiet(s)'
    <3>1. CASE s = r
      BY <3>1, <1>o DEF TakesUp, HandlerQuiet
    <3>2. CASE s # r
      <4>1. HandlerQuiet(s)
        BY DEF CommandInv, Quiet, HandlersQuiet
      <4> QED
        BY <3>2, <4>1, <1>o, <1>u DEF HandlerQuiet
    <3> QED
      BY <3>1, <3>2
  <2> QED
    BY <2>1 DEF HandlersQuiet
<1>6. LedgerKept'
  <2>1. ASSUME NEW e \in AllCommands, e.key \notin disturbed' PROVE Remembered(e)'
    <3>1. Remembered(e)
      BY <2>1, <1>u DEF CommandInv, Quiet, LedgerKept
    <3>2. ASSUME NEW s \in Requests, Command(s) = e, pc[s] \in Taken
          PROVE  Command(s)' = e /\ pc'[s] \in Taken
      BY <2>1, <3>2, <1>o, <1>n
    <3> QED
      BY <3>1, <3>2, <1>o, <1>u DEF Remembered
  <2> QED
    BY <2>1 DEF LedgerKept
<1>7. Alone'
  <2>1. ASSUME NEW e \in AllCommands, NEW s \in Requests, Applies(s, e)'
        PROVE  Applies(s, e)
    <3>1. s # r
      BY <2>1, <1>o, <1>n DEF TakesUp, Applies, Window
    <3> QED
      BY <2>1, <3>1, <1>o DEF Applies
  <2> QED
    BY <2>1, <1>u DEF CommandInv, Quiet, Alone
<1> QED
  BY <1>1, <1>2, <1>3, <1>4, <1>5, <1>6, <1>7 DEF CommandInv, Told, Quiet

(* A request that is turned away leaves everything but its answer.         *)
LEMMA TurnedAwayKeeps ==
    ASSUME CommandInv, NEW r \in Requests, pc[r] = "idle", Goes(r, "denied"),
           UNCHANGED <<tables, job, history, faults>>
    PROVE  CommandInv'
<1>t. TableTypes /\ ControlTypes /\ HandlerTypes /\ FaultTypes /\ HandlersHave /\ HandlerHas(r)
  BY TypeParts DEF CommandInv, TypeInv, HandlersHave
<1>1. /\ pc[r] = "idle" /\ pc' = [pc EXCEPT ![r] = "denied"]
      /\ UNCHANGED <<tables, job, applications, disturbed, faults>>
  BY DEF Goes, history
<1>2. /\ pc'[r] = "denied" /\ \A s \in Requests \ {r} : job'[s] = job[s] /\ pc'[s] = pc[s]
  BY <1>1, <1>t DEF HandlerTypes
<1>3. Command(r) = None /\ Command(r)' = None
  BY <1>1, <1>t DEF HandlerHas, Command
<1>4. TypeInv'
  <2>1. TableTypes' /\ ControlTypes'
    BY <1>1, <1>t DEF tables, TableTypes, ControlTypes
  <2>2. HandlerTypes' /\ FaultTypes'
    BY <1>1, <1>t DEF HandlerTypes, FaultTypes, Places, Answered
  <2>3. HandlersHave'
    <3>1. ASSUME NEW s \in Requests PROVE HandlerHas(s)'
      <4>1. CASE s = r
        BY <4>1, <1>1, <1>2, <1>t
           DEF HandlerHas, Command, FromGithub, CommandPlaces, DeliveryPlaces
      <4>2. CASE s # r
        BY <4>2, <1>2, <1>t DEF HandlersHave, HandlerHas, Command, FromGithub, WakeReason
      <4> QED
        BY <4>1, <4>2
    <3> QED
      BY <3>1 DEF HandlersHave
  <2> QED
    BY <2>1, <2>2, <2>3, NextTypeParts DEF TypeInv
<1>5. TakesUp(r, None)
  BY <1>1, <1>2, <1>3 DEF TakesUp, tables, HandlerTrue, Taken
<1> QED
  BY <1>4, <1>5, TakingUpKeeps

(* A request that was admitted is a handler with a command.                *)
LEMMA SubmitKeeps ==
    ASSUME CommandInv, NEW r \in Requests, NEW c \in Commands, NEW allowed \in BOOLEAN,
           Submit(r, c, allowed)
    PROVE  CommandInv'
<1>t. TableTypes /\ ControlTypes /\ HandlerTypes /\ FaultTypes /\ HandlersHave /\ HandlerHas(r)
  BY TypeParts DEF CommandInv, TypeInv, HandlersHave
<1>c. c \in AllCommands /\ c # None /\ c.key \in Keys
  <2>1. c \in AllCommands
    BY DEF AllCommands
  <2> QED
    BY <2>1, Zenon, ControlAssumption DEF Keys
<1>1. CASE allowed
  <2>1. /\ pc[r] = "idle" /\ pc' = [pc EXCEPT ![r] = "validate"]
        /\ job' = [job EXCEPT ![r].command = c]
        /\ UNCHANGED <<tables, applications, disturbed, faults>>
    BY <1>1 DEF Submit, Goes, history
  <2>2. /\ job'[r] = [job[r] EXCEPT !.command = c] /\ pc'[r] = "validate"
        /\ \A s \in Requests \ {r} : job'[s] = job[s] /\ pc'[s] = pc[s]
    BY <2>1, <1>t DEF HandlerTypes
  <2>3. Command(r)' = c /\ ~FromGithub(r)' /\ Command(r) = None
    BY <2>1, <2>2, <1>t DEF HandlerHas, HandlerTypes, Command, FromGithub
  <2>4. TypeInv'
    <3>1. TableTypes' /\ ControlTypes'
      BY <2>1, <1>t DEF tables, TableTypes, ControlTypes
    <3>2. HandlerTypes'
      <4>1. [job[r] EXCEPT !.command = c] \in [command : AllCommands \union {None},
                                               delivery : Deliveries \union {None}]
        BY <1>c, <1>t DEF HandlerTypes
      <4> QED
        BY <2>1, <2>2, <4>1, <1>t DEF HandlerTypes, Places
    <3>3. FaultTypes'
      BY <2>1, <1>t DEF FaultTypes
    <3>4. HandlersHave'
      <4>1. ASSUME NEW s \in Requests PROVE HandlerHas(s)'
        <5>1. CASE s = r
          BY <5>1, <2>2, <2>3, <1>c DEF HandlerHas, DeliveryPlaces
        <5>2. CASE s # r
          BY <5>2, <2>2, <1>t DEF HandlersHave, HandlerHas, Command, FromGithub, WakeReason
        <5> QED
          BY <5>1, <5>2
      <4> QED
        BY <4>1 DEF HandlersHave
    <3> QED
      BY <3>1, <3>2, <3>3, <3>4, NextTypeParts DEF TypeInv
  <2>5. TakesUp(r, c)
    BY <2>1, <2>2, <2>3, <1>c DEF TakesUp, tables, HandlerTrue, Taken
  <2> QED
    BY <2>4, <2>5, TakingUpKeeps
<1>2. CASE ~allowed
  <2>1. pc[r] = "idle" /\ Goes(r, "denied") /\ UNCHANGED <<tables, job, history, faults>>
    BY <1>2 DEF Submit
  <2> QED
    BY <2>1, TurnedAwayKeeps
<1> QED
  BY <1>1, <1>2

(* A delivery is written down before anything is done about it.            *)
LEMMA DeliverKeeps ==
    ASSUME CommandInv, NEW r \in Requests, NEW d \in Deliveries, Deliver(r, d)
    PROVE  CommandInv'
<1>t. TableTypes /\ ControlTypes /\ HandlerTypes /\ FaultTypes /\ HandlersHave /\ HandlerHas(r)
  BY TypeParts DEF CommandInv, TypeInv, HandlersHave
<1>u. /\ pc[r] = "idle" /\ Command(r) = None /\ ~FromGithub(r)
      /\ UNCHANGED <<commands, control, audit, signals, applications, disturbed, faults>>
  BY <1>t DEF Deliver, HandlerHas, history
<1>d. d # None
  BY ControlAssumption
<1>1. \/ /\ pc' = [pc EXCEPT ![r] = "route"] /\ job' = [job EXCEPT ![r].delivery = d]
         /\ deliveries' = [deliveries EXCEPT ![d] = "received"]
      \/ pc' = [pc EXCEPT ![r] = "duplicate"] /\ job' = job /\ deliveries' = deliveries
  BY DEF Deliver, Goes
<1>2. \A s \in Requests \ {r} : job'[s] = job[s] /\ pc'[s] = pc[s]
  BY <1>1, <1>t DEF HandlerTypes
<1>3. \/ pc'[r] = "route" /\ job'[r] = [job[r] EXCEPT !.delivery = d]
      \/ pc'[r] = "duplicate" /\ job'[r] = job[r]
  BY <1>1, <1>t DEF HandlerTypes
<1>4. Command(r)' = None /\ (pc'[r] = "route" => FromGithub(r)')
  BY <1>3, <1>u, <1>d, <1>t DEF Command, FromGithub, HandlerTypes
<1>5. TypeInv'
  <2>1. TableTypes' /\ ControlTypes'
    BY <1>1, <1>u, <1>t DEF TableTypes, ControlTypes
  <2>2. HandlerTypes'
    <3>1. [job[r] EXCEPT !.delivery = d] \in [command : AllCommands \union {None},
                                              delivery : Deliveries \union {None}]
      BY <1>t DEF HandlerTypes
    <3>2. pc' \in [Requests -> Places]
      BY <1>1, <1>t DEF HandlerTypes, Places, Answered
    <3>3. job' \in [Requests -> [command : AllCommands \union {None},
                                 delivery : Deliveries \union {None}]]
      BY <1>1, <3>1, <1>t DEF HandlerTypes
    <3> QED
      BY <3>2, <3>3 DEF HandlerTypes
  <2>3. FaultTypes'
    BY <1>u, <1>t DEF FaultTypes
  <2>4. HandlersHave'
    <3>1. ASSUME NEW s \in Requests PROVE HandlerHas(s)'
      <4>1. CASE s = r
        BY <4>1, <1>3, <1>4 DEF HandlerHas, CommandPlaces, DeliveryPlaces
      <4>2. CASE s # r
        BY <4>2, <1>2, <1>t DEF HandlersHave, HandlerHas, Command, FromGithub, WakeReason
      <4> QED
        BY <4>1, <4>2
    <3> QED
      BY <3>1 DEF HandlersHave
  <2> QED
    BY <2>1, <2>2, <2>3, <2>4, NextTypeParts DEF TypeInv
<1>6. TakesUp(r, None)
  <2>1. \A e \in Deliveries : deliveries'[e] = "processed" => deliveries[e] = "processed"
    BY <1>1, <1>t DEF TableTypes
  <2>2. HandlerTrue(r)'
    BY <1>3 DEF HandlerTrue, Taken
  <2> QED
    BY <2>1, <2>2, <1>2, <1>4, <1>u DEF TakesUp
<1> QED
  BY <1>5, <1>6, TakingUpKeeps

(* A delivery leads to a command only if it carries one.                   *)
LEMMA RouteKeeps ==
    ASSUME CommandInv, NEW r \in Requests, Route(r) \/ RouteFails(r)
    PROVE  CommandInv'
<1> DEFINE d == job[r].delivery
           event == Delivery[d]
<1>t. TableTypes /\ ControlTypes /\ HandlerTypes /\ FaultTypes /\ HandlersHave /\ HandlerHas(r)
  BY TypeParts DEF CommandInv, TypeInv, HandlersHave
<1>u. /\ pc[r] = "route" /\ Command(r) = None /\ FromGithub(r)
      /\ d \in Deliveries
      /\ UNCHANGED <<commands, control, audit, signals, applications, disturbed>>
  BY <1>t DEF Route, RouteFails, HandlerHas, HandlerTypes, DeliveryPlaces, FromGithub, NoEffect,
              tables, SetOutcome, history
<1>e. event.kind = "command" => event.command \in AllCommands /\ event.command # None
  BY <1>u, DeliveryType, ControlAssumption
<1>1. \E place \in {"ignored", "audit denied", "serve", "validate"} :
         /\ pc' = [pc EXCEPT ![r] = place]
         /\ place = "validate" =>
               /\ event.kind = "command"
               /\ job' = [job EXCEPT ![r].command = event.command]
         /\ place # "validate" => job' = job
         /\ place = "serve" => event.kind # "command"
  <2>1. CASE RouteFails(r)
    BY <2>1 DEF RouteFails, Goes, history
  <2>2. CASE Route(r)
    <3>1. /\ event.kind \in {"nothing", "unreadable", "issues", "status", "command"}
          /\ event.admitted \in BOOLEAN /\ (event.kind = "unreadable" => ~event.admitted)
      BY <1>u, DeliveryType
    <3>2. /\ Leads(event) \in {"ignored", "audit denied", "serve", "validate"}
          /\ Leads(event) = "validate" => event.kind = "command"
          /\ Leads(event) = "serve" => event.kind # "command"
      BY <3>1 DEF Leads
    <3> QED
      BY <2>2, <3>2 DEF Route, Goes
  <2> QED
    BY <2>1, <2>2
<1>2. \/ deliveries' = deliveries \/ deliveries' = [deliveries EXCEPT ![d] = "ignored"]
  BY DEF Route, RouteFails, NoEffect, tables, SetOutcome
<1>3. faults' \in 0..MaxFaults
  <2>1. faults' = faults \/ (faults < MaxFaults /\ faults' = faults + 1)
    BY DEF Route, RouteFails
  <2> QED
    BY <2>1, <1>t, ControlAssumption DEF FaultTypes
<1>4. PICK place \in {"ignored", "audit denied", "serve", "validate"} :
         /\ pc' = [pc EXCEPT ![r] = place]
         /\ place = "validate" =>
               /\ event.kind = "command"
               /\ job' = [job EXCEPT ![r].command = event.command]
         /\ place # "validate" => job' = job
         /\ place = "serve" => event.kind # "command"
  BY <1>1
<1>5. /\ pc'[r] = place
      /\ place = "validate" => job'[r] = [job[r] EXCEPT !.command = event.command]
      /\ place # "validate" => job'[r] = job[r]
      /\ \A s \in Requests \ {r} : job'[s] = job[s] /\ pc'[s] = pc[s]
  BY <1>4, <1>t DEF HandlerTypes
<1>6. /\ FromGithub(r)' /\ job'[r].delivery = d
      /\ Command(r)' = IF place = "validate" THEN event.command ELSE None
  BY <1>5, <1>u, <1>t DEF FromGithub, Command, HandlerTypes
<1>7. TypeInv'
  <2>1. TableTypes' /\ ControlTypes'
    BY <1>2, <1>u, <1>t DEF TableTypes, ControlTypes
  <2>2. HandlerTypes'
    <3>1. place = "validate" =>
             [job[r] EXCEPT !.command = event.command] \in [command : AllCommands \union {None},
                                                            delivery : Deliveries \union {None}]
      BY <1>t, <1>e, <1>4 DEF HandlerTypes
    <3>2. job' \in [Requests -> [command : AllCommands \union {None},
                                 delivery : Deliveries \union {None}]]
      BY <1>4, <3>1, <1>t DEF HandlerTypes
    <3>3. pc' \in [Requests -> Places]
      BY <1>4, <1>t DEF HandlerTypes, Places, Answered
    <3> QED
      BY <3>2, <3>3 DEF HandlerTypes
  <2>3. FaultTypes'
    BY <1>3, <1>u, <1>t DEF FaultTypes
  <2>4. HandlersHave'
    <3>1. ASSUME NEW s \in Requests PROVE HandlerHas(s)'
      <4>1. CASE s = r
        <5>1. Command(r)' # None => Command(r)' = Delivery[job'[r].delivery].command
          BY <1>6
        <5>2. place = "validate" => Command(r)' # None
          BY <1>4, <1>6, <1>e
        <5> QED
          BY <4>1, <5>1, <5>2, <1>5, <1>6 DEF HandlerHas, CommandPlaces
      <4>2. CASE s # r
        BY <4>2, <1>5, <1>t DEF HandlersHave, HandlerHas, Command, FromGithub, WakeReason
      <4> QED
        BY <4>1, <4>2
    <3> QED
      BY <3>1 DEF HandlersHave
  <2> QED
    BY <2>1, <2>2, <2>3, <2>4, NextTypeParts DEF TypeInv
<1>8. HandlerTrue(r)'
  BY <1>4, <1>5, <1>6 DEF HandlerTrue, Taken
<1>9. \A e \in Deliveries : deliveries'[e] = "processed" => deliveries[e] = "processed"
  BY <1>2, <1>t DEF TableTypes
<1>10. CASE place = "validate"
  <2>1. TakesUp(r, event.command)
    BY <1>10, <1>4, <1>5, <1>6, <1>8, <1>9, <1>e, <1>u DEF TakesUp
  <2> QED
    BY <2>1, <1>7, TakingUpKeeps
<1>11. CASE place # "validate"
  <2>1. TakesUp(r, None)
    BY <1>11, <1>4, <1>5, <1>6, <1>8, <1>9, <1>u DEF TakesUp
  <2> QED
    BY <2>1, <1>7, TakingUpKeeps
<1> QED
  BY <1>10, <1>11

-----------------------------------------------------------------------------
(* Crashes and the worker.                                                 *)

(* A crash disturbs the commands whose application is not recorded yet.     *)
LEMMA CrashKeeps == CommandInv /\ Crash => CommandInv'
<1> SUFFICES ASSUME CommandInv, Crash PROVE CommandInv'
  OBVIOUS
<1>t. TableTypes /\ ControlTypes /\ HandlerTypes /\ FaultTypes /\ HandlersHave /\ TypeInv
  BY TypeParts DEF CommandInv, TypeInv
<1>u. /\ UNCHANGED <<commands, deliveries, control, audit, signals, job, applications>>
      /\ disturbed \subseteq disturbed'
      /\ \A s \in Requests : pc[s] \in Taken => Key(s) \in disturbed'
      /\ \A s \in Requests : pc'[s] = pc[s] \/ pc'[s] = "dead"
      /\ \A s \in Requests : pc'[s] \in Answered \union {"idle"}
      /\ \A s \in Requests : pc'[s] = "idle" => pc[s] = "idle"
  BY DEF Crash, tables, Answered, Taken, Unrecorded
<1>j. \A s \in Requests : Command(s)' = Command(s) /\ Key(s)' = Key(s)
  BY <1>u DEF Command, Key
<1>e. \A e : (Settled(e)' <=> Settled(e)) /\ (TookEffect(e)' <=> TookEffect(e))
                /\ (WasValid(e)' <=> WasValid(e))
  BY <1>u DEF Settled, TookEffect, WasValid
<1>1. TypeInv'
  <2>1. TableTypes' /\ ControlTypes'
    BY <1>u, <1>t DEF TableTypes, ControlTypes
  <2>2. HandlerTypes'
    BY <1>t DEF Crash, HandlerTypes, Places, Answered
  <2>3. FaultTypes'
    <3>1. \A s \in Requests : pc[s] \in Unrecorded => Key(s) \in Keys
      BY <1>t, KeysOfCommands DEF Unrecorded, HandlersHave, HandlerHas, CommandPlaces
    <3> QED
      BY <3>1, <1>t, ControlAssumption DEF Crash, FaultTypes
  <2>4. HandlersHave'
    BY <1>u, <1>j, <1>t
       DEF HandlersHave, HandlerHas, FromGithub, CommandPlaces, DeliveryPlaces, Answered
  <2> QED
    BY <2>1, <2>2, <2>3, <2>4, NextTypeParts DEF TypeInv
<1>2. Told'
  <2>1. HandlersTrue'
    <3>1. ASSUME NEW s \in Requests PROVE HandlerTrue(s)'
      <4>1. HandlerTrue(s)
        BY DEF CommandInv, Told, HandlersTrue
      <4> QED
        BY <4>1, <1>u, <1>j, <1>e DEF HandlerTrue, Answered, Taken
    <3> QED
      BY <3>1 DEF HandlersTrue
  <2>2. AppliedWasValid' /\ DecidedOnce'
    BY <1>u, <1>e DEF CommandInv, Told, AppliedWasValid, DecidedOnce
  <2>3. AppliedOrSettled'
    <3>1. ASSUME NEW s \in Requests, pc'[s] = "applied", Command(s)' # None
          PROVE  TookEffect(Command(s))'
      BY <3>1, <2>1 DEF HandlersTrue, HandlerTrue
    <3> QED
      BY <3>1, <1>u, <1>e DEF CommandInv, Told, AppliedOrSettled
  <2> QED
    BY <2>1, <2>2, <2>3 DEF Told
<1>3. Quiet'
  <2>1. AppliedOnce'
    BY <1>u DEF CommandInv, Quiet, AppliedOnce
  <2>2. HandlersQuiet' /\ Alone'
    BY <1>u, <1>j DEF HandlersQuiet, HandlerQuiet, Alone, Applies, Window, Answered
  <2>3. LedgerKept'
    <3>1. ASSUME NEW c \in AllCommands, c.key \notin disturbed' PROVE Remembered(c)'
      <4>1. Remembered(c) /\ \A s \in Requests : pc[s] \in Taken => Command(s) # c
        BY <3>1, <1>u DEF CommandInv, Quiet, LedgerKept, Key
      <4> QED
        BY <4>1, <1>u, <1>e DEF Remembered
    <3> QED
      BY <3>1 DEF LedgerKept
  <2> QED
    BY <2>1, <2>2, <2>3 DEF Quiet
<1> QED
  BY <1>1, <1>2, <1>3 DEF CommandInv

(* An execution ends and a decision is asked for only once.                *)
LEMMA WorkerKeeps == CommandInv /\ Worker => CommandInv'
<1> SUFFICES ASSUME CommandInv, Worker PROVE CommandInv'
  OBVIOUS
<1>t. TableTypes /\ ControlTypes /\ HandlerTypes /\ FaultTypes /\ HandlersHave
  BY TypeParts DEF CommandInv, TypeInv
<1>u. UNCHANGED <<commands, deliveries, audit, signals, pc, job, applications, disturbed, faults>>
  BY DEF Worker, history
<1>1. /\ control' \in Controls
      /\ control.execution # "running" => control'.execution = control.execution
      /\ control.decision # "absent" => control'.decision # "absent"
  BY <1>t DEF Worker, ControlTypes, Controls
<1>2. \A c : /\ WasValid(c) => WasValid(c)'
             /\ Settled(c) => Settled(c)'
             /\ TookEffect(c) => TookEffect(c)'
  <2>1. control.decision = "resolved" => control'.decision = "resolved"
    BY <1>t DEF Worker, ControlTypes, Controls
  <2>2. \A c : (WasValid(c) => WasValid(c)') /\ (Settled(c) => Settled(c)')
    BY <1>1, <2>1 DEF WasValid, Settled
  <2> QED
    BY <2>2, <1>u DEF TookEffect
<1>j. \A s \in Requests : Command(s)' = Command(s) /\ Key(s)' = Key(s)
  BY <1>u DEF Command, Key
<1>3. TypeInv'
  <2>1. TableTypes' /\ ControlTypes' /\ HandlerTypes' /\ FaultTypes'
    BY <1>u, <1>1, <1>t DEF TableTypes, ControlTypes, HandlerTypes, FaultTypes
  <2>2. HandlersHave'
    BY <1>u, <1>t DEF HandlersHave, HandlerHas, Command, FromGithub, WakeReason
  <2> QED
    BY <2>1, <2>2, NextTypeParts DEF TypeInv
<1>4. Told'
  <2>1. HandlersTrue'
    BY <1>u, <1>2, <1>j DEF CommandInv, Told, HandlersTrue, HandlerTrue
  <2>2. AppliedWasValid' /\ DecidedOnce'
    BY <1>u, <1>2 DEF CommandInv, Told, AppliedWasValid, DecidedOnce
  <2>3. AppliedOrSettled'
    BY <1>u, <1>2, <1>j DEF CommandInv, Told, AppliedOrSettled
  <2> QED
    BY <2>1, <2>2, <2>3 DEF Told
<1>5. Quiet'
  <2>1. AppliedOnce' /\ Alone'
    BY <1>u, <1>j DEF CommandInv, Quiet, AppliedOnce, Alone, Applies
  <2>2. HandlersQuiet'
    BY <1>u, <1>2, <1>j DEF CommandInv, Quiet, HandlersQuiet, HandlerQuiet
  <2>3. LedgerKept'
    BY <1>u, <1>2, <1>j DEF CommandInv, Quiet, LedgerKept, Remembered
  <2> QED
    BY <2>1, <2>2, <2>3 DEF Quiet
<1> QED
  BY <1>3, <1>4, <1>5 DEF CommandInv

-----------------------------------------------------------------------------
(* The theorems.                                                           *)

(* Nothing happens outside the tables, the handlers and their history.     *)
LEMMA StutterKeeps == CommandInv /\ UNCHANGED vars => CommandInv'
<1> SUFFICES ASSUME CommandInv, UNCHANGED vars PROVE CommandInv'
  OBVIOUS
<1>u. UNCHANGED <<commands, deliveries, control, audit, signals, pc, job, applications, disturbed,
                  faults>>
  BY DEF vars, tables, history
<1>1. TypeInv'
  BY <1>u DEF CommandInv, TypeInv, TypeOK, HandlersHave, HandlerHas, Command, FromGithub, WakeReason
<1>e. \A c : /\ WasValid(c)' <=> WasValid(c)
             /\ Settled(c)' <=> Settled(c)
             /\ TookEffect(c)' <=> TookEffect(c)
  BY <1>u DEF WasValid, Settled, TookEffect
<1>j. \A s \in Requests : Command(s)' = Command(s) /\ Key(s)' = Key(s)
  BY <1>u DEF Command, Key
<1>2. Told'
  BY <1>u, <1>e, <1>j
     DEF CommandInv, Told, HandlersTrue, HandlerTrue, AppliedWasValid, DecidedOnce,
         AppliedOrSettled
<1>3. Quiet'
  BY <1>u, <1>e, <1>j
     DEF CommandInv, Quiet, AppliedOnce, HandlersQuiet, HandlerQuiet, LedgerKept, Remembered,
         Alone, Applies
<1> QED
  BY <1>1, <1>2, <1>3 DEF CommandInv

(* The invariant holds in every reachable state.                           *)
LEMMA CommandsInvariant == Spec => []CommandInv
<1>1. CommandInv /\ [Next]_vars => CommandInv'
  <2> SUFFICES ASSUME CommandInv, [Next]_vars PROVE CommandInv'
    OBVIOUS
  <2>1. ASSUME NEW r \in Requests, Handle(r) PROVE CommandInv'
    <3>1. Calls(r) \/ Route(r) \/ RouteFails(r)
      BY <2>1 DEF Handle, Calls
    <3> QED
      BY <3>1, CallKeeps, RouteKeeps
  <2>2. ASSUME NEW r \in Requests, NEW c \in Commands, NEW allowed \in BOOLEAN,
               Submit(r, c, allowed)
        PROVE  CommandInv'
    BY <2>2, SubmitKeeps
  <2>3. ASSUME NEW r \in Requests, NEW d \in Deliveries, Deliver(r, d) PROVE CommandInv'
    BY <2>3, DeliverKeeps
  <2>4. ASSUME NEW r \in Requests, NEW d \in Deliveries, Refused(r, d) PROVE CommandInv'
    <3>1. pc[r] = "idle" /\ Goes(r, "denied") /\ UNCHANGED <<tables, job, history, faults>>
      BY <2>4 DEF Refused
    <3> QED
      BY <3>1, TurnedAwayKeeps
  <2> QED
    BY <2>1, <2>2, <2>3, <2>4, CrashKeeps, WorkerKeeps, StutterKeeps DEF Next
<1> QED
  BY <1>1, CommandInit, PTL DEF Spec

(* The tables, the handlers and the rows commands are about stay typed: a   *)
(* command reaches its row only with a type and an answer that were checked *)
(* (resolvePayload and validateCommand before applyEffect).                *)
THEOREM CommandTypesHold == Spec => []TypeOK
  BY CommandsInvariant, PTL DEF CommandInv, TypeInv

(* A command changes its rows at most once, however many requests and       *)
(* deliveries carry its key and however their handlers interleave, unless a  *)
(* call failed where it takes the receipt away from an application, the     *)
(* process died between the application and its receipt, or two handlers    *)
(* were between the receipt and the application at once (recordReceipt and  *)
(* the applied check of submitControlCommand).                             *)
THEOREM CommandsApplyOnce == Spec => []AppliedOnce
  BY CommandsInvariant, PTL DEF CommandInv, Quiet

(* Whatever failed on the way, a receipt, a delivery and an answer say that *)
(* a command was applied only if it changed its rows, through this request  *)
(* or another one with its key, or nothing was left for it to do.          *)
THEOREM ReportsAreTrue == Spec => []AppliedOrSettled
  BY CommandsInvariant, PTL DEF CommandInv, Told

=============================================================================
