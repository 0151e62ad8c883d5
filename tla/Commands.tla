------------------------------ MODULE Commands ------------------------------
(***************************************************************************)
(* The command path: the host sends lines, vParserTask reads each into the *)
(* global gObject and puts that into commandQueue, vStepperTask takes it   *)
(* out, into the same gObject, executes it and answers OK.  The two tasks   *)
(* have one priority and share gObject without a lock.                     *)
(*                                                                         *)
(* Line n of the host is a kind and the number n, which stands for its     *)
(* arguments.  A line comes in one USB packet.  Executing a G1 is one      *)
(* action here; the modules Motion and Line have what it does.             *)
(***************************************************************************)
EXTENDS Integers, Sequences

CONSTANTS
  MaxLines,   \* bound on the lines the host sends
  MaxUnread,  \* bound on the answers left unread when an idle one is added
  Pauses      \* TRUE: the host may let ten seconds pass between two lines

ASSUME CommandsAssumption ==
  MaxLines \in Nat /\ MaxUnread \in Nat \ {0} /\ Pauses \in BOOLEAN

Kinds == {"M10", "M1", "G1", "G28"}
NoCommand == "none"
Numbers == 0..MaxLines

VARIABLES
  sent,          \* lines sent by the host
  outstanding,   \* the host waits for an OK
  toDevice,      \* lines on their way to USB_receive
  toHost,        \* answers on their way to the host
  parserPc, line, left,  \* vParserTask: the line, the fields still to assign
  gObject,
  commandQueue,
  stepperPc,
  pulse,         \* LPC_SCTLARGE0->MATCHREL[1].L: the servo that holds the pen
  idle,          \* ten seconds have passed in vStepperTask's xQueueReceive
  ordered,       \* history: the effects the host asked for
  executed       \* history: the effects vStepperTask had

hostVars    == <<sent, outstanding, ordered>>
parserVars  == <<parserPc, line, left>>
stepperVars == <<stepperPc, pulse, idle, executed>>
vars == <<hostVars, toDevice, toHost, parserVars, gObject, commandQueue,
          stepperVars>>

PenUp == 1100
PenDown == 1600

GObject == [command : Kinds \cup {NoCommand}, servo : Numbers,
            xCoord : Numbers, yCoord : Numbers]

TypeOK ==
  /\ sent \in Numbers /\ outstanding \in BOOLEAN
  /\ toDevice \in Seq([kind : Kinds, n : Numbers])
  /\ toHost \in Seq({"XY", "OK"}) /\ Len(toHost) <= MaxUnread + 2
  /\ parserPc \in {"receive", "assign", "send"}
  /\ line \in [kind : Kinds \cup {NoCommand}, n : Numbers]
  /\ left \in Seq(DOMAIN gObject)
  /\ gObject \in GObject
  /\ commandQueue \in Seq(GObject) /\ Len(commandQueue) <= 1
  /\ stepperPc \in {"wait", "switch", "M1", "G1", "answer"}
  /\ pulse \in {PenUp, PenDown} /\ idle \in BOOLEAN

Nothing == [command |-> NoCommand, servo |-> 0, xCoord |-> 0, yCoord |-> 0]

Init ==
  /\ sent = 0 /\ outstanding = FALSE
  /\ toDevice = <<>> /\ toHost = <<>>
  /\ parserPc = "receive" /\ line = [kind |-> NoCommand, n |-> 0] /\ left = <<>>
  /\ gObject = Nothing
  /\ commandQueue = <<>>
  /\ stepperPc = "wait" /\ idle = FALSE
  /\ pulse = PenUp   \* vCalibrate, which has run first, has set it
  /\ ordered = <<>> /\ executed = <<>>

(* gObject.servo == 160 lifts the pen; here an even number stands for 160. *)
PulseOf(servo) == IF servo % 2 = 0 THEN PenUp ELSE PenDown

(* what a command object does to the plotter, the pen being where it is *)
Effect(o, pen) ==
  CASE o.command = "M1" -> <<"M1", o.servo>>
    [] o.command = "G1" -> <<"G1", o.xCoord, o.yCoord, pen>>
    [] OTHER -> <<o.command>>

(* where the last M1 of a list of effects leaves the pen *)
PenAfter(effects) ==
  LET m1 == {i \in DOMAIN effects : effects[i][1] = "M1"}
  IN  IF m1 = {} THEN PenUp
      ELSE PulseOf(effects[CHOOSE i \in m1 : \A j \in m1 : j <= i][2])

-----------------------------------------------------------------------------
(* The host.  It sends a line, having discarded what it had not read, and   *)
(* waits for an OK before the next.  G28 stands for every line the parser    *)
(* does not know; nothing has to be done for it.                           *)

HostSends(k) ==
  /\ ~outstanding /\ sent < MaxLines
  /\ sent' = sent + 1 /\ outstanding' = TRUE
  /\ toDevice' = Append(toDevice, [kind |-> k, n |-> sent'])
  /\ toHost' = <<>>
  /\ ordered' = IF k = "G28" THEN ordered
                ELSE Append(ordered,
                            Effect([command |-> k, servo |-> sent',
                                    xCoord |-> sent', yCoord |-> sent'],
                                   PenAfter(ordered)))
  /\ UNCHANGED <<parserVars, gObject, commandQueue, stepperVars>>

HostReads ==
  /\ outstanding /\ toHost # <<>>
  /\ toHost' = Tail(toHost)
  /\ outstanding' = (Head(toHost) # "OK")
  /\ UNCHANGED <<sent, ordered, toDevice, parserVars, gObject, commandQueue,
                 stepperVars>>

-----------------------------------------------------------------------------
(* vParserTask                                                             *)

(* strncmp(inputStr, p, strlen(p)) == 0 *)
HasPrefix(k, p) == k = p \/ (k = "M10" /\ p = "M1")

(* Mutation: M1 is looked for before M10. *)
ReadM1First(k) ==
  IF HasPrefix(k, "M1") THEN "M1"
  ELSE IF HasPrefix(k, "M10") THEN "M10"
  ELSE IF HasPrefix(k, "G1") THEN "G1" ELSE NoCommand

(* GCodeParser::read knows no G28 *)
Read(k) ==
  IF HasPrefix(k, "M10") THEN "M10"
  ELSE IF HasPrefix(k, "M1") THEN "M1"
  ELSE IF HasPrefix(k, "G1") THEN "G1" ELSE NoCommand

(* the fields of gObject each case assigns, in the order of the code *)
Assigned(command) ==
  CASE command = "M10" -> <<"command">>
    [] command = "M1"  -> <<"command", "servo">>
    [] command = "G1"  -> <<"command", "xCoord", "yCoord">>

ReceiveLine ==
  /\ parserPc = "receive" /\ toDevice # <<>>
  /\ toDevice' = Tail(toDevice)
  /\ line' = [Head(toDevice) EXCEPT !.kind = Read(@)]
  /\ IF line'.kind = NoCommand
       THEN UNCHANGED <<parserPc, left>>
       ELSE parserPc' = "assign" /\ left' = Assigned(line'.kind)
  /\ UNCHANGED <<hostVars, toHost, gObject, commandQueue, stepperVars>>

Assign ==
  /\ parserPc = "assign"
  /\ gObject' = [gObject EXCEPT ![Head(left)] =
                   IF Head(left) = "command" THEN line.kind ELSE line.n]
  /\ left' = Tail(left)
  /\ parserPc' = IF left' = <<>> THEN "send" ELSE "assign"
  /\ UNCHANGED <<hostVars, toDevice, toHost, line, commandQueue, stepperVars>>

(* xQueueSendToBack(commandQueue, &gObject, portMAX_DELAY): it blocks while  *)
(* the queue is full, and copies gObject when it no longer is.             *)
SendCommand ==
  /\ parserPc = "send" /\ commandQueue = <<>>
  /\ commandQueue' = <<gObject>>
  /\ parserPc' = "receive"
  /\ UNCHANGED <<hostVars, toDevice, toHost, line, left, gObject, stepperVars>>

-----------------------------------------------------------------------------
(* vStepperTask                                                            *)

StepperGoto(l) == stepperPc' = l

ReceiveCommand ==
  /\ stepperPc = "wait" /\ commandQueue # <<>> /\ StepperGoto("switch")
  /\ gObject' = Head(commandQueue)
  /\ commandQueue' = <<>>
  /\ idle' = FALSE
  /\ UNCHANGED <<hostVars, toDevice, toHost, parserVars, pulse, executed>>

Send(answer) == toHost' = Append(toHost, answer)

(* Mutations: the idle task stays silent; it does not start to wait afresh. *)
IdleSilent ==
  /\ stepperPc = "wait" /\ commandQueue = <<>> /\ idle
  /\ idle' = FALSE
  /\ UNCHANGED <<hostVars, toDevice, toHost, parserVars, gObject, commandQueue,
                 stepperPc, pulse, executed>>

IdleRepeats ==
  /\ stepperPc = "wait" /\ commandQueue = <<>> /\ idle
  /\ Send("OK")
  /\ UNCHANGED <<hostVars, toDevice, parserVars, gObject, commandQueue,
                 stepperVars>>

(* xQueueReceive gives up after ten seconds without a command *)
IdleOK ==
  /\ stepperPc = "wait" /\ commandQueue = <<>> /\ idle
  /\ Send("OK")
  /\ idle' = FALSE
  /\ UNCHANGED <<hostVars, toDevice, parserVars, gObject, commandQueue,
                 stepperPc, pulse, executed>>

(* Mutation: OK is sent before the work. *)
SwitchAnswersFirst ==
  /\ stepperPc = "switch"
  /\ IF gObject.command = "M10"
       THEN /\ toHost' = toHost \o <<"XY", "OK">>
            /\ StepperGoto("wait")
            /\ executed' = Append(executed, Effect(gObject, pulse))
       ELSE Send("OK") /\ StepperGoto(gObject.command) /\ UNCHANGED executed
  /\ UNCHANGED <<hostVars, toDevice, parserVars, gObject, commandQueue, pulse,
                 idle>>

(* switch (gObject.command) *)
Switch ==
  /\ stepperPc = "switch"
  /\ IF gObject.command = "M10"
       THEN /\ Send("XY") /\ StepperGoto("answer")
            /\ executed' = Append(executed, Effect(gObject, pulse))
       ELSE StepperGoto(gObject.command) /\ UNCHANGED <<toHost, executed>>
  /\ UNCHANGED <<hostVars, toDevice, parserVars, gObject, commandQueue, pulse,
                 idle>>

(* the servo, or triggerMotors(gObject): only now the arguments are read *)
Execute ==
  /\ stepperPc \in {"M1", "G1"}
  /\ executed' = Append(executed,
                        Effect([gObject EXCEPT !.command = stepperPc], pulse))
  /\ pulse' = IF stepperPc = "M1" THEN PulseOf(gObject.servo) ELSE pulse
  /\ StepperGoto("answer")
  /\ UNCHANGED <<hostVars, toDevice, toHost, parserVars, gObject, commandQueue,
                 idle>>

Answer ==
  /\ stepperPc = "answer" /\ StepperGoto("wait")
  /\ Send("OK")
  /\ UNCHANGED <<hostVars, toDevice, parserVars, gObject, commandQueue, pulse,
                 idle, executed>>

-----------------------------------------------------------------------------
(* Ten seconds are far longer than anything the tasks or the host do between *)
(* two waits: they pass only while all of them wait.                       *)
TenSeconds ==
  /\ stepperPc = "wait" /\ commandQueue = <<>> /\ ~idle
  /\ parserPc = "receive" /\ toDevice = <<>>
  /\ IF outstanding THEN toHost = <<>> ELSE Pauses /\ Len(toHost) < MaxUnread
  /\ idle' = TRUE
  /\ UNCHANGED <<hostVars, toDevice, toHost, parserVars, gObject, commandQueue,
                 stepperPc, pulse, executed>>

Parser == ReceiveLine \/ Assign \/ SendCommand
Stepper == ReceiveCommand \/ IdleOK \/ Switch \/ Execute \/ Answer

Next ==
  \/ \E k \in Kinds : HostSends(k)
  \/ HostReads
  \/ Parser \/ Stepper \/ TenSeconds

(* Two tasks of one priority take turns; time passes; the host reads what   *)
(* it waits for.  Whether it sends another line is up to it.               *)
Spec ==
  /\ Init /\ [][Next]_vars
  /\ WF_vars(Parser) /\ WF_vars(Stepper) /\ WF_vars(TenSeconds)
  /\ WF_vars(HostReads)

-----------------------------------------------------------------------------
(* Properties.                                                             *)

(* "Queue for commands": what is executed is what was sent, with its own    *)
(* arguments, in order, nothing twice and nothing left out.                *)
InOrderOnce ==
  /\ Len(executed) <= Len(ordered)
  /\ \A i \in 1..Len(executed) : executed[i] = ordered[i]

(* From the moment vStepperTask has a command in gObject until it has read   *)
(* all of it, vParserTask does not write there, nor wait to send from there. *)
CommandHeld == stepperPc \in {"switch", "M1", "G1"} => parserPc = "receive"

(* When the host may go on, everything it asked for has been done.          *)
OKMeansDone == ~outstanding => executed = ordered

Served == INSTANCE Service WITH waiting <- outstanding

(* The host sees a service: what it asks for is done once, in order, and      *)
(* before the answer, and the answer comes, also to a line the parser does   *)
(* not know.  The G1 of the service includes where the pen is.             *)
ImplementsService == Served!Spec

=============================================================================
