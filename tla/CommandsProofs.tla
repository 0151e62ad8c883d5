---------------------------- MODULE CommandsProofs ----------------------------
(***************************************************************************)
(* The command path with a host that waits for each OK and does not pause: *)
(* gObject has one owner at a time, so every command is executed once, in  *)
(* order and with its own arguments, for any number of lines.              *)
(***************************************************************************)
EXTENDS Commands, SequenceTheorems, WellFoundedInduction, TLAPS

Known == Kinds \ {"G28"}
Pens == {PenUp, PenDown}

Effects ==
  {<<"M10">>} \cup ({"M1"} \X Numbers)
    \cup ({"G1"} \X Numbers \X Numbers \X Pens)

(* the command of the line under way, and what it was ordered to do *)
Carries(o, k) ==
  /\ o.command = k
  /\ k = "M1" => o.servo = sent
  /\ k = "G1" => o.xCoord = sent /\ o.yCoord = sent

Order(k) ==
  Effect([command |-> k, servo |-> sent, xCoord |-> sent, yCoord |-> sent], pulse)

Owed(k) == ordered = Append(executed, Order(k))
NothingOwed == ordered = executed

(* Who has the command. *)
Quiet == parserPc = "receive" /\ commandQueue = <<>> /\ stepperPc = "wait"

Resting == ~outstanding /\ Quiet /\ toDevice = <<>> /\ ~idle /\ NothingOwed

Travelling ==
  /\ Quiet /\ toHost = <<>> /\ ~idle
  /\ \E k \in Kinds : /\ toDevice = <<[kind |-> k, n |-> sent]>>
                      /\ IF k = "G28" THEN NothingOwed ELSE Owed(k)

Dropped == Quiet /\ toDevice = <<>> /\ toHost = <<>> /\ NothingOwed

(* the fields that are still to be assigned, and those that have been *)
Assigning ==
  /\ parserPc = "assign" /\ commandQueue = <<>> /\ stepperPc = "wait"
  /\ toDevice = <<>> /\ toHost = <<>> /\ ~idle
  /\ line.kind \in Known /\ line.n = sent /\ Owed(line.kind)
  /\ \/ left = Assigned(line.kind)
     \/ /\ left = <<"servo">>
        /\ line.kind = "M1" /\ gObject.command = "M1"
     \/ /\ left = <<"xCoord", "yCoord">>
        /\ line.kind = "G1" /\ gObject.command = "G1"
     \/ /\ left = <<"yCoord">>
        /\ line.kind = "G1" /\ gObject.command = "G1" /\ gObject.xCoord = sent

Sending ==
  /\ parserPc = "send" /\ commandQueue = <<>> /\ stepperPc = "wait"
  /\ toDevice = <<>> /\ toHost = <<>> /\ ~idle
  /\ \E k \in Known : Carries(gObject, k) /\ Owed(k)

Queued ==
  /\ parserPc = "receive" /\ stepperPc = "wait"
  /\ toDevice = <<>> /\ toHost = <<>> /\ ~idle
  /\ \E k \in Known, o \in GObject :
       commandQueue = <<o>> /\ Carries(o, k) /\ Owed(k)

Executing ==
  /\ parserPc = "receive" /\ commandQueue = <<>>
  /\ toDevice = <<>> /\ toHost = <<>> /\ ~idle
  /\ \E k \in Known : /\ stepperPc = "switch" \/ (stepperPc = k /\ k # "M10")
                      /\ Carries(gObject, k) /\ Owed(k)

Answering ==
  /\ parserPc = "receive" /\ commandQueue = <<>> /\ stepperPc = "answer"
  /\ toDevice = <<>> /\ toHost \in {<<>>, <<"XY">>} /\ ~idle
  /\ NothingOwed

Answered ==
  /\ Quiet /\ toDevice = <<>> /\ toHost \in {<<"OK">>, <<"XY", "OK">>} /\ ~idle
  /\ NothingOwed

Turn ==
  \/ Resting
  \/ /\ outstanding
     /\ \/ Travelling \/ Dropped \/ Assigning \/ Sending \/ Queued
        \/ Executing \/ Answering \/ Answered

OneOwner ==
  /\ TypeOK
  /\ ordered \in Seq(Effects) /\ executed \in Seq(Effects)
  /\ pulse = PenAfter(executed)
  /\ Turn

-----------------------------------------------------------------------------
(* A non-empty set of places in a list has a last one. *)
LEMMA LastPlace ==
  ASSUME NEW n \in Nat, NEW S, S \subseteq 1..n, S # {}
  PROVE  \E i \in S : \A j \in S : j <= i
<1> DEFINE T == {n - i : i \in S}
           R == OpToRel(<, Nat)
<1> \A i \in S : i \in Nat /\ n - i \in Nat
  OBVIOUS
<1>1. T \subseteq Nat /\ T # {}
  OBVIOUS
<1>2. IsWellFoundedOn(R, Nat)
  BY NatLessThanWellFounded
<1>3. \E x \in T : \A y \in T : ~(<<y, x>> \in R)
  <2> HIDE DEF T, R
  <2>1. QED
    BY <1>1, <1>2, WFMin
<1>4. PICK i \in S : \A j \in S : ~(<<n - j, n - i>> \in R)
  BY <1>3
<1>5. ASSUME NEW j \in S PROVE j <= i
  <2>1. <<n - j, n - i>> \notin R /\ n - j \in Nat /\ n - i \in Nat
    BY <1>4
  <2>2. ~(n - j < n - i)
    BY <2>1 DEF OpToRel
  <2>3. QED
    BY <2>2
<1>6. QED
  BY <1>5

(* Only an M1 moves the pen. *)
LEMMA PenAfterAppend ==
  ASSUME NEW s \in Seq(Effects), NEW e \in Effects
  PROVE  PenAfter(Append(s, e)) =
           IF e[1] = "M1" THEN PulseOf(e[2]) ELSE PenAfter(s)
<1> DEFINE t == Append(s, e)
           M(u) == {i \in DOMAIN u : u[i][1] = "M1"}
           Final(S) == CHOOSE i \in S : \A j \in S : j <= i
<1>1. /\ Len(s) \in Nat /\ DOMAIN s = 1..Len(s) /\ DOMAIN t = 1..Len(s) + 1
      /\ \A i \in 1..Len(s) : t[i] = s[i]
      /\ t[Len(s) + 1] = e
  BY AppendProperties, LenProperties
<1>2. /\ PenAfter(s) = IF M(s) = {} THEN PenUp ELSE PulseOf(s[Final(M(s))][2])
      /\ PenAfter(t) = IF M(t) = {} THEN PenUp ELSE PulseOf(t[Final(M(t))][2])
  BY DEF PenAfter
<1>3. CASE e[1] = "M1"
  <2>1. Len(s) + 1 \in M(t) /\ \A j \in M(t) : j <= Len(s) + 1 /\ j \in Nat
    BY <1>1, <1>3
  <2>2. Final(M(t)) = Len(s) + 1
    <3> HIDE DEF M
    <3>1. \A i \in M(t) : (\A j \in M(t) : j <= i) => i = Len(s) + 1
      BY <2>1, <1>1
    <3>2. QED
      BY <2>1, <3>1
  <2>3. QED
    BY <1>1, <1>2, <1>3, <2>1, <2>2
<1>4. CASE e[1] # "M1"
  <2>1. M(t) = M(s)
    BY <1>1, <1>4
  <2>2. CASE M(s) = {}
    BY <1>2, <1>4, <2>1, <2>2
  <2>3. CASE M(s) # {}
    <3>1. M(s) \subseteq 1..Len(s)
      BY <1>1
    <3>2. Final(M(s)) \in M(s)
      <4> HIDE DEF M
      <4>1. \E i \in M(s) : \A j \in M(s) : j <= i
        BY <1>1, <2>3, <3>1, LastPlace
      <4>2. QED
        BY <4>1
    <3>3. t[Final(M(t))] = s[Final(M(s))]
      <4> HIDE DEF M, Final
      <4>1. QED
        BY <1>1, <2>1, <3>1, <3>2
    <3>4. QED
      <4> HIDE DEF M, Final
      <4>1. QED
        BY <1>2, <1>4, <2>1, <2>3, <3>3
  <2>4. QED
    BY <2>2, <2>3
<1>5. QED
  BY <1>3, <1>4

-----------------------------------------------------------------------------
(* What a command that carries line n does, wherever it is kept. *)
LEMMA CarriedEffect ==
  ASSUME NEW o, NEW k \in Known, Carries(o, k)
  PROVE  /\ Effect([o EXCEPT !.command = k], pulse) = Order(k)
         /\ k = "M10" => Effect(o, pulse) = Order(k)
  BY DEF Carries, Order, Effect, Known, Kinds

LEMMA OrderType ==
  ASSUME NEW k \in Known, sent \in Numbers, pulse \in Pens
  PROVE  /\ Order(k) \in Effects /\ (Order(k)[1] = "M1" <=> k = "M1")
         /\ k = "M1" => Order(k)[2] = sent
  BY DEF Order, Effect, Known, Kinds, Effects, Pens

LEMMA OneOwnerInit == Init => OneOwner
<1> SUFFICES ASSUME Init PROVE OneOwner
  OBVIOUS
<1> 0 \in Numbers
  BY CommandsAssumption DEF CommandsAssumption, Numbers
<1>0. gObject \in GObject /\ line \in [kind : Kinds \cup {NoCommand}, n : Numbers]
  BY DEF Init, GObject, Nothing
<1>1. TypeOK
  <2>1. /\ toDevice \in Seq([kind : Kinds, n : Numbers])
        /\ toHost \in Seq({"XY", "OK"}) /\ Len(toHost) = 0
        /\ left \in Seq(DOMAIN gObject)
        /\ commandQueue \in Seq(GObject) /\ Len(commandQueue) = 0
    BY DEF Init
  <2>2. Len(toHost) <= MaxUnread + 2
    BY <2>1, CommandsAssumption DEF CommandsAssumption
  <2>3. /\ sent \in Numbers /\ outstanding \in BOOLEAN /\ idle \in BOOLEAN
        /\ parserPc \in {"receive", "assign", "send"}
        /\ stepperPc \in {"wait", "switch", "M1", "G1", "answer"}
        /\ pulse \in {PenUp, PenDown}
    BY DEF Init
  <2>4. QED
    BY <1>0, <2>1, <2>2, <2>3 DEF TypeOK
<1>2. PenAfter(<<>>) = PenUp
  BY DEF PenAfter
<1>3. QED
  BY <1>1, <1>2 DEF Init, OneOwner, Turn, Resting, Quiet, NothingOwed

LEMMA HostSendsStep ==
  ASSUME OneOwner, NEW k \in Kinds, HostSends(k)
  PROVE  OneOwner'
<1>1. Resting /\ TypeOK /\ pulse = PenAfter(executed)
      /\ ordered \in Seq(Effects) /\ executed \in Seq(Effects)
  BY DEF OneOwner, Turn, HostSends
<1>2. sent' \in Numbers /\ outstanding' /\ toHost' = <<>>
      /\ toDevice' = <<[kind |-> k, n |-> sent']>>
      /\ UNCHANGED <<parserVars, gObject, commandQueue, stepperVars>>
  BY <1>1, CommandsAssumption
     DEF HostSends, Resting, TypeOK, Numbers, CommandsAssumption
<1>3. TypeOK'
  <2>1. toDevice' \in Seq([kind : Kinds, n : Numbers])
    <3>1. [kind |-> k, n |-> sent'] \in [kind : Kinds, n : Numbers]
      BY <1>2
    <3>2. QED
      BY <1>2, <3>1
  <2>2. Len(toHost') = 0 /\ toHost' \in Seq({"XY", "OK"})
    BY <1>2
  <2>3. QED
    BY <1>1, <1>2, <2>1, <2>2, CommandsAssumption
       DEF TypeOK, parserVars, stepperVars, CommandsAssumption
<1>4. ordered' = IF k = "G28" THEN executed ELSE Append(executed, Order(k)')
  BY <1>1, <1>2 DEF HostSends, Resting, NothingOwed, Order, stepperVars
<1>5. k # "G28" => Order(k)' \in Effects
  BY <1>1, <1>2, OrderType
     DEF TypeOK, Known, Pens, stepperVars, Order, Effects, Effect, Kinds
<1>6. QED
  BY <1>1, <1>2, <1>3, <1>4, <1>5, AppendProperties
     DEF OneOwner, Turn, Travelling, Resting, Quiet, NothingOwed, Owed,
         parserVars, stepperVars

(* HostReads, IdleOK, Switch and Answer touch nothing of the parser's. *)
LEMMA HostReadsStep ==
  ASSUME OneOwner, HostReads
  PROVE  OneOwner'
<1>1. /\ outstanding /\ toHost # <<>> /\ TypeOK
      /\ toHost' = Tail(toHost) /\ outstanding' = (Head(toHost) # "OK")
      /\ UNCHANGED <<sent, ordered, toDevice, parserVars, gObject, commandQueue,
                     stepperVars>>
  BY DEF OneOwner, HostReads
<1>2. Answering \/ Answered
  BY <1>1 DEF OneOwner, Turn, Resting, Travelling, Dropped, Assigning, Sending,
     Queued, Executing
<1>3. /\ toHost = <<"XY">> => toHost' = <<>> /\ outstanding'
      /\ toHost = <<"XY", "OK">> => toHost' = <<"OK">> /\ outstanding'
      /\ toHost = <<"OK">> => toHost' = <<>> /\ ~outstanding'
  <2>1. Head(<<"XY">>) = "XY" /\ Tail(<<"XY">>) = <<>>
    OBVIOUS
  <2>2. Head(<<"XY", "OK">>) = "XY" /\ Tail(<<"XY", "OK">>) = <<"OK">>
    OBVIOUS
  <2>3. Head(<<"OK">>) = "OK" /\ Tail(<<"OK">>) = <<>>
    OBVIOUS
  <2>4. QED
    BY <1>1, <2>1, <2>2, <2>3
<1>4. TypeOK'
  <2>1. toHost' \in Seq({"XY", "OK"}) /\ Len(toHost') <= MaxUnread + 2
    BY <1>1, <1>2, <1>3, CommandsAssumption
       DEF Answering, Answered, CommandsAssumption
  <2>2. outstanding' \in BOOLEAN
    BY <1>1
  <2>3. QED
    BY <1>1, <2>1, <2>2 DEF TypeOK, parserVars, stepperVars
<1>5. Turn'
  <2>1. CASE Answering
    BY <1>1, <1>3, <2>1
       DEF Turn, Answering, NothingOwed, parserVars, stepperVars
  <2>2. CASE Answered
    BY <1>1, <1>3, <2>2
       DEF Turn, Answered, Resting, Quiet, NothingOwed, parserVars, stepperVars
  <2>3. QED
    BY <1>2, <2>1, <2>2
<1>6. QED
  BY <1>1, <1>4, <1>5 DEF OneOwner, stepperVars

LEMMA ReceiveLineStep ==
  ASSUME OneOwner, ReceiveLine
  PROVE  OneOwner'
<1>1. /\ toDevice # <<>> /\ TypeOK /\ toDevice' = Tail(toDevice)
      /\ line' = [Head(toDevice) EXCEPT !.kind = Read(@)]
      /\ IF line'.kind = NoCommand
           THEN UNCHANGED <<parserPc, left>>
           ELSE parserPc' = "assign" /\ left' = Assigned(line'.kind)
      /\ UNCHANGED <<hostVars, toHost, gObject, commandQueue, stepperVars>>
  BY DEF OneOwner, ReceiveLine
<1>2. Travelling /\ outstanding
  BY <1>1 DEF OneOwner, Turn, Resting, Dropped, Assigning, Sending, Queued,
     Executing, Answering, Answered
<1>3. PICK k \in Kinds : /\ toDevice = <<[kind |-> k, n |-> sent]>>
                         /\ IF k = "G28" THEN NothingOwed ELSE Owed(k)
  BY <1>2 DEF Travelling
<1>4. /\ Read(k) = IF k = "G28" THEN NoCommand ELSE k
      /\ toDevice' = <<>> /\ line' = [kind |-> Read(k), n |-> sent]
  BY <1>1, <1>3 DEF Read, HasPrefix, Kinds
<1>5. TypeOK'
  <2>1. line' \in [kind : Kinds \cup {NoCommand}, n : Numbers]
    <3>1. Read(k) \in Kinds \cup {NoCommand}
      BY <1>4
    <3>2. sent \in Numbers
      BY <1>1 DEF TypeOK
    <3>3. QED
      BY <1>4, <3>1, <3>2
  <2>2. left' \in Seq(DOMAIN gObject)
    <3>1. DOMAIN gObject = {"command", "servo", "xCoord", "yCoord"}
      BY <1>1 DEF TypeOK, GObject
    <3>2. k # "G28" => Assigned(k) \in Seq(DOMAIN gObject)
      <4>1. Assigned("M10") \in Seq({"command", "servo", "xCoord", "yCoord"})
        BY DEF Assigned
      <4>2. Assigned("M1") \in Seq({"command", "servo", "xCoord", "yCoord"})
        BY DEF Assigned
      <4>3. Assigned("G1") \in Seq({"command", "servo", "xCoord", "yCoord"})
        BY DEF Assigned
      <4>4. QED
        BY <3>1, <4>1, <4>2, <4>3 DEF Kinds
    <3>3. QED
      BY <1>1, <1>4, <3>2 DEF TypeOK, NoCommand, Kinds
  <2>3. toDevice' \in Seq([kind : Kinds, n : Numbers])
    BY <1>4
  <2>4. parserPc' \in {"receive", "assign", "send"}
    BY <1>1 DEF TypeOK
  <2>5. QED
    BY <1>1, <2>1, <2>2, <2>3, <2>4 DEF TypeOK, hostVars, stepperVars
<1>6. Turn'
  <2>1. CASE k = "G28"
    BY <1>1, <1>2, <1>3, <1>4, <2>1
       DEF Turn, Travelling, Dropped, Quiet, NothingOwed, NoCommand, hostVars,
           stepperVars
  <2>2. CASE k # "G28"
    <3>1. line'.kind = k /\ k \in Known /\ line'.n = sent /\ k # NoCommand
      BY <1>4, <2>2 DEF Known, Kinds, NoCommand
    <3>2. Owed(k)'
      BY <1>1, <1>3, <2>2 DEF Owed, Order, hostVars, stepperVars
    <3>3. Assigning'
      BY <1>1, <1>2, <1>4, <3>1, <3>2
         DEF Assigning, Travelling, Quiet, hostVars, stepperVars
    <3>4. QED
      BY <1>1, <1>2, <3>3 DEF Turn, hostVars
  <2>3. QED
    BY <2>1, <2>2
<1>7. QED
  BY <1>1, <1>5, <1>6 DEF OneOwner, hostVars, stepperVars

(* The fields of gObject are assigned one at a time, all before it is sent. *)
LEMMA AssignStep ==
  ASSUME OneOwner, Assign
  PROVE  OneOwner'
<1>1. /\ TypeOK /\ left' = Tail(left)
      /\ gObject' = [gObject EXCEPT ![Head(left)] =
                       IF Head(left) = "command" THEN line.kind ELSE line.n]
      /\ parserPc' = IF left' = <<>> THEN "send" ELSE "assign"
      /\ UNCHANGED <<hostVars, toDevice, toHost, line, commandQueue, stepperVars>>
  BY DEF OneOwner, Assign
<1>2. Assigning /\ outstanding
  BY DEF OneOwner, Turn, Assign, Resting, Quiet, Travelling, Dropped, Sending,
     Queued, Executing, Answering, Answered
<1>0. PICK k \in Known : line.kind = k
  BY <1>2 DEF Assigning
<1>3. /\ gObject \in GObject /\ sent \in Numbers
      /\ k \in Known /\ line.n = sent /\ Owed(k)
      /\ k \in Kinds \cup {NoCommand}
      /\ DOMAIN gObject = {"command", "servo", "xCoord", "yCoord"}
  BY <1>0, <1>1, <1>2 DEF TypeOK, GObject, Assigning, Known
<1>4. Owed(k)'
  BY <1>1, <1>3 DEF Owed, Order, hostVars, stepperVars
<1> DEFINE Before ==
      /\ sent' = sent /\ line' = line /\ line.kind = k /\ outstanding'
      /\ commandQueue' = <<>>
      /\ stepperPc' = "wait" /\ toDevice' = <<>> /\ toHost' = <<>> /\ ~idle'
<1>5. Before
  BY <1>0, <1>1, <1>2 DEF Assigning, hostVars, stepperVars
<1>6. SUFFICES /\ gObject' \in GObject
               /\ left' \in Seq({"command", "servo", "xCoord", "yCoord"})
               /\ Assigning' \/ Sending'
  <2>1. DOMAIN gObject' = {"command", "servo", "xCoord", "yCoord"}
    BY <1>6 DEF GObject
  <2>2. parserPc' \in {"receive", "assign", "send"}
    BY <1>1
  <2>3. TypeOK'
    BY <1>1, <1>6, <2>1, <2>2 DEF TypeOK, hostVars, stepperVars
  <2>4. QED
    BY <1>1, <1>5, <1>6, <2>3 DEF OneOwner, Turn, hostVars, stepperVars
<1>7. CASE left = Assigned(k) /\ k = "M10"
  <2>1. left = <<"command">> /\ Head(<<"command">>) = "command"
        /\ Tail(<<"command">>) = <<>>
    BY <1>7 DEF Assigned
  <2>2. gObject' = [gObject EXCEPT !.command = k] /\ left' = <<>>
        /\ parserPc' = "send"
    BY <1>0, <1>1, <2>1
  <2>3. gObject' \in GObject /\ gObject'.command = k
    BY <1>3, <2>2 DEF GObject
  <2>4. Carries(gObject, k)'
    BY <1>3, <1>5, <1>7, <2>3 DEF Carries
  <2>5. Sending'
    BY <1>3, <1>4, <1>5, <2>2, <2>4 DEF Sending
  <2>6. QED
    BY <2>2, <2>3, <2>5
<1>8. CASE left = Assigned(k) /\ k = "M1"
  <2>1. /\ left = <<"command", "servo">>
        /\ Head(<<"command", "servo">>) = "command"
        /\ Tail(<<"command", "servo">>) = <<"servo">> /\ <<"servo">> # <<>>
    BY <1>8 DEF Assigned
  <2>2. gObject' = [gObject EXCEPT !.command = k] /\ left' = <<"servo">>
        /\ parserPc' = "assign"
    BY <1>0, <1>1, <2>1
  <2>3. gObject' \in GObject /\ gObject'.command = k
    BY <1>3, <2>2 DEF GObject
  <2>4. Assigning'
    BY <1>3, <1>4, <1>5, <1>8, <2>2, <2>3 DEF Assigning
  <2>5. QED
    BY <2>2, <2>3, <2>4
<1>9. CASE left = Assigned(k) /\ k = "G1"
  <2>1. /\ left = <<"command", "xCoord", "yCoord">>
        /\ Head(<<"command", "xCoord", "yCoord">>) = "command"
        /\ Tail(<<"command", "xCoord", "yCoord">>) = <<"xCoord", "yCoord">>
        /\ <<"xCoord", "yCoord">> # <<>>
    BY <1>9 DEF Assigned
  <2>2. /\ gObject' = [gObject EXCEPT !.command = k]
        /\ left' = <<"xCoord", "yCoord">> /\ parserPc' = "assign"
    BY <1>0, <1>1, <2>1
  <2>3. gObject' \in GObject /\ gObject'.command = k
    BY <1>3, <2>2 DEF GObject
  <2>4. Assigning'
    BY <1>3, <1>4, <1>5, <1>9, <2>2, <2>3 DEF Assigning
  <2>5. QED
    BY <2>2, <2>3, <2>4
<1>10. CASE left = <<"servo">> /\ k = "M1" /\ gObject.command = "M1"
  <2>1. Head(<<"servo">>) = "servo" /\ Tail(<<"servo">>) = <<>>
    OBVIOUS
  <2>2. gObject' = [gObject EXCEPT !.servo = sent] /\ left' = <<>>
        /\ parserPc' = "send"
    BY <1>0, <1>1, <1>3, <1>10, <2>1
  <2>3. gObject' \in GObject /\ gObject'.command = "M1" /\ gObject'.servo = sent
    BY <1>3, <1>10, <2>2 DEF GObject
  <2>4. Carries(gObject, k)'
    BY <1>5, <1>10, <2>3 DEF Carries
  <2>5. Sending'
    BY <1>3, <1>4, <1>5, <2>2, <2>4 DEF Sending
  <2>6. QED
    BY <2>2, <2>3, <2>5
<1>11. CASE left = <<"xCoord", "yCoord">> /\ k = "G1" /\ gObject.command = "G1"
  <2>1. /\ Head(<<"xCoord", "yCoord">>) = "xCoord"
        /\ Tail(<<"xCoord", "yCoord">>) = <<"yCoord">> /\ <<"yCoord">> # <<>>
    OBVIOUS
  <2>2. gObject' = [gObject EXCEPT !.xCoord = sent] /\ left' = <<"yCoord">>
        /\ parserPc' = "assign"
    BY <1>0, <1>1, <1>3, <1>11, <2>1
  <2>3. gObject' \in GObject /\ gObject'.command = "G1" /\ gObject'.xCoord = sent
    BY <1>3, <1>11, <2>2 DEF GObject
  <2>4. Assigning'
    BY <1>3, <1>4, <1>5, <1>11, <2>2, <2>3 DEF Assigning
  <2>5. QED
    BY <2>2, <2>3, <2>4
<1>12. CASE /\ left = <<"yCoord">> /\ k = "G1" /\ gObject.command = "G1"
            /\ gObject.xCoord = sent
  <2>1. Head(<<"yCoord">>) = "yCoord" /\ Tail(<<"yCoord">>) = <<>>
    OBVIOUS
  <2>2. gObject' = [gObject EXCEPT !.yCoord = sent] /\ left' = <<>>
        /\ parserPc' = "send"
    BY <1>0, <1>1, <1>3, <1>12, <2>1
  <2>3. /\ gObject' \in GObject /\ gObject'.command = "G1"
        /\ gObject'.xCoord = sent /\ gObject'.yCoord = sent
    BY <1>3, <1>12, <2>2 DEF GObject
  <2>4. Carries(gObject, k)'
    BY <1>5, <1>12, <2>3 DEF Carries
  <2>5. Sending'
    BY <1>3, <1>4, <1>5, <2>2, <2>4 DEF Sending
  <2>6. QED
    BY <2>2, <2>3, <2>5
<1>13. QED
  BY <1>0, <1>2, <1>3, <1>7, <1>8, <1>9, <1>10, <1>11, <1>12
     DEF Assigning, Known, Kinds

LEMMA SendCommandStep ==
  ASSUME OneOwner, SendCommand
  PROVE  OneOwner'
<1>1. /\ TypeOK /\ commandQueue' = <<gObject>> /\ parserPc' = "receive"
      /\ UNCHANGED <<hostVars, toDevice, toHost, line, left, gObject,
                     stepperVars>>
  BY DEF OneOwner, SendCommand
<1>2. Sending /\ outstanding
  BY DEF OneOwner, Turn, SendCommand, Resting, Quiet, Travelling, Dropped,
     Assigning, Queued, Executing, Answering, Answered
<1>3. TypeOK'
  <2>1. gObject \in GObject
    BY <1>1 DEF TypeOK
  <2>2. commandQueue' \in Seq(GObject) /\ Len(commandQueue') = 1
    BY <1>1, <2>1
  <2>3. QED
    BY <1>1, <2>2 DEF TypeOK, hostVars, stepperVars
<1>4. PICK k \in Known : Carries(gObject, k) /\ Owed(k)
  BY <1>2 DEF Sending
<1>5. Carries(gObject, k)' /\ Owed(k)' /\ gObject' \in GObject
  BY <1>1, <1>4 DEF Carries, Owed, Order, TypeOK, hostVars, stepperVars
<1>6. Queued'
  BY <1>1, <1>2, <1>5 DEF Queued, Sending, Carries, hostVars, stepperVars
<1>7. QED
  BY <1>1, <1>2, <1>3, <1>6 DEF OneOwner, Turn, hostVars, stepperVars

LEMMA ReceiveCommandStep ==
  ASSUME OneOwner, ReceiveCommand
  PROVE  OneOwner'
<1>1. /\ TypeOK /\ gObject' = Head(commandQueue) /\ commandQueue' = <<>>
      /\ stepperPc' = "switch" /\ idle' = FALSE
      /\ UNCHANGED <<hostVars, toDevice, toHost, parserVars, pulse, executed>>
  BY DEF OneOwner, ReceiveCommand, StepperGoto
<1>2. Queued /\ outstanding
  BY DEF OneOwner, Turn, ReceiveCommand, Resting, Quiet, Travelling, Dropped,
     Assigning, Sending, Executing, Answering, Answered
<1>3. PICK k \in Known, o \in GObject :
        commandQueue = <<o>> /\ Carries(o, k) /\ Owed(k)
  BY <1>2 DEF Queued
<1>4. gObject' = o
  BY <1>1, <1>3
<1>5. TypeOK'
  <2>1. commandQueue' \in Seq(GObject) /\ Len(commandQueue') = 0
    BY <1>1
  <2>2. DOMAIN gObject' = DOMAIN gObject
    BY <1>1, <1>4 DEF TypeOK, GObject
  <2>3. left' \in Seq(DOMAIN gObject')
    BY <1>1, <2>2 DEF TypeOK, parserVars
  <2>4. stepperPc' \in {"wait", "switch", "M1", "G1", "answer"}
        /\ idle' \in BOOLEAN
    BY <1>1
  <2>5. QED
    BY <1>1, <1>4, <2>1, <2>3, <2>4 DEF TypeOK, hostVars, parserVars
<1>6. Carries(gObject, k)' /\ Owed(k)'
  BY <1>1, <1>3, <1>4 DEF Carries, Owed, Order, hostVars
<1>7. Executing'
  BY <1>1, <1>2, <1>6 DEF Executing, Queued, Carries, hostVars, parserVars
<1>8. QED
  BY <1>1, <1>2, <1>5, <1>7 DEF OneOwner, Turn, hostVars

(* An idle OK answers a line the parser dropped, or comes when none is asked. *)
LEMMA IdleOKStep ==
  ASSUME OneOwner, IdleOK
  PROVE  OneOwner'
<1>1. /\ TypeOK /\ toHost' = Append(toHost, "OK") /\ idle' = FALSE
      /\ UNCHANGED <<hostVars, toDevice, parserVars, gObject, commandQueue,
                     stepperPc, pulse, executed>>
  BY DEF OneOwner, IdleOK, Send
<1>2. Dropped /\ outstanding
  BY DEF OneOwner, Turn, IdleOK, Resting, Quiet, Travelling, Assigning, Sending,
     Queued, Executing, Answering, Answered
<1>3. toHost' = <<"OK">>
  BY <1>1, <1>2 DEF Dropped
<1>4. TypeOK'
  <2>1. toHost' \in Seq({"XY", "OK"}) /\ Len(toHost') = 1
    BY <1>3
  <2>2. Len(toHost') <= MaxUnread + 2
    BY <2>1, CommandsAssumption DEF CommandsAssumption
  <2>3. idle' \in BOOLEAN
    BY <1>1
  <2>4. QED
    BY <1>1, <2>1, <2>2, <2>3 DEF TypeOK, hostVars, parserVars
<1>5. Answered'
  BY <1>1, <1>2, <1>3
     DEF Answered, Dropped, Quiet, NothingOwed, hostVars, parserVars
<1>6. QED
  BY <1>1, <1>2, <1>4, <1>5 DEF OneOwner, Turn, hostVars

LEMMA SwitchStep ==
  ASSUME OneOwner, Switch
  PROVE  OneOwner'
<1>1. /\ TypeOK /\ stepperPc = "switch"
      /\ ordered \in Seq(Effects) /\ executed \in Seq(Effects)
      /\ pulse = PenAfter(executed)
      /\ UNCHANGED <<hostVars, toDevice, parserVars, gObject, commandQueue, pulse,
                     idle>>
  BY DEF OneOwner, Switch
<1>2. Executing /\ outstanding
  BY <1>1 DEF OneOwner, Turn, Resting, Quiet, Travelling, Dropped, Assigning,
     Sending, Queued, Answering, Answered
<1>3. PICK k \in Known : Carries(gObject, k) /\ Owed(k)
  BY <1>2 DEF Executing
<1>4. sent \in Numbers /\ pulse \in Pens /\ gObject.command = k
  BY <1>1, <1>3 DEF TypeOK, Pens, Carries
<1>5. CASE k = "M10"
  <2>1. /\ toHost' = <<"XY">> /\ stepperPc' = "answer"
        /\ executed' = Append(executed, Order(k))
    <3>1. Append(<<>>, "XY") = <<"XY">>
      OBVIOUS
    <3>2. Effect(gObject, pulse) = Order(k)
      BY <1>3, <1>5, CarriedEffect
    <3>3. QED
      BY <1>2, <1>4, <1>5, <3>1, <3>2 DEF Switch, Send, StepperGoto, Executing
  <2>2. executed' = ordered /\ executed' \in Seq(Effects)
    BY <1>1, <1>3, <2>1 DEF Owed
  <2>3. pulse = PenAfter(executed')
    BY <1>1, <1>4, <1>5, <2>1, OrderType, PenAfterAppend
  <2>4. TypeOK'
    <3>1. toHost' \in Seq({"XY", "OK"}) /\ Len(toHost') = 1
      BY <2>1
    <3>2. Len(toHost') <= MaxUnread + 2
      BY <3>1, CommandsAssumption DEF CommandsAssumption
    <3>3. QED
      BY <1>1, <2>1, <3>1, <3>2 DEF TypeOK, hostVars, parserVars
  <2>5. Answering'
    BY <1>1, <1>2, <2>1, <2>2
       DEF Answering, Executing, NothingOwed, hostVars, parserVars
  <2>6. QED
    BY <1>1, <1>2, <2>2, <2>3, <2>4, <2>5 DEF OneOwner, Turn, hostVars
<1>6. CASE k # "M10"
  <2>1. stepperPc' = k /\ UNCHANGED <<toHost, executed>>
    BY <1>4, <1>6 DEF Switch, StepperGoto
  <2>2. TypeOK'
    BY <1>1, <1>6, <2>1 DEF TypeOK, hostVars, parserVars, Known, Kinds
  <2>3. Carries(gObject, k)' /\ Owed(k)'
    BY <1>1, <1>3, <2>1 DEF Carries, Owed, Order, hostVars
  <2>4. Executing'
    BY <1>1, <1>2, <1>6, <2>1, <2>3 DEF Executing, hostVars, parserVars
  <2>5. QED
    BY <1>1, <1>2, <2>1, <2>2, <2>4 DEF OneOwner, Turn, hostVars
<1>7. QED
  BY <1>5, <1>6

LEMMA ExecuteStep ==
  ASSUME OneOwner, Execute
  PROVE  OneOwner'
<1>1. /\ TypeOK /\ stepperPc \in {"M1", "G1"} /\ stepperPc' = "answer"
      /\ ordered \in Seq(Effects) /\ executed \in Seq(Effects)
      /\ pulse = PenAfter(executed)
      /\ executed' = Append(executed,
                            Effect([gObject EXCEPT !.command = stepperPc], pulse))
      /\ pulse' = IF stepperPc = "M1" THEN PulseOf(gObject.servo) ELSE pulse
      /\ UNCHANGED <<hostVars, toDevice, toHost, parserVars, gObject,
                     commandQueue, idle>>
  BY DEF OneOwner, Execute, StepperGoto
<1>2. Executing /\ outstanding
  BY <1>1 DEF OneOwner, Turn, Resting, Quiet, Travelling, Dropped, Assigning,
     Sending, Queued, Answering, Answered
<1>3. PICK k \in Known : stepperPc = k /\ Carries(gObject, k) /\ Owed(k)
  BY <1>1, <1>2 DEF Executing
<1>4. sent \in Numbers /\ pulse \in Pens
  BY <1>1 DEF TypeOK, Pens
<1>5. executed' = Append(executed, Order(k)) /\ Order(k) \in Effects
  BY <1>1, <1>3, <1>4, CarriedEffect, OrderType
<1>6. executed' = ordered /\ executed' \in Seq(Effects)
  BY <1>1, <1>3, <1>5 DEF Owed
<1>7. pulse' = PenAfter(executed') /\ pulse' \in {PenUp, PenDown}
  <2>1. Order(k)[1] = "M1" <=> k = "M1"
    BY <1>4, OrderType
  <2>2. k = "M1" => Order(k)[2] = gObject.servo
    BY <1>3, <1>4, OrderType DEF Carries
  <2>3. QED
    BY <1>1, <1>3, <1>4, <1>5, <2>1, <2>2, PenAfterAppend DEF PulseOf, Pens
<1>8. TypeOK'
  BY <1>1, <1>7 DEF TypeOK, hostVars, parserVars
<1>9. Answering'
  BY <1>1, <1>2, <1>6 DEF Answering, Executing, NothingOwed, hostVars, parserVars
<1>10. QED
  BY <1>1, <1>2, <1>6, <1>7, <1>8, <1>9 DEF OneOwner, Turn, hostVars

LEMMA AnswerStep ==
  ASSUME OneOwner, Answer
  PROVE  OneOwner'
<1>1. /\ TypeOK /\ toHost' = Append(toHost, "OK") /\ stepperPc' = "wait"
      /\ UNCHANGED <<hostVars, toDevice, parserVars, gObject, commandQueue, pulse,
                     idle, executed>>
  BY DEF OneOwner, Answer, Send, StepperGoto
<1>2. Answering /\ outstanding
  BY DEF OneOwner, Turn, Answer, Resting, Quiet, Travelling, Dropped, Assigning,
     Sending, Queued, Executing, Answered, Known, Kinds
<1>3. toHost' \in {<<"OK">>, <<"XY", "OK">>}
  <2>1. Append(<<>>, "OK") = <<"OK">>
    OBVIOUS
  <2>2. Append(<<"XY">>, "OK") = <<"XY", "OK">>
    <3> DEFINE s == Append(<<"XY">>, "OK")
               t == <<"XY", "OK">>
    <3>1. /\ <<"XY">> \in Seq({"XY", "OK"}) /\ t \in Seq({"XY", "OK"})
          /\ Len(<<"XY">>) = 1 /\ <<"XY">>[1] = "XY"
          /\ Len(t) = 2 /\ t[1] = "XY" /\ t[2] = "OK"
      OBVIOUS
    <3>2. s \in Seq({"XY", "OK"}) /\ Len(s) = 2 /\ s[1] = "XY" /\ s[2] = "OK"
      BY <3>1, AppendProperties
    <3>3. \A i \in 1..Len(s) : s[i] = t[i]
      BY <3>1, <3>2
    <3>4. QED
      BY <3>1, <3>2, <3>3, SeqEqual
  <2>3. QED
    BY <1>1, <1>2, <2>1, <2>2 DEF Answering
<1>4. TypeOK'
  <2>1. <<"OK">> \in Seq({"XY", "OK"}) /\ Len(<<"OK">>) = 1
    OBVIOUS
  <2>2. <<"XY", "OK">> \in Seq({"XY", "OK"}) /\ Len(<<"XY", "OK">>) = 2
    OBVIOUS
  <2>3. 2 <= MaxUnread + 2
    BY CommandsAssumption DEF CommandsAssumption
  <2>4. CASE toHost' = <<"OK">>
    <3>1. toHost' \in Seq({"XY", "OK"}) /\ Len(toHost') <= MaxUnread + 2
      BY <2>1, <2>3, <2>4, CommandsAssumption DEF CommandsAssumption
    <3>2. QED
      BY <1>1, <3>1 DEF TypeOK, hostVars, parserVars
  <2>5. CASE toHost' = <<"XY", "OK">>
    <3>1. toHost' \in Seq({"XY", "OK"}) /\ Len(toHost') <= MaxUnread + 2
      BY <2>2, <2>3, <2>5
    <3>2. QED
      BY <1>1, <3>1 DEF TypeOK, hostVars, parserVars
  <2>6. QED
    BY <1>3, <2>4, <2>5
<1>5. Answered'
  BY <1>1, <1>2, <1>3
     DEF Answered, Answering, Quiet, NothingOwed, hostVars, parserVars
<1>6. QED
  BY <1>1, <1>2, <1>4, <1>5 DEF OneOwner, Turn, hostVars

(* A host that does not pause lets ten seconds pass only without an answer. *)
LEMMA TenSecondsStep ==
  ASSUME ~Pauses, OneOwner, TenSeconds
  PROVE  OneOwner'
<1>1. /\ TypeOK /\ outstanding /\ toHost = <<>> /\ idle'
      /\ UNCHANGED <<hostVars, toDevice, toHost, parserVars, gObject,
                     commandQueue, stepperPc, pulse, executed>>
  BY DEF OneOwner, TenSeconds, TypeOK
<1>2. Dropped
  <2>1. /\ toDevice = <<>> /\ commandQueue = <<>>
        /\ parserPc = "receive" /\ stepperPc = "wait"
    BY DEF TenSeconds
  <2>2. ~Travelling /\ ~Queued
    BY <2>1 DEF Travelling, Queued
  <2>3. ~Assigning /\ ~Sending /\ ~Executing /\ ~Answering
    BY <2>1 DEF Assigning, Sending, Executing, Answering, Known, Kinds
  <2>4. ~Resting /\ ~Answered
    BY <1>1 DEF Resting, Answered
  <2>5. QED
    BY <2>2, <2>3, <2>4 DEF OneOwner, Turn
<1>3. TypeOK'
  BY <1>1 DEF TypeOK, TenSeconds, hostVars, parserVars
<1>4. Dropped'
  BY <1>1, <1>2 DEF Dropped, Quiet, NothingOwed, hostVars, parserVars
<1>5. QED
  BY <1>1, <1>3, <1>4 DEF OneOwner, Turn, hostVars

LEMMA OneOwnerStutter ==
  ASSUME OneOwner, UNCHANGED vars
  PROVE  OneOwner'
<1>1. /\ UNCHANGED <<hostVars, parserVars, stepperVars>>
      /\ UNCHANGED <<toDevice, toHost, gObject, commandQueue>>
  BY DEF vars
<1>2. TypeOK'
  BY <1>1 DEF OneOwner, TypeOK, hostVars, parserVars, stepperVars
<1>3. \A k : /\ Owed(k)' <=> Owed(k)
             /\ Carries(gObject, k)' <=> Carries(gObject, k)
  BY <1>1 DEF Owed, Order, Carries, hostVars, stepperVars
<1>4. \A k, o : Carries(o, k)' <=> Carries(o, k)
  BY <1>1 DEF Carries, hostVars
<1>5. /\ Resting => Resting'
      /\ Travelling => Travelling'
      /\ Dropped => Dropped'
  BY <1>1, <1>3 DEF Resting, Travelling, Dropped, Quiet, NothingOwed, hostVars,
     parserVars, stepperVars
<1>6. Assigning => Assigning'
  BY <1>1, <1>3 DEF Assigning, hostVars, parserVars, stepperVars
<1>7. Sending => Sending'
  BY <1>1, <1>3 DEF Sending, hostVars, parserVars, stepperVars
<1>8. Queued => Queued'
  BY <1>1, <1>3, <1>4 DEF Queued, hostVars, parserVars, stepperVars
<1>9. Executing => Executing'
  BY <1>1, <1>3 DEF Executing, hostVars, parserVars, stepperVars
<1>10. (Answering => Answering') /\ (Answered => Answered')
  BY <1>1 DEF Answering, Answered, Quiet, NothingOwed, hostVars, parserVars,
     stepperVars
<1>11. QED
  BY <1>1, <1>2, <1>5, <1>6, <1>7, <1>8, <1>9, <1>10
     DEF OneOwner, Turn, hostVars, stepperVars

LEMMA OneOwnerStep ==
  ASSUME ~Pauses, OneOwner, [Next]_vars
  PROVE  OneOwner'
<1>1. CASE \E k \in Kinds : HostSends(k)
  BY <1>1, HostSendsStep
<1>2. CASE HostReads
  BY <1>2, HostReadsStep
<1>3. CASE Parser
  BY <1>3, ReceiveLineStep, AssignStep, SendCommandStep DEF Parser
<1>4. CASE Stepper
  BY <1>4, ReceiveCommandStep, IdleOKStep, SwitchStep, ExecuteStep, AnswerStep
     DEF Stepper
<1>5. CASE TenSeconds
  BY <1>5, TenSecondsStep
<1>6. CASE UNCHANGED vars
  BY <1>6, OneOwnerStutter
<1>7. QED
  BY <1>1, <1>2, <1>3, <1>4, <1>5, <1>6 DEF Next

LEMMA OneOwnerAlways ==
  ASSUME ~Pauses PROVE Spec => []OneOwner
<1>1. Init => OneOwner
  BY OneOwnerInit
<1>2. OneOwner /\ [Next]_vars => OneOwner'
  BY OneOwnerStep
<1>3. QED
  BY <1>1, <1>2, PTL DEF Spec

-----------------------------------------------------------------------------
(* What is ordered and not yet executed is one effect at most. *)
LEMMA OwedOne ==
  ASSUME OneOwner
  PROVE  \/ ordered = executed
         \/ /\ outstanding
            /\ \E e \in Effects : ordered = Append(executed, e)
<1>1. sent \in Numbers /\ pulse \in Pens
  BY DEF OneOwner, TypeOK, Pens
<1>2. \A k \in Known : Order(k) \in Effects
  BY <1>1, OrderType
<1>3. \/ NothingOwed
      \/ outstanding /\ \E k \in Known : Owed(k)
  BY DEF OneOwner, Turn, Resting, Travelling, Dropped, Assigning, Sending, Queued,
     Executing, Answering, Answered, Known
<1>4. QED
  BY <1>2, <1>3 DEF NothingOwed, Owed

(* All that vParserTask and vStepperTask touch has the type it is given, and *)
(* the host never has more than two answers to read.                       *)
THEOREM CommandsTypeCorrect ==
  ASSUME ~Pauses PROVE Spec => []TypeOK
<1>1. OneOwner => TypeOK
  BY DEF OneOwner
<1>2. QED
  BY <1>1, OneOwnerAlways, PTL

(* vStepperTask executes what the host asked for, with the arguments of the  *)
(* line, in order, nothing twice and nothing left out, however many lines    *)
(* come, as long as the host waits for each OK and does not pause.         *)
THEOREM CommandsInOrderOnce ==
  ASSUME ~Pauses PROVE Spec => []InOrderOnce
<1>1. ASSUME OneOwner PROVE InOrderOnce
  <2>1. executed \in Seq(Effects) /\ Len(executed) \in Nat
    BY <1>1, LenProperties DEF OneOwner
  <2>2. CASE ordered = executed
    BY <2>1, <2>2 DEF InOrderOnce
  <2>3. CASE \E e \in Effects : ordered = Append(executed, e)
    BY <2>1, <2>3, AppendProperties DEF InOrderOnce
  <2>4. QED
    BY <1>1, <2>2, <2>3, OwedOne
<1>2. QED
  BY <1>1, OneOwnerAlways, PTL

(* vParserTask does not write into gObject between the xQueueReceive of      *)
(* vStepperTask and its last read of gObject, though nothing locks it.     *)
THEOREM CommandsHeld ==
  ASSUME ~Pauses PROVE Spec => []CommandHeld
<1>1. OneOwner => CommandHeld
  BY DEF OneOwner, CommandHeld, Turn, Resting, Travelling, Dropped, Quiet,
     Assigning, Sending, Queued, Executing, Answering, Answered
<1>2. QED
  BY <1>1, OneOwnerAlways, PTL

(* A host that has its OK, of a command or of the idle vStepperTask, has     *)
(* everything done that it asked for.                                      *)
THEOREM CommandsOKMeansDone ==
  ASSUME ~Pauses PROVE Spec => []OKMeansDone
<1>1. OneOwner => OKMeansDone
  BY OwedOne DEF OKMeansDone
<1>2. QED
  BY <1>1, OneOwnerAlways, PTL

-----------------------------------------------------------------------------
(* Every step is one of the service or changes nothing of it.              *)

LEMMA AskStep ==
  ASSUME OneOwner, NEW k \in Kinds, HostSends(k)
  PROVE  Served!Ask
<1>1. /\ ~outstanding /\ outstanding' = TRUE /\ executed' = executed
      /\ \/ ordered' = ordered
         \/ \E e : ordered' = Append(ordered, e)
  BY DEF HostSends, stepperVars
<1>2. ordered \in Seq(Effects) /\ Len(ordered) \in Nat
  BY LenProperties DEF OneOwner
<1>3. CASE \E e : ordered' = Append(ordered, e)
  <2>1. PICK e : ordered' = Append(ordered, e)
    BY <1>3
  <2> DEFINE S == Effects \cup {e}
  <2>2. ordered \in Seq(S) /\ e \in S
    BY <1>2
  <2>3. Len(ordered') = Len(ordered) + 1
    BY <2>1, <2>2, AppendProperties
  <2>4. SubSeq(ordered', 1, Len(ordered)) = ordered
    <3> HIDE DEF S
    <3>1. QED
      BY <1>2, <2>1, <2>2
  <2>5. QED
    BY <1>1, <2>3, <2>4 DEF Served!Ask
<1>4. QED
  BY <1>1, <1>3 DEF Served!Ask

LEMMA ExecutionStep ==
  ASSUME OneOwner, NEW k \in Known, Owed(k), Order(k) \in Effects,
         executed' = Append(executed, Order(k)),
         UNCHANGED <<outstanding, ordered>>
  PROVE  Served!Execute
<1>1. executed \in Seq(Effects) /\ Len(executed) \in Nat
  BY LenProperties DEF OneOwner
<1>2. /\ Len(ordered) = Len(executed) + 1
      /\ ordered[Len(executed) + 1] = Order(k)
  BY <1>1, AppendProperties DEF Owed
<1>3. QED
  BY <1>1, <1>2 DEF Served!Execute

LEMMA ServedStep ==
  ASSUME ~Pauses, OneOwner, [Next]_vars
  PROVE  [Served!Next]_(Served!vars)
<1>1. CASE \E k \in Kinds : HostSends(k)
  BY <1>1, AskStep DEF Served!Next
<1>2. CASE HostReads
  <2>1. ordered = executed
    BY <1>2 DEF OneOwner, HostReads, Turn, Resting, Travelling, Dropped,
       Assigning, Sending, Queued, Executing, Answering, Answered, NothingOwed
  <2>2. /\ outstanding /\ outstanding' \in BOOLEAN
        /\ UNCHANGED <<ordered, executed>>
    BY <1>2 DEF HostReads, stepperVars
  <2>3. CASE outstanding'
    BY <2>2, <2>3 DEF OneOwner, TypeOK, Served!vars
  <2>4. CASE ~outstanding'
    BY <2>1, <2>2, <2>4 DEF Served!Next, Served!Answer
  <2>5. QED
    BY <2>3, <2>4
<1>3. CASE Parser
  BY <1>3 DEF Parser, ReceiveLine, Assign, SendCommand, hostVars, stepperVars,
     Served!vars
<1>4. CASE ReceiveCommand \/ IdleOK \/ Answer \/ TenSeconds
  BY <1>4 DEF ReceiveCommand, IdleOK, Answer, TenSeconds, hostVars, Served!vars
<1>5. ASSUME Switch \/ Execute
      PROVE  \E k \in Known : /\ Carries(gObject, k) /\ Owed(k)
                              /\ Order(k) \in Effects
                              /\ stepperPc = "switch" \/ stepperPc = k
  <2>1. Executing
    BY <1>5 DEF OneOwner, Turn, Switch, Execute, Resting, Quiet, Travelling,
       Dropped, Assigning, Sending, Queued, Answering, Answered
  <2>2. sent \in Numbers /\ pulse \in Pens
    BY DEF OneOwner, TypeOK, Pens
  <2>3. QED
    BY <2>1, <2>2, OrderType DEF Executing
<1>6. CASE Switch
  <2>1. PICK k \in Known :
          Carries(gObject, k) /\ Owed(k) /\ Order(k) \in Effects
    BY <1>5, <1>6
  <2>2. UNCHANGED <<outstanding, ordered>> /\ gObject.command = k
    BY <1>6, <2>1 DEF Switch, Carries, hostVars
  <2>3. CASE k = "M10"
    <3>1. executed' = Append(executed, Order(k))
      BY <1>6, <2>1, <2>2, <2>3, CarriedEffect DEF Switch
    <3>2. QED
      BY <2>1, <2>2, <3>1, ExecutionStep DEF Served!Next
  <2>4. CASE k # "M10"
    BY <1>6, <2>2, <2>4 DEF Switch, Served!vars
  <2>5. QED
    BY <2>3, <2>4
<1>7. CASE Execute
  <2>1. PICK k \in Known : /\ Carries(gObject, k) /\ Owed(k)
                           /\ Order(k) \in Effects /\ stepperPc = k
    BY <1>5, <1>7 DEF Execute
  <2>2. UNCHANGED <<outstanding, ordered>>
    BY <1>7 DEF Execute, hostVars
  <2>3. executed' = Append(executed, Order(k))
    BY <1>7, <2>1, CarriedEffect DEF Execute
  <2>4. QED
    BY <2>1, <2>2, <2>3, ExecutionStep DEF Served!Next
<1>8. CASE UNCHANGED vars
  BY <1>8 DEF vars, hostVars, stepperVars, Served!vars
<1>9. QED
  BY <1>1, <1>2, <1>3, <1>4, <1>6, <1>7, <1>8 DEF Next, Stepper

(* The two tasks, the queue and gObject together are a service that does one *)
(* thing the host asks for at a time, once, and answers after it.  (That it   *)
(* does answer is left to TLC.)                                            *)
THEOREM CommandsServe ==
  ASSUME ~Pauses
  PROVE  Spec => Served!Init /\ [][Served!Next]_(Served!vars)
<1>1. Init => Served!Init
  BY DEF Init, Served!Init
<1>2. OneOwner /\ [Next]_vars => [Served!Next]_(Served!vars)
  BY ServedStep
<1>3. QED
  BY <1>1, <1>2, OneOwnerAlways, PTL DEF Spec

=============================================================================
