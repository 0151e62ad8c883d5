------------------------------- MODULE GCode -------------------------------
(***************************************************************************)
(* From characters to commands: how vParserTask assembles a line from what *)
(* USB_receive returns, and what GCodeParser reads in it.  USB delivers    *)
(* the host's characters in order, cut into packets anywhere.              *)
(*                                                                         *)
(* A line of the host is a code and its arguments, each after a space; a   *)
(* space ends the last one too, as parseCoords needs: it looks for one     *)
(* beyond the end of the line.  Numbers have no sign.                      *)
(***************************************************************************)
EXTENDS SequencesExt

CONSTANTS
  Lines,      \* the lines the host may send
  MaxLines,   \* how many it sends
  MaxPacket,  \* characters of the longest packet
  Places,     \* decimal places that values are kept with
  Stack,      \* what may stand in memory from the array temp of parseCoords on
  Garbage     \* values of variables that nobody has set

Space == " "
NewLine == "\n"
Nul == "0x00"

(* A line is its code and its arguments, each a letter and a number. *)
ASSUME GCodeAssumption ==
  /\ Lines \subseteq
       [code : Seq(STRING),
        args : Seq([letter : Seq(STRING), number : Seq(STRING)])]
  /\ MaxLines \in Nat /\ MaxPacket \in Nat \ {0} /\ Places \in Nat
  /\ Garbage \subseteq Int /\ Garbage # {}

(* char temp[8] and what lies behind it, up to a terminator: atof may read   *)
(* so far.  There is no x in it, which would make an old 0x9 a number.     *)
ASSUME StackAssumption ==
  /\ Stack # {}
  /\ \A temp \in Stack :
       /\ temp \in Seq(STRING) /\ Len(temp) > 8 /\ Last(temp) = Nul
       /\ ~Contains(temp, "x") /\ ~Contains(temp, "X")

VARIABLES
  sent,      \* the lines of the host
  wire,      \* their characters that have not come yet
  buffStr,   \* the line assembled so far
  angle_, xCoord_, yCoord_,  \* members of GCodeParser
  commands   \* history: what the parser made of which line

members == <<angle_, xCoord_, yCoord_>>
vars == <<sent, wire, buffStr, members, commands>>

Digits == <<"0", "1", "2", "3", "4", "5", "6", "7", "8", "9">>
DigitOf(c) == SelectInSeq(Digits, LAMBDA d : d = c) - 1

(* the characters of a line *)
Text(l) ==
  l.code
    \o FlattenSeq([i \in DOMAIN l.args |->
                     <<Space>> \o l.args[i].letter \o l.args[i].number])
    \o <<Space, NewLine>>

TextOf(ls) == FlattenSeq([i \in DOMAIN ls |-> Text(ls[i])])

-----------------------------------------------------------------------------
(* Numbers.                                                                *)

IsNumber(t) ==
  /\ \A i \in DOMAIN t : Contains(Digits, t[i]) \/ t[i] = "."
  /\ \A i, j \in DOMAIN t : t[i] = "." /\ t[j] = "." => i = j

Decimals(t) ==
  LET point == SelectInSeq(t, LAMBDA c : c = ".")
  IN  IF point = 0 THEN 0 ELSE Len(t) - point

Power(n) == LET power[i \in 0..n] == IF i = 0 THEN 1 ELSE 10 * power[i - 1]
            IN  power[n]

(* the digits of a number, read without its point *)
Reading(t) ==
  LET reading[i \in 0..Len(t)] ==
        IF i = 0 THEN 0
        ELSE IF t[i] = "." THEN reading[i - 1]
        ELSE 10 * reading[i - 1] + DigitOf(t[i])
  IN  reading[Len(t)]

(* the value of a number, in units of the last of Places decimals *)
Value(t) == (Reading(t) * Power(Places)) \div Power(Decimals(t))

(* the same times ten to the power of e *)
Scaled(t, e) ==
  IF e < 0 THEN (Reading(t) * Power(Places)) \div Power(Decimals(t) - e)
           ELSE (Reading(t) * Power(Places + e)) \div Power(Decimals(t))

LeadingDigits(t) ==
  SubSeq(t, 1, Max({n \in 0..Len(t) : \A i \in 1..n : Contains(Digits, t[i])}))

ExponentLetters == {"e", "E"}

(* the exponent at the start of t, 0 if there is none *)
Exponent(t) ==
  LET signed == Len(t) > 1 /\ t[2] \in {"+", "-"}
      size == Reading(LeadingDigits(SubSeq(t, IF signed THEN 3 ELSE 2, Len(t))))
  IN  IF t = <<>> \/ t[1] \notin ExponentLetters THEN 0
      ELSE IF signed /\ t[2] = "-" THEN -size ELSE size

(* atof: the longest number at the start, 0 if there is none, and an        *)
(* exponent behind it                                                      *)
Atof(temp) ==
  LET n == Max({k \in 0..Len(temp) : IsNumber(SubSeq(temp, 1, k))})
  IN  Scaled(SubSeq(temp, 1, n), Exponent(SubSeq(temp, n + 1, Len(temp))))

-----------------------------------------------------------------------------
(* GCodeParser.                                                            *)

(* the characters after position i up to the next that isspace() accepts *)
WordAfter(s, i) ==
  SubSeq(s, i + 1, SelectInSubSeq(s, i + 1, Len(s), LAMBDA c : c = Space) - 1)

(* temp with a word stored from index at on *)
Stored(temp, at, word) ==
  [k \in DOMAIN temp |-> IF k - at \in DOMAIN word THEN word[k - at] ELSE temp[k]]

(* Mutation: one index for both coordinates. *)
YIndexShared(index) == index

(* The loop body declares a second tempIndex, 0 for every character: the    *)
(* first one, that X uses, is never reset.                                 *)
YIndex(index) == 0

(* One turn of the loop of parseCoords.  temp[strlen(temp)] = 0 changes      *)
(* nothing, so that atof reads on in what stands behind the word.          *)
ParseChar(s, p, i) ==
  LET word == WordAfter(s, i)
      forX == Stored(p.temp, p.index, word)
      forY == Stored(p.temp, YIndex(p.index), word)
  IN  CASE s[i] = "X" -> [p EXCEPT !.temp = forX, !.x = Atof(forX),
                                   !.index = @ + Len(word)]
        [] s[i] = "Y" -> [p EXCEPT !.temp = forY, !.y = Atof(forY)]
        [] OTHER -> p

ParseCoords(s, temp) ==
  LET parsed[i \in 0..Len(s)] ==
        IF i = 0 THEN [temp |-> temp, index |-> 0, x |-> xCoord_, y |-> yCoord_]
                 ELSE ParseChar(s, parsed[i - 1], i)
  IN  parsed[Len(s)]

(* sscanf(buffer, "%s%d", temp, &angle) takes the digits that the word after *)
(* the code begins with, and stores no angle if there are none              *)
Angles(s) ==
  LET digits == LeadingDigits(WordAfter(s, SelectInSeq(s, LAMBDA c : c = Space)))
  IN  IF digits = <<>> THEN Garbage ELSE {Reading(digits)}

M10 == <<"M", "1", "0">>
M1 == <<"M", "1">>
G1 == <<"G", "1">>
None == <<>>

(* Mutation: M1 is looked for before M10. *)
ReadM1First(s) ==
  IF IsPrefix(M1, s) THEN M1
  ELSE IF IsPrefix(G1, s) THEN G1 ELSE IF IsPrefix(M10, s) THEN M10 ELSE None

(* read: the command of a line, None for every other *)
Read(s) ==
  IF IsPrefix(M10, s) THEN M10
  ELSE IF IsPrefix(M1, s) THEN M1
  ELSE IF IsPrefix(G1, s) THEN G1 ELSE None

(* ... and the members that parseAngle or parseCoords sets on the way *)
Parse(s, temp) ==
  CASE Read(s) = M1 ->
         angle_' \in Angles(s) /\ UNCHANGED <<xCoord_, yCoord_>>
    [] Read(s) = G1 ->
         LET p == ParseCoords(s, temp)
         IN  xCoord_' = p.x /\ yCoord_' = p.y /\ UNCHANGED angle_
    [] OTHER -> UNCHANGED members

-----------------------------------------------------------------------------
(* The lines of the host.  M and G start codes and are nowhere else; no code *)
(* is longer than one that is read, as M11 or G10 would be; a line names no  *)
(* coordinate twice; a number fits in temp and has at most Places decimals. *)

IsArgument(a) ==
  /\ a.letter \in {<<>>, <<"X">>, <<"Y">>}
  /\ a.number # <<>> /\ IsNumber(a.number)
  /\ Len(a.number) <= 8 /\ Decimals(a.number) <= Places

IsLine(l) ==
  /\ l.code \in {M10, M1, G1} \/ Read(l.code) = None
  /\ \A i \in DOMAIN l.code :
       /\ l.code[i] \notin {Space, NewLine}
       /\ l.code[i] \in {"M", "G"} => i = 1
  /\ \A i \in DOMAIN l.args : IsArgument(l.args[i])
  /\ \A i, j \in DOMAIN l.args :
       l.args[i].letter = l.args[j].letter => i = j \/ l.args[i].letter = <<>>
  /\ l.code = M1 /\ l.args # <<>> => l.args[1].letter = <<>>

ASSUME LinesAssumption == \A l \in Lines : IsLine(l)

-----------------------------------------------------------------------------
(* vParserTask.                                                            *)

Init ==
  /\ sent \in [1..MaxLines -> Lines]
  /\ wire = TextOf(sent)
  /\ buffStr = <<>>
  /\ angle_ \in Garbage /\ xCoord_ \in Garbage /\ yCoord_ \in Garbage
  /\ commands = <<>>

(* Mutation: the index goes on where the packet before ended. *)
AssembledOn(buff, packet) == buff \o packet

(* The index restarts at 0 for every packet: what the packet does not       *)
(* overwrite, the terminator or the next packet cuts off.                  *)
Assembled(buff, packet) == packet

(* how many characters come after line n *)
After(n) == Len(TextOf(SubSeq(sent, n + 1, MaxLines)))

(* the number of the line that ends where only the rest is still to come    *)
LineNumber(rest) == CHOOSE n \in 1..MaxLines : Len(rest) = After(n)

(* A packet without a newline: the loop goes round again. *)
Fragment(packet) ==
  /\ ~Contains(packet, NewLine)
  /\ buffStr' = Assembled(buffStr, packet)
  /\ wire' = SubSeq(wire, Len(packet) + 1, Len(wire))
  /\ UNCHANGED <<sent, members, commands>>

(* One with a newline completes a line; what follows that in the packet is   *)
(* not looked at.  An unknown line is dropped.                             *)
Complete(packet, temp) ==
  LET newLine == SelectInSeq(packet, LAMBDA c : c = NewLine)
      line == Assembled(buffStr, SubSeq(packet, 1, newLine - 1))
  IN  /\ newLine # 0
      /\ Parse(line, temp)
      /\ buffStr' = line
      /\ wire' = SubSeq(wire, Len(packet) + 1, Len(wire))
      /\ commands' =
           IF Read(line) = None THEN commands
           ELSE Append(commands,
                  [line |-> LineNumber(SubSeq(wire, newLine + 1, Len(wire))),
                   code |-> Read(line), angle |-> angle_',
                   x |-> xCoord_', y |-> yCoord_',
                   temp |-> IF Read(line) = G1 THEN temp ELSE <<>>])
      /\ UNCHANGED sent

Next ==
  \E n \in 1..MaxPacket :
    /\ n <= Len(wire)
    /\ LET packet == SubSeq(wire, 1, n)
       IN  Fragment(packet) \/ \E temp \in Stack : Complete(packet, temp)

Spec == Init /\ [][Next]_vars /\ WF_vars(Next)

-----------------------------------------------------------------------------
(* Properties.                                                             *)

(* An assembled line is never longer than one packet: buffStr[96] holds it. *)
TypeOK ==
  /\ sent \in [1..MaxLines -> Lines]
  /\ Len(buffStr) <= MaxPacket
  /\ angle_ \in Int /\ xCoord_ \in Int /\ yCoord_ \in Int
  /\ \A i \in DOMAIN commands :
       commands[i].line \in 1..MaxLines /\ commands[i].code \in {M10, M1, G1}

(* However the characters are cut into packets, what vParserTask queues are  *)
(* lines of the host, in their order, each at most once and as the command   *)
(* it is: a line that is cut may be lost but never becomes another one.     *)
CommandsWereSent ==
  \A i \in DOMAIN commands :
    /\ commands[i].code = sent[commands[i].line].code
    /\ i > 1 => commands[i - 1].line < commands[i].line

(* the number after a letter in a line, <<>> if there is none *)
Argument(l, letter) ==
  LET i == SelectInSeq(l.args, LAMBDA a : a.letter = letter)
  IN  IF i = 0 THEN <<>> ELSE l.args[i].number

(* a character that goes on with a number *)
GoesOn(c) == Contains(Digits, c) \/ c = "." \/ c \in ExponentLetters

(* A coordinate that the line names is read as its number, whatever the     *)
(* other one left in temp: to within the last place of one with a decimal   *)
(* point, unless an e stood in temp; exactly, if the other is no longer and  *)
(* the character behind it does not go on with it.  One that the line does  *)
(* not name, and both when it is no G1, stay as the command before left them. *)
CoordinateRead(i, letter, other, value(_)) ==
  LET c == commands[i]
      l == sent[c.line]
      t == Argument(l, letter)
      v == value(c)
  IN  IF c.code # G1 \/ t = <<>>
        THEN i > 1 => v = value(commands[i - 1])
        ELSE /\ /\ Contains(t, ".")
                /\ \A k \in DOMAIN c.temp : c.temp[k] \notin ExponentLetters
                => v - Value(t) \in 0..Power(Places - Decimals(t)) - 1
             /\ /\ Len(Argument(l, other)) <= Len(t)
                /\ ~GoesOn(c.temp[Len(t) + 1])
                => v = Value(t)

CoordinatesRead ==
  \A i \in DOMAIN commands :
    /\ CoordinateRead(i, <<"X">>, <<"Y">>, LAMBDA c : c.x)
    /\ CoordinateRead(i, <<"Y">>, <<"X">>, LAMBDA c : c.y)

(* A line that comes in a packet of its own is read, whatever fragments came *)
(* before it, and an M1 with the whole part of its own number, if that has   *)
(* a digit before its point.                                               *)
WholeLineRead ==
  [][\A n \in 1..MaxLines :
       /\ Len(wire) = After(n - 1) /\ Len(wire') = After(n)
       /\ Read(sent[n].code) # None
       => LET c == Last(commands')
              args == sent[n].args
          IN  /\ Len(commands') = Len(commands) + 1 /\ c.line = n
              /\ c.code = M1 /\ args # <<>> /\ args[1].number[1] # "." =>
                   c.angle = Value(args[1].number) \div Power(Places)]_vars

=============================================================================
