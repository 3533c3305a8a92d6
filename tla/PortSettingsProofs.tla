--------------------------- MODULE PortSettingsProofs ---------------------------
(***************************************************************************)
(* What the settings of a port keep to, for any rates and any number of    *)
(* calls.  The parts of the inductive invariant:                           *)
(*   Format    the object has a frame format that Go knows;                *)
(*   InStep    the port is closed, or mode and device have that format;    *)
(*   EachCall  what each operation sent, and where it may be;              *)
(*   Names     fd, and what calls are made on, are ports that were opened; *)
(*   InTurn, Single, Rate, SetLines  what awaiting each call adds.         *)
(***************************************************************************)
EXTENDS PortSettings, TLAPS

InFlight(c) == stage[c] \in {"run", "dtr"}

Format ==
  /\ settings.dataBits \in {"7", "8"}
  /\ settings.parity \in {"none", "even", "mark", "odd", "space"}
  /\ settings.stopBits \in {"1", "1.5", "2"}

\* The mode m has the frame format of the settings.
InFormat(m) ==
  /\ m.dataBits = settings.dataBits
  /\ m.parity = GoParity[settings.parity]
  /\ m.stopBits = GoStopBits[settings.stopBits]

InStep ==
  \/ opened = None /\ mode = Closed /\ device = Closed
  \/ /\ opened # None
     /\ mode \in Modes /\ InFormat(mode) /\ device \in Modes /\ InFormat(device)

\* What call c sent: an open the settings, of which updates change the rate
\* only; and that a call in flight, but for an open, was made on some port.
SentBy(c) ==
  /\ kind[c] = "none" <=> stage[c] = "idle"
  /\ stage[c] = "dtr" => kind[c] = "set"
  /\ stage[c] # "settled" => result[c] = "none"
  /\ InFlight(c) /\ kind[c] # "open" => target[c] # None
  /\ kind[c] = "open" => /\ sent[c] \in Options
                         /\ sent[c].dataBits = settings.dataBits
                         /\ sent[c].parity = settings.parity
                         /\ sent[c].stopBits = settings.stopBits
  /\ kind[c] = "update" => sent[c] \in Options
  /\ kind[c] = "set" => sent[c] \in Lines
  /\ kind[c] \in {"open", "update"} /\ stage[c] = "run" => Decodes(sent[c].baudRate)

EachCall == \A c \in Calls : SentBy(c)

\* An open that succeeded.
Succeeded(o) ==
  o \in Calls /\ kind[o] = "open" /\ stage[o] = "settled" /\ result[o] = "ok"

Names ==
  /\ fd # None => Succeeded(fd)
  /\ opened # None => Succeeded(opened)
  /\ \A c \in Calls : target[c] # None => Succeeded(target[c])

\* Calls are made in order.
InTurn == \A c, d \in Calls : c < d /\ stage[c] = "idle" => stage[d] = "idle"

\* A program that awaits its calls has one in flight, the last it made; it sent
\* the rate of the settings.  fd names the open port, but while that is closed.
Single ==
  awaits =>
    /\ \A c \in Calls : InFlight(c) =>
         /\ \A d \in Calls : stage[d] # "idle" => d <= c
         /\ \A d \in Calls : InFlight(d) => d = c
         /\ kind[c] \in {"open", "update"} => sent[c].baudRate = settings.baudRate
         /\ kind[c] = "close" => fd = None
    /\ fd = opened \/ \E c \in Calls : Running(c, "close")

\* The line l is set as the set d asks, or was.
Done(d, l) == result[d] = "ok" \/ (l = "rts" /\ stage[d] = "dtr")

\* The sets of the open port that name line l.
Asks(l) == {c \in MadeOn("set") : sent[c][l] # "absent"}

\* LinesFollowSets, with the set in flight that is half done.
SetLines ==
  awaits /\ device # Closed =>
    \A l \in {"rts", "dtr"} :
      \E c \in {opened} \union Asks(l) :
        /\ lines[l] = Asked(c, l)
        /\ \A d \in Asks(l) : Done(d, l) => d <= c

Inv ==
  /\ TypeOK /\ Format /\ InStep /\ EachCall /\ Names /\ InTurn /\ RefusedOnlyForRate
  /\ Single /\ RateFollowsSettings /\ SetLines

-----------------------------------------------------------------------------
(* Modes *)

LEMMA NotAMode == Closed \notin Modes
<1> SUFFICES ASSUME Closed \in Modes
             PROVE  FALSE
  OBVIOUS
<1>1. DOMAIN Closed = {"baudRate"}
  BY DEF Closed
<1>2. "parity" \in DOMAIN Closed
  BY DEF Modes
<1> QED BY <1>1, <1>2

\* modeFromOpts makes a mode of options that it takes.
LEMMA ModeOf ==
  ASSUME NEW o \in Options, HasMode(o)
  PROVE  ModeFromOpts(o) \in Modes
<1>1. (IF Decoded(o.baudRate) = "zero" THEN DefaultRate ELSE o.baudRate) \in Rates
  BY SettingsAssumption DEF HasMode, Decodes, Decoded, Options, RateValues
<1>2. o.dataBits \in DataBitsValues
  BY DEF Options
<1>3. GoParity[o.parity] \in {GoParity[p] : p \in DOMAIN GoParity}
  BY DEF HasMode
<1>4. GoStopBits[o.stopBits] \in {GoStopBits[x] : x \in DOMAIN GoStopBits}
  BY DEF HasMode
<1> QED BY <1>1, <1>2, <1>3, <1>4 DEF ModeFromOpts, Modes

\* A formatted object is refused for its rate only.
LEMMA HasModeUnlessRate ==
  ASSUME NEW o, o.parity \in {"none", "even", "mark", "odd", "space"},
         o.stopBits \in {"1", "1.5", "2"}
  PROVE  HasMode(o) <=> Decodes(o.baudRate)
<1>1. o.parity \in DOMAIN GoParity
  BY DEF GoParity
<1>2. o.stopBits \in DOMAIN GoStopBits
  BY DEF GoStopBits
<1> QED BY <1>1, <1>2 DEF HasMode

LEMMA NewModeOf ==
  ASSUME NEW c \in Calls, mode \in Modes, InFormat(mode), sent[c] \in Options,
         Decodes(sent[c].baudRate)
  PROVE  NewMode(c) \in Modes /\ InFormat(NewMode(c))
<1>1. CASE Decoded(sent[c].baudRate) = "zero"
  BY <1>1 DEF NewMode
<1>2. CASE Decoded(sent[c].baudRate) # "zero"
  <2>1. sent[c].baudRate \in Rates
    BY <1>2, SettingsAssumption DEF Decodes, Decoded, Options, RateValues
  <2>2. NewMode(c) = [mode EXCEPT !.baudRate = sent[c].baudRate]
    BY <1>2 DEF NewMode
  <2> HIDE DEF NewMode
  <2> QED BY <2>1, <2>2 DEF Modes, InFormat
<1> QED BY <1>1, <1>2

-----------------------------------------------------------------------------
(* Steps *)

LEMMA StepIsOfCall ==
  ASSUME [Next]_vars
  PROVE  UNCHANGED vars \/ \E c \in Calls : Start(c) \/ Goroutine(c)
BY DEF Next, Finished

LEMMA Others ==
  ASSUME TypeOK, NEW c \in Calls, Start(c) \/ Goroutine(c), NEW d \in Calls, d # c
  PROVE  /\ kind'[d] = kind[d] /\ stage'[d] = stage[d] /\ sent'[d] = sent[d]
         /\ target'[d] = target[d] /\ result'[d] = result[d]
<1>1. CASE Start(c)
  BY <1>1 DEF TypeOK, Start, CallOpen, CallClose, CallUpdate, CallSet, Begin
<1>2. CASE Goroutine(c)
  BY <1>2 DEF TypeOK, Goroutine, Open, Update, SetRTS, SetDTR, Close, Settle
<1> QED BY <1>1, <1>2

\* Only the rate of the settings ever changes.
LEMMA SameFormat ==
  ASSUME TypeOK, NEW c \in Calls, Start(c) \/ Goroutine(c)
  PROVE  /\ settings' \in Options
         /\ settings'.dataBits = settings.dataBits /\ settings'.parity = settings.parity
         /\ settings'.stopBits = settings.stopBits
         /\ settings' = settings \/ \E v \in RateValues : CallUpdate(c, v)
         /\ awaits' = awaits
<1>1. ASSUME NEW v \in RateValues, CallUpdate(c, v)
      PROVE  /\ settings' \in Options
             /\ settings'.dataBits = settings.dataBits /\ settings'.parity = settings.parity
             /\ settings'.stopBits = settings.stopBits
  BY <1>1 DEF CallUpdate, TypeOK, Options
<1>2. settings' = settings \/ \E v \in RateValues : CallUpdate(c, v)
  BY DEF Start, CallOpen, CallClose, CallSet, Goroutine, Open, Update, SetRTS, SetDTR, Close, Settle
<1>3. awaits' = awaits
  BY DEF Start, CallOpen, CallUpdate, CallClose, CallSet, Begin, Goroutine, Open, Update, SetRTS,
         SetDTR, Close, Settle
<1> QED BY <1>1, <1>2, <1>3 DEF TypeOK

\* Making a call leaves the port alone and takes down fd.
LEMMA BegunOn ==
  ASSUME TypeOK, NEW c \in Calls, Start(c)
  PROVE  /\ stage[c] = "idle" /\ portVars' = portVars /\ target'[c] = fd
         /\ \A d \in Calls : d < c => stage[d] # "idle"
         /\ awaits => Awaited
         /\ stage'[c] \in {"run", "settled"} /\ (stage'[c] = "run" <=> result'[c] = "none")
BY DEF Start, CallOpen, CallClose, CallUpdate, CallSet, Begin, TypeOK

\* What a call sends, and what becomes of it at once.
LEMMA Begun ==
  ASSUME TypeOK, Format, NEW c \in Calls, Start(c)
  PROVE  \/ /\ kind'[c] = "open" /\ sent'[c] = settings /\ settings' = settings /\ fd' = fd
            /\ result'[c] = IF Decodes(settings.baudRate) THEN "none" ELSE "options"
         \/ /\ kind'[c] = "close" /\ sent'[c] = NotSent /\ settings' = settings /\ fd' = None
            /\ result'[c] = IF fd = None THEN "error" ELSE "none"
         \/ /\ kind'[c] = "set" /\ sent'[c] \in Lines /\ settings' = settings /\ fd' = fd
            /\ result'[c] = IF fd = None THEN "error" ELSE "none"
         \/ /\ kind'[c] = "update" /\ sent'[c] = settings' /\ settings' \in Options /\ fd' = fd
            /\ result'[c] = IF fd = None THEN "error"
                            ELSE IF Decodes(settings'.baudRate) THEN "none" ELSE "options"
<1>1. CASE CallOpen(c)
  <2>1. HasMode(settings) <=> Decodes(settings.baudRate)
    BY HasModeUnlessRate DEF Format
  <2> QED BY <1>1, <2>1 DEF CallOpen, Begin, TypeOK
<1>2. CASE CallClose(c)
  BY <1>2 DEF CallClose, Begin, TypeOK
<1>3. ASSUME NEW v \in RateValues, CallUpdate(c, v)
      PROVE  /\ kind'[c] = "update" /\ sent'[c] = settings' /\ settings' \in Options /\ fd' = fd
             /\ result'[c] = IF fd = None THEN "error"
                             ELSE IF Decodes(settings'.baudRate) THEN "none" ELSE "options"
  <2>1. settings' \in Options /\ settings'.baudRate = v
    BY <1>3 DEF CallUpdate, TypeOK, Options
  <2> QED BY <1>3, <2>1 DEF CallUpdate, Begin, TypeOK
<1>4. ASSUME NEW new \in Lines, CallSet(c, new)
      PROVE  /\ kind'[c] = "set" /\ sent'[c] \in Lines /\ settings' = settings /\ fd' = fd
             /\ result'[c] = IF fd = None THEN "error" ELSE "none"
  BY <1>4 DEF CallSet, Begin, TypeOK
<1> QED BY <1>1, <1>2, <1>3, <1>4 DEF Start

\* Where a goroutine is with its call, and what it does to the port.
LEMMA Worked ==
  ASSUME TypeOK, EachCall, NEW c \in Calls, Goroutine(c)
  PROVE  /\ InFlight(c) /\ UNCHANGED <<awaits, settings, kind, sent, target>>
         /\ \/ stage'[c] = "settled"
            \/ SetRTS(c) /\ stage'[c] = "dtr" /\ result' = result
         /\ result'[c] # "options"
         /\ \/ /\ kind[c] = "open" /\ result'[c] = "ok" /\ stage'[c] = "settled"
               /\ opened = None /\ opened' = c /\ fd' = c
               /\ device' = ModeFromOpts(sent[c]) /\ mode' = device'
               /\ lines' = [rts |-> "on", dtr |-> "on"]
            \/ kind[c] \in {"open", "update"} /\ result'[c] = "error" /\ UNCHANGED <<fd, portVars>>
            \/ /\ kind[c] = "update" /\ OnPort(c) /\ mode' = NewMode(c)
               /\ \/ result'[c] = "ok" /\ device' = NewMode(c)
                  \/ result'[c] = "error" /\ device' = device
               /\ UNCHANGED <<fd, opened, lines>>
            \/ (SetRTS(c) \/ SetDTR(c)) /\ kind[c] = "set" /\ UNCHANGED <<fd, opened, mode, device>>
            \/ /\ kind[c] = "close" /\ opened' = None /\ mode' = Closed /\ device' = Closed
               /\ UNCHANGED <<fd, lines>>
<1>1. SentBy(c)
  BY DEF EachCall
<1> USE <1>1 DEF TypeOK, InFlight, Running, Settle, portVars, SentBy
<1>2. CASE Open(c)
  BY <1>2 DEF Open
<1>3. CASE Update(c)
  BY <1>3 DEF Update
<1>4. CASE SetRTS(c)
  BY <1>4 DEF SetRTS
<1>5. CASE SetDTR(c)
  BY <1>5 DEF SetDTR
<1>6. CASE Close(c)
  BY <1>6 DEF Close
<1> QED BY <1>2, <1>3, <1>4, <1>5, <1>6 DEF Goroutine

LEMMA InStepStep ==
  ASSUME Inv, NEW c \in Calls, Start(c) \/ Goroutine(c)
  PROVE  InStep'
<1> USE DEF Inv
<1>1. \A m : InFormat(m)' <=> InFormat(m)
  BY SameFormat DEF InFormat
<1>2. CASE opened' = opened /\ mode' = mode /\ device' = device
  BY <1>1, <1>2 DEF InStep
<1>3. CASE Start(c)
  BY <1>2, <1>3, BegunOn DEF portVars
<1>4. CASE Goroutine(c)
  <2>1. SentBy(c) /\ InFlight(c)
    BY <1>4, Worked DEF EachCall
  <2>2. CASE kind[c] = "open" /\ opened' = c /\ device' = ModeFromOpts(sent[c]) /\ mode' = device'
    <3>1. Decodes(sent[c].baudRate)
      BY <2>1, <2>2 DEF SentBy, InFlight
    <3>2. HasMode(sent[c])
      BY <2>1, <2>2, <3>1, HasModeUnlessRate DEF SentBy, Format
    <3>3. ModeFromOpts(sent[c]) \in Modes
      BY <2>1, <2>2, <3>2, ModeOf DEF SentBy
    <3>4. InFormat(ModeFromOpts(sent[c]))
      BY <2>1, <2>2 DEF SentBy, InFormat, ModeFromOpts
    <3>5. c # None
      BY SettingsAssumption DEF Calls, None
    <3> QED BY <1>1, <2>2, <3>3, <3>4, <3>5 DEF InStep
  <2>3. CASE kind[c] = "update" /\ OnPort(c) /\ mode' = NewMode(c) /\ opened' = opened
             /\ device' \in {device, NewMode(c)}
    <3>1. opened # None /\ stage[c] = "run"
      BY <2>1, <2>3 DEF SentBy, InFlight, OnPort
    <3>2. NewMode(c) \in Modes /\ InFormat(NewMode(c))
      BY <2>1, <2>3, <3>1, NewModeOf DEF SentBy, InStep
    <3> QED BY <1>1, <2>3, <3>1, <3>2 DEF InStep
  <2>4. CASE opened' = None /\ mode' = Closed /\ device' = Closed
    BY <2>4 DEF InStep
  <2>5. \/ kind[c] = "open" /\ opened' = c /\ device' = ModeFromOpts(sent[c]) /\ mode' = device'
        \/ kind[c] = "update" /\ OnPort(c) /\ mode' = NewMode(c) /\ opened' = opened
           /\ device' \in {device, NewMode(c)}
        \/ opened' = None /\ mode' = Closed /\ device' = Closed
        \/ opened' = opened /\ mode' = mode /\ device' = device
    <3> HIDE DEF Inv
    <3>1. TypeOK /\ EachCall
      BY DEF Inv
    <3> QED BY <1>4, <3>1, Worked DEF portVars
  <2> QED BY <1>2, <2>2, <2>3, <2>4, <2>5
<1> QED BY <1>3, <1>4

\* The port is open or closed in all its parts.
LEMMA OpenOrNot ==
  ASSUME InStep
  PROVE  opened = None <=> device = Closed
BY NotAMode DEF InStep

LEMMA TypeStep ==
  ASSUME Inv, NEW c \in Calls, Start(c) \/ Goroutine(c)
  PROVE  TypeOK'
<1> USE DEF Inv
<1>1. awaits' \in BOOLEAN /\ settings' \in Options
  BY SameFormat DEF TypeOK
<1>2. mode' \in Modes \union {Closed} /\ device' \in Modes \union {Closed}
  BY InStepStep DEF InStep
<1>3. /\ kind' \in [Calls -> {"none", "open", "update", "set", "close"}]
      /\ stage' \in [Calls -> {"idle", "run", "dtr", "settled"}]
      /\ result' \in [Calls -> {"none", "ok", "options", "error"}]
  <2>1. CASE Start(c)
    BY <2>1, <1>1 DEF TypeOK, Start, CallOpen, CallClose, CallUpdate, CallSet, Begin
  <2>2. CASE Goroutine(c)
    BY <2>2 DEF TypeOK, Goroutine, Open, Update, SetRTS, SetDTR, Close, Settle
  <2> QED BY <2>1, <2>2
<1>4. /\ sent' \in [Calls -> Options \union Lines]
      /\ target' \in [Calls -> Calls \union {None}]
      /\ fd' \in Calls \union {None} /\ opened' \in Calls \union {None}
  <2>1. CASE Start(c)
    <3>1. NotSent \in Lines
      BY DEF NotSent, Lines, LineValues
    <3> QED
      BY <1>1, <2>1, <3>1
      DEF TypeOK, Start, CallOpen, CallClose, CallUpdate, CallSet, Begin, portVars
  <2>2. CASE Goroutine(c)
    BY <2>2, Worked DEF TypeOK, portVars
  <2> QED BY <2>1, <2>2
<1>5. lines' \in [rts : {"on", "off"}, dtr : {"on", "off"}]
  <2>1. CASE lines' = lines
    BY <2>1 DEF TypeOK
  <2>2. CASE lines' = [rts |-> "on", dtr |-> "on"]
    BY <2>2
  <2>3. CASE SetRTS(c) \/ SetDTR(c)
    <3>1. sent[c] \in Lines
      BY <2>3 DEF SetRTS, SetDTR, Running, EachCall, SentBy
    <3>2. Line(sent[c].rts, lines.rts) \in {"on", "off"} /\ Line(sent[c].dtr, lines.dtr) \in {"on", "off"}
      BY <3>1 DEF Lines, LineValues, Line, TypeOK
    <3> QED BY <2>3, <3>2 DEF SetRTS, SetDTR, TypeOK
  <2> QED
    BY <2>1, <2>2, <2>3, BegunOn, Worked DEF portVars
<1> QED BY <1>1, <1>2, <1>3, <1>4, <1>5 DEF TypeOK

LEMMA EachStep ==
  ASSUME Inv, NEW c \in Calls, Start(c) \/ Goroutine(c)
  PROVE  EachCall'
<1> USE DEF Inv
<1> SUFFICES ASSUME NEW d \in Calls
             PROVE  SentBy(d)'
  BY DEF EachCall
<1>1. SentBy(d)
  BY DEF EachCall
<1>2. CASE d # c
  BY <1>1, <1>2, Others, SameFormat DEF SentBy, InFlight
<1>3. CASE d = c /\ Start(c)
  BY <1>1, <1>3, Begun, BegunOn DEF SentBy, InFlight, TypeOK
<1>4. CASE d = c /\ Goroutine(c)
  BY <1>1, <1>4, Worked DEF SentBy, InFlight, SetRTS, Running
<1> QED BY <1>2, <1>3, <1>4

LEMMA NamesStep ==
  ASSUME Inv, NEW c \in Calls, Start(c) \/ Goroutine(c)
  PROVE  Names'
<1> USE DEF Inv
<1>1. ASSUME NEW o, Succeeded(o)
      PROVE  Succeeded(o)'
  <2>1. o # c
    BY <1>1, BegunOn, Worked DEF Succeeded, InFlight
  <2> QED BY <1>1, <2>1, Others DEF Succeeded
<1>2. CASE Start(c)
  <2>1. opened' = opened /\ fd' \in {fd, None} /\ target'[c] = fd
    BY <1>2, Begun, BegunOn DEF portVars
  <2> QED BY <1>1, <2>1, Others DEF Names
<1>3. CASE Goroutine(c)
  <2>1. target' = target
    BY <1>3, Worked
  <2>2. \/ opened' = c /\ fd' = c /\ kind[c] = "open" /\ result'[c] = "ok" /\ stage'[c] = "settled"
        \/ opened' \in {opened, None} /\ fd' = fd
    BY <1>3, Worked DEF portVars
  <2>3. CASE opened' = c /\ fd' = c /\ kind[c] = "open" /\ result'[c] = "ok" /\ stage'[c] = "settled"
    <3>1. Succeeded(c)'
      BY <1>3, <2>3, Worked DEF Succeeded
    <3> QED BY <1>1, <2>1, <2>3, <3>1 DEF Names
  <2>4. CASE opened' \in {opened, None} /\ fd' = fd
    BY <1>1, <2>1, <2>4 DEF Names
  <2> QED BY <2>2, <2>3, <2>4
<1> QED BY <1>2, <1>3

LEMMA InTurnStep ==
  ASSUME Inv, NEW c \in Calls, Start(c) \/ Goroutine(c)
  PROVE  InTurn'
<1> USE DEF Inv
<1> SUFFICES ASSUME NEW a \in Calls, NEW d \in Calls, a < d, stage'[a] = "idle"
             PROVE  stage'[d] = "idle"
  BY DEF InTurn
<1>1. stage'[c] # "idle"
  BY BegunOn, Worked
<1>2. stage[a] = "idle" /\ stage[d] = "idle"
  BY <1>1, Others DEF InTurn
<1>3. d # c
  BY <1>2, BegunOn, Worked DEF InFlight
<1> QED BY <1>2, <1>3, Others

LEMMA RefusedStep ==
  ASSUME Inv, NEW c \in Calls, Start(c) \/ Goroutine(c)
  PROVE  RefusedOnlyForRate'
<1> USE DEF Inv
<1> SUFFICES ASSUME NEW d \in Calls, result'[d] = "options"
             PROVE  ~Decodes(sent'[d].baudRate)
  BY DEF RefusedOnlyForRate, Decodes
<1>1. CASE d # c
  BY <1>1, Others DEF RefusedOnlyForRate
<1>2. CASE d = c /\ Start(c)
  BY <1>2, Begun
<1>3. CASE d = c /\ Goroutine(c)
  BY <1>3, Worked
<1> QED BY <1>1, <1>2, <1>3

LEMMA SingleStep ==
  ASSUME Inv, NEW c \in Calls, Start(c) \/ Goroutine(c)
  PROVE  Single'
<1> USE DEF Inv
<1> SUFFICES ASSUME awaits
             PROVE  /\ \A e \in Calls : InFlight(e)' =>
                         /\ \A d \in Calls : stage'[d] # "idle" => d <= e
                         /\ \A d \in Calls : InFlight(d)' => d = e
                         /\ kind'[e] \in {"open", "update"} => sent'[e].baudRate = settings'.baudRate
                         /\ kind'[e] = "close" => fd' = None
                    /\ fd' = opened' \/ \E e \in Calls : Running(e, "close")'
  BY SameFormat DEF Single
<1>1. CASE Start(c)
  <2>1. \A d \in Calls : ~InFlight(d)
    BY <1>1, BegunOn DEF Awaited, InFlight
  <2>2. \A d \in Calls : InFlight(d)' => d = c
    BY <2>1, Others DEF InFlight
  <2>3. ASSUME NEW d \in Calls, stage'[d] # "idle"
        PROVE  d <= c
    <3>1. stage[c] = "idle"
      BY <1>1, BegunOn
    <3>2. d # c => ~(c < d)
      BY <2>3, <3>1, Others DEF InTurn
    <3> QED BY <3>2, SettingsAssumption DEF Calls
  <2>4. kind'[c] \in {"open", "update"} => sent'[c].baudRate = settings'.baudRate
    BY <1>1, Begun
  <2>5. kind'[c] = "close" => fd' = None
    BY <1>1, Begun
  <2>6. fd = opened
    BY <2>1 DEF Single, Running, InFlight
  <2>7. fd' = opened' \/ Running(c, "close")'
    BY <1>1, <2>6, Begun, BegunOn DEF Running, portVars
  <2> QED BY <2>2, <2>3, <2>4, <2>5, <2>7
<1>2. CASE Goroutine(c)
  <2>1. InFlight(c) /\ kind' = kind /\ sent' = sent /\ settings' = settings /\ stage'[c] # "idle"
    BY <1>2, Worked
  <2>2. \A d \in Calls : InFlight(d)' => d = c
    BY <2>1, Others DEF InFlight, Single
  <2>3. \A d \in Calls : stage'[d] # "idle" => d <= c
    BY <2>1, Others DEF Single, InFlight
  <2>4. kind[c] \in {"open", "update"} => sent[c].baudRate = settings.baudRate
    BY <2>1 DEF Single
  <2>5. kind[c] # "close" => fd = opened
    BY <2>1 DEF Single, Running, InFlight
  <2>6. kind[c] = "close" => fd = None
    BY <2>1 DEF Single
  <2>7. fd' = opened' /\ (kind[c] = "close" => fd' = None)
    <3>1. \/ kind[c] = "open" /\ fd' = c /\ opened' = c
          \/ kind[c] # "close" /\ fd' = fd /\ opened' = opened
          \/ kind[c] = "close" /\ fd' = fd /\ opened' = None
      BY <1>2, Worked DEF portVars
    <3> QED BY <2>5, <2>6, <3>1
  <2> QED BY <2>1, <2>2, <2>3, <2>4, <2>7
<1> QED BY <1>1, <1>2

-----------------------------------------------------------------------------
(* The calls made on the open port, by a program that awaits *)

\* A call that is made is made on the open port, and the last.
LEMMA MadeStart ==
  ASSUME Inv, awaits, NEW c \in Calls, Start(c), NEW k \in {"update", "set"}
  PROVE  /\ MadeOn(k)' = IF kind'[c] = k THEN MadeOn(k) \union {c} ELSE MadeOn(k)
         /\ c \notin MadeOn(k)
         /\ \A d \in Calls : stage[d] # "idle" => d <= c
<1> USE DEF Inv
<1>1. fd = opened
  BY BegunOn DEF Single, Running, Awaited
<1>2. opened' = opened /\ target'[c] = opened /\ stage[c] = "idle"
  BY <1>1, BegunOn DEF portVars
<1>3. kind[c] = "none"
  BY <1>2 DEF EachCall, SentBy
<1>4. \A d \in Calls : d # c => kind'[d] = kind[d] /\ target'[d] = target[d]
  BY Others
<1>5. ASSUME NEW d \in Calls, stage[d] # "idle"
      PROVE  d <= c
  BY <1>2, <1>5, SettingsAssumption DEF InTurn, Calls
<1> QED BY <1>2, <1>3, <1>4, <1>5 DEF MadeOn

\* A goroutine leaves them as they are, or its port is a new one.
LEMMA MadeWork ==
  ASSUME Inv, NEW c \in Calls, Goroutine(c), NEW k \in {"update", "set"}
  PROVE  /\ opened' = opened => MadeOn(k)' = MadeOn(k)
         /\ opened' = c => MadeOn(k)' = {}
<1> USE DEF Inv
<1>1. kind' = kind /\ target' = target /\ InFlight(c)
  BY Worked
<1>2. \A d \in Calls : target[d] # c
  BY <1>1, SettingsAssumption DEF Names, Succeeded, InFlight, Calls, None
<1> QED BY <1>1, <1>2 DEF MadeOn

\* Of calls of which one is at least as great as all, it is the only last.
LEMMA OnlyLast ==
  ASSUME NEW S \in SUBSET Calls, NEW c \in S, \A d \in S : d <= c
  PROVE  \A d \in Calls : Last(d, S) <=> d = c
BY SettingsAssumption DEF Last, Calls

LEMMA RateStep ==
  ASSUME Inv, NEW c \in Calls, Start(c) \/ Goroutine(c)
  PROVE  RateFollowsSettings'
<1> USE DEF Inv
<1> DEFINE made == {opened} \union MadeOn("update")
           good == {d \in made : result[d] = "ok"}
           Newest == \A d \in made : Last(d, made) => settings.baudRate = sent[d].baudRate
           Applied == \A d \in good : Last(d, good) /\ sent[d].baudRate \in Rates =>
                        device.baudRate = sent[d].baudRate
<1> SUFFICES ASSUME awaits, device' # Closed
             PROVE  Newest' /\ Applied'
  BY SameFormat DEF RateFollowsSettings
<1>1. opened' # None /\ (device # Closed => opened # None)
  BY InStepStep, OpenOrNot DEF InStep
<1>2. device # Closed => Newest /\ Applied
  BY DEF RateFollowsSettings
<1>3. device # Closed => made \subseteq Calls /\ \A d \in made : stage[d] # "idle"
  BY <1>1 DEF MadeOn, Names, Succeeded, EachCall, SentBy
<1>4. CASE Start(c)
  <2>1. /\ opened' = opened /\ device' = device /\ stage[c] = "idle" /\ result'[c] # "ok"
    BY <1>4, Begun, BegunOn DEF portVars
  <2>2. \A d \in made : d # c /\ sent'[d] = sent[d] /\ result'[d] = result[d]
    BY <1>3, <2>1, Others
  <2>3. good' = good
    BY <1>4, <2>1, <2>2, MadeStart
  <2>4. Applied'
    BY <1>2, <2>1, <2>2, <2>3 DEF Last
  <2>5. CASE kind'[c] = "update"
    <3>1. made' = made \union {c}
      BY <1>4, <2>1, <2>5, MadeStart
    <3>2. made' \in SUBSET Calls /\ c \in made' /\ \A d \in made' : d <= c
      BY <1>3, <1>4, <2>1, <3>1, MadeStart, SettingsAssumption DEF Calls
    <3>3. settings'.baudRate = sent'[c].baudRate
      BY <1>4, <2>5, Begun
    <3>4. Newest'
      <4> HIDE DEF made
      <4>1. \A d \in made' : Last(d, made') => d = c
        BY <3>2, OnlyLast
      <4> QED BY <3>3, <4>1 DEF Last
    <3> QED BY <2>4, <3>4
  <2>6. CASE kind'[c] # "update"
    <3>1. made' = made /\ settings' = settings
      BY <1>4, <2>1, <2>6, Begun, MadeStart
    <3> QED BY <1>2, <2>1, <2>2, <2>4, <3>1 DEF Last
  <2> QED BY <2>5, <2>6
<1>5. CASE Goroutine(c)
  <2>1. InFlight(c) /\ kind' = kind /\ settings' = settings /\ sent' = sent /\ SentBy(c)
    BY <1>5, Worked DEF EachCall
  <2>2. ASSUME opened' = opened, device' = device, c \in made => result'[c] # "ok"
        PROVE  Newest' /\ Applied'
    <3>1. made' = made
      BY <1>5, <2>2, MadeWork
    <3>2. \A d \in made : result'[d] = "ok" <=> result[d] = "ok"
      BY <1>3, <2>1, <2>2, Others DEF SentBy, InFlight
    <3>3. good' = good
      BY <3>1, <3>2
    <3> QED BY <1>2, <2>1, <2>2, <3>1, <3>3 DEF Last
  <2>3. CASE opened' = c /\ device' = ModeFromOpts(sent[c]) /\ kind[c] = "open"
    <3>1. made' = {c} /\ good' \subseteq {c}
      BY <1>5, <2>3, MadeWork
    <3>2. sent[c].baudRate = settings.baudRate
      BY <2>1, <2>3 DEF Single
    <3>3. sent[c].baudRate \in Rates => device'.baudRate = sent[c].baudRate
      BY <2>3, SettingsAssumption DEF ModeFromOpts, Decoded
    <3> QED BY <2>1, <3>1, <3>2, <3>3
  <2>4. CASE kind[c] = "update" /\ OnPort(c) /\ opened' = opened /\ result'[c] = "ok"
             /\ device' = NewMode(c)
    <3>1. made' = made /\ c \in made /\ mode \in Modes
      BY <1>1, <1>5, <2>4, MadeWork DEF MadeOn, OnPort, InStep
    <3>2. made \subseteq Calls /\ \A d \in made : d <= c
      BY <1>1, <1>3, <2>1, <2>4, OpenOrNot DEF Single
    <3>3. good' \in SUBSET Calls /\ c \in good' /\ \A d \in good' : d <= c
      BY <2>4, <3>1, <3>2
    <3>4. \A d \in good' : Last(d, good') => d = c
      <4> HIDE DEF good
      <4> QED BY <3>3, OnlyLast
    <3>5. sent[c].baudRate \in Rates => device'.baudRate = sent[c].baudRate
      BY <2>4, <3>1, SettingsAssumption DEF NewMode, Decoded, Modes
    <3>6. Newest'
      BY <1>1, <1>2, <2>1, <2>4, <3>1, OpenOrNot DEF Last
    <3> QED BY <2>1, <3>4, <3>5, <3>6
  <2>5. \/ opened' = c /\ device' = ModeFromOpts(sent[c]) /\ kind[c] = "open"
        \/ kind[c] = "update" /\ OnPort(c) /\ opened' = opened /\ result'[c] = "ok"
           /\ device' = NewMode(c)
        \/ /\ opened' = opened /\ device' = device
           /\ kind[c] = "set" \/ result'[c] = "error"
    BY <1>5, Worked DEF portVars
  <2>6. c \in made /\ kind[c] = "set" => FALSE
    BY <2>1, SettingsAssumption DEF MadeOn, Names, Succeeded, InFlight, Calls, None
  <2> QED BY <2>2, <2>3, <2>4, <2>5, <2>6
<1> QED BY <1>4, <1>5

LEMMA LinesStep ==
  ASSUME Inv, NEW c \in Calls, Start(c) \/ Goroutine(c)
  PROVE  SetLines'
<1> USE DEF Inv
<1> DEFINE Good(l) == \E e \in {opened} \union Asks(l) :
                        /\ lines[l] = Asked(e, l)
                        /\ \A d \in Asks(l) : Done(d, l) => d <= e
<1> SUFFICES ASSUME awaits, device' # Closed, NEW l \in {"rts", "dtr"}
             PROVE  Good(l)'
  BY SameFormat DEF SetLines
<1>1. opened' # None /\ (device # Closed => opened # None /\ Good(l))
  BY InStepStep, OpenOrNot DEF InStep, SetLines
<1>2. Asks(l) \subseteq Calls /\ \A d \in Asks(l) : kind[d] = "set" /\ stage[d] # "idle"
  BY DEF Asks, MadeOn, EachCall, SentBy
\* Nothing becomes of a line, and no other call is done with it.
<1>3. ASSUME opened' = opened, device # Closed, Asks(l) \subseteq Asks(l)', lines'[l] = lines[l],
             \A d \in Asks(l) : sent'[d] = sent[d],
             \A d \in Asks(l)' : Done(d, l)' => d \in Asks(l) /\ Done(d, l)
      PROVE  Good(l)'
  <2>1. PICK e \in {opened} \union Asks(l) :
          lines[l] = Asked(e, l) /\ \A d \in Asks(l) : Done(d, l) => d <= e
    BY <1>1, <1>3
  <2>2. Asked(e, l)' = Asked(e, l)
    BY <1>3, <2>1 DEF Asked
  <2> QED BY <1>3, <2>1, <2>2
<1>4. CASE Start(c)
  <2>1. /\ opened' = opened /\ device' = device /\ lines' = lines /\ stage[c] = "idle"
        /\ stage'[c] \in {"run", "settled"} /\ result'[c] # "ok"
    BY <1>4, Begun, BegunOn DEF portVars
  <2>2. ~Done(c, l)'
    BY <2>1 DEF Done
  <2>3. \A d \in Calls : d # c => (d \in Asks(l)' <=> d \in Asks(l)) /\ (Done(d, l)' <=> Done(d, l))
    BY <2>1, Others DEF Asks, MadeOn, Done
  <2>4. \A d \in Asks(l) : d # c
    BY <1>2, <2>1
  <2>5. Asks(l)' \subseteq Calls
    BY DEF Asks, MadeOn
  <2> QED BY <1>2, <1>3, <2>1, <2>2, <2>3, <2>4, <2>5, Others
<1>5. CASE Goroutine(c)
  <2>1. InFlight(c) /\ kind' = kind /\ sent' = sent /\ SentBy(c)
    BY <1>5, Worked DEF EachCall
  <2>2. \A d \in Calls : d # c => (Done(d, l)' <=> Done(d, l))
    BY Others DEF Done
  <2>3. opened' = opened => Asks(l)' = Asks(l)
    BY <1>5, <2>1, MadeWork DEF Asks
  <2>4. ASSUME opened' = opened, device # Closed, lines'[l] = lines[l],
               c \in Asks(l) /\ Done(c, l)' => Done(c, l)
        PROVE  Good(l)'
    BY <1>2, <1>3, <2>1, <2>2, <2>3, <2>4
  <2>5. CASE opened' = c /\ lines' = [rts |-> "on", dtr |-> "on"]
    <3>1. Asks(l)' = {}
      BY <1>5, <2>5, MadeWork DEF Asks
    <3> QED BY <2>5, <3>1 DEF Asked
  <2>6. CASE kind[c] # "set" /\ opened' = opened /\ lines' = lines
    <3>1. c \notin Asks(l) /\ device # Closed
      BY <1>1, <1>2, <2>6, OpenOrNot
    <3> QED BY <2>4, <2>6, <3>1
  <2>7. CASE (SetRTS(c) \/ SetDTR(c)) /\ kind[c] = "set" /\ opened' = opened
    <3>1. device # Closed /\ opened # None
      BY <1>1, <2>7, OpenOrNot
    <3>2. sent[c] \in Lines /\ target[c] # None /\ opened # c
      BY <2>1, <2>7, <3>1 DEF SentBy, Names, Succeeded
    \* The line is set as asked: nobody has set it later.
    <3>3. ASSUME lines'[l] = sent[c][l], sent[c][l] # "absent", OnPort(c)
          PROVE  Good(l)'
      <4>1. c \in Asks(l)'
        BY <2>1, <2>3, <2>7, <3>3 DEF Asks, MadeOn, OnPort
      <4>2. \A d \in Asks(l)' : d <= c
        BY <1>2, <2>1, <2>3, <2>7 DEF Single
      <4>3. lines'[l] = Asked(c, l)'
        BY <2>1, <2>7, <3>2, <3>3 DEF Asked
      <4> QED BY <4>1, <4>2, <4>3
    <3>4. sent[c][l] = "absent" => c \notin Asks(l)
      BY DEF Asks
    <3>5. CASE SetRTS(c)
      <4>1. CASE l = "rts"
        BY <2>4, <2>7, <3>1, <3>3, <3>4, <3>5, <4>1
        DEF SetRTS, Settable, Line, Settle, Done, TypeOK
      <4>2. CASE l = "dtr"
        BY <2>4, <2>7, <3>1, <3>5, <4>2 DEF SetRTS, Settle, Done, TypeOK
      <4> QED BY <4>1, <4>2
    <3>6. CASE SetDTR(c)
      <4>1. CASE l = "rts"
        BY <2>4, <2>7, <3>1, <3>6, <4>1 DEF SetDTR, Settle, Done, TypeOK
      <4>2. CASE l = "dtr"
        BY <2>4, <2>7, <3>1, <3>3, <3>4, <3>6, <4>2
        DEF SetDTR, Settable, Line, Settle, Done, TypeOK
      <4> QED BY <4>1, <4>2
    <3> QED BY <2>7, <3>5, <3>6
  <2>8. \/ opened' = c /\ lines' = [rts |-> "on", dtr |-> "on"]
        \/ kind[c] # "set" /\ opened' = opened /\ lines' = lines
        \/ (SetRTS(c) \/ SetDTR(c)) /\ kind[c] = "set" /\ opened' = opened
    BY <1>5, Worked DEF portVars
  <2> QED BY <2>5, <2>6, <2>7, <2>8
<1> QED BY <1>4, <1>5

-----------------------------------------------------------------------------
(* The invariant *)

LEMMA InvStart == Init => Inv
<1> SUFFICES ASSUME Init
             PROVE  Inv
  OBVIOUS
<1>1. settings \in Options /\ Accepted(settings)
  BY ProgramAssumption DEF Init
<1>2. NotSent \in Lines
  BY DEF NotSent, Lines, LineValues
<1>3. TypeOK
  BY <1>1, <1>2 DEF Init, TypeOK
<1>4. Format /\ InStep
  BY <1>1 DEF Init, Accepted, Format, InStep
<1>5. EachCall /\ Names /\ InTurn /\ RefusedOnlyForRate
  BY DEF Init, EachCall, SentBy, Names, InFlight, InTurn, RefusedOnlyForRate
<1>6. Single /\ RateFollowsSettings /\ SetLines
  BY DEF Init, Single, InFlight, RateFollowsSettings, SetLines
<1> QED BY <1>3, <1>4, <1>5, <1>6 DEF Inv

LEMMA InvStep == Inv /\ [Next]_vars => Inv'
<1> SUFFICES ASSUME Inv, [Next]_vars
             PROVE  Inv'
  OBVIOUS
<1>1. CASE UNCHANGED vars
  <2> USE <1>1 DEF Inv, vars, callVars, portVars
  <2>1. TypeOK' /\ Format' /\ InStep' /\ EachCall'
    BY DEF TypeOK, Format, InStep, InFormat, EachCall, SentBy, InFlight
  <2>2. Names' /\ InTurn' /\ RefusedOnlyForRate' /\ Single'
    BY DEF Names, Succeeded, InFlight, InTurn, RefusedOnlyForRate, Single, Running
  <2>3. RateFollowsSettings' /\ SetLines'
    BY DEF RateFollowsSettings, SetLines, MadeOn, Asks, Asked, Done, Last
  <2> QED BY <2>1, <2>2, <2>3
<1>2. ASSUME NEW c \in Calls, Start(c) \/ Goroutine(c)
      PROVE  Inv'
  <2>1. Format'
    BY <1>2, SameFormat DEF Inv, Format
  <2> QED
    BY <1>2, <2>1, TypeStep, InStepStep, EachStep, NamesStep, InTurnStep, RefusedStep,
       SingleStep, RateStep, LinesStep DEF Inv
<1> QED BY <1>1, <1>2, StepIsOfCall

LEMMA Always == Spec => []Inv
BY InvStart, InvStep, PTL DEF Spec

-----------------------------------------------------------------------------
(* Theorems *)

\* The mode and the device are closed or set to a mode that modeFromOpts can
\* make; what a call sent is what its operation sends.
THEOREM TypeCorrect == Spec => []TypeOK
<1>1. Inv => TypeOK
  BY DEF Inv
<1> QED BY <1>1, Always, PTL

\* Go refuses the options of a FastSerial object for its rate only: the checks
\* of its constructor (lib/index.js) leave out nothing else that modeFromOpts
\* looks at.
THEOREM RefusedForRate == Spec => []RefusedOnlyForRate
<1>1. Inv => RefusedOnlyForRate
  BY DEF Inv
<1> QED BY <1>1, Always, PTL

\* update changes a single field, as serial.go:13 has it: whatever updates
\* succeed or fail, the device keeps the frame format it was opened with.
THEOREM FormatKept == Spec => []FrameFormatKept
<1>1. Inv => FrameFormatKept
  BY DEF Inv, InStep, InFormat, FrameFormatKept
<1> QED BY <1>1, Always, PTL

\* After a call that succeeded the device has the rate it asked for, whatever
\* failed since; FastSerial.update has put the last into the settings in any case
\* (lib/index.js).
THEOREM RateFollows == Spec => []RateFollowsSettings
<1>1. Inv => RateFollowsSettings
  BY DEF Inv
<1> QED BY <1>1, Always, PTL

\* ApplyControlLines touches the lines it is asked to set and no other: each is
\* as the last set that succeeded asked, or a later one that failed, or raised
\* as by the open (serial.go).
THEOREM LinesFollow == Spec => []LinesFollowSets
<1>1. Inv => LinesFollowSets
  BY DEF Inv, SetLines, LinesFollowSets, Asks, Done
<1> QED BY <1>1, Always, PTL
=================================================================================
