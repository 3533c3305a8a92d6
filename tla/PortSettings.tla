----------------------------- MODULE PortSettings -----------------------------
(***************************************************************************)
(* The settings of a port, which are kept in four places: the settings     *)
(* object of FastSerial (lib/index.js), the JSON a call sends to Go        *)
(* (src/addon.cc, go-serial/api.go), the mode of the portHandle            *)
(* (serial.go) and the device.  The constructor checks options that Go     *)
(* decodes and checks again; update changes the object and the port; set   *)
(* changes the control lines.                                              *)
(*                                                                         *)
(* Values of options are strings that name what the code tells apart.      *)
(*                                                                         *)
(* One path is opened, by one object.  A program that does not await may   *)
(* close and reopen it while other calls are under way: a call works on    *)
(* the port that SerialBinding.fd named when it was made.                  *)
(***************************************************************************)
EXTENDS Integers

CONSTANTS
  Rates,        \* baud rates that are positive integers
  DefaultRate,  \* 9600
  Tried,        \* options that the constructor is given
  Kinds,        \* the operations that calls may be
  NumCalls      \* how many calls the program makes at most

ASSUME SettingsAssumption ==
  /\ DefaultRate \in Rates
  /\ Rates \intersect {"zero", "fraction", "text"} = {}
  /\ NumCalls \in Nat

\* What a program may pass; the last of each is wrong.  As a rate, "zero" also
\* stands for NaN, and in an update for an absent one: JSON makes of the first
\* null, of the second no field, and Go 0 of both.
RateValues == Rates \union {"zero", "fraction", "text"}
DataBitsValues == {"7", "8", "9"}
ParityValues == {"none", "even", "mark", "odd", "space", "wrong"}
StopBitsValues == {"1", "1.5", "2", "3"}
Options == [baudRate : RateValues, dataBits : DataBitsValues,
            parity : ParityValues, stopBits : StopBitsValues]
LineValues == {"on", "off", "absent"}
Lines == [rts : LineValues, dtr : LineValues]

ASSUME ProgramAssumption ==
  /\ Tried \subseteq Options
  /\ Kinds \subseteq {"open", "update", "set", "close"}

\* Calls are numbered in the order they are made.
Calls == 1..NumCalls
None == 0

VARIABLES
  awaits,    \* the program awaits each call before it makes the next
  settings,  \* FastSerial.settings
  kind,      \* the operation of each call
  stage,     \* "idle", "run", "dtr" (of a set, after rts) or "settled"
  sent,      \* the options or lines its JSON holds
  target,    \* fd as it was when the call was made
  result,    \* what its promise settles with
  fd,        \* SerialBinding.fd: the open whose handle it holds, or None
  opened,    \* the open whose port is open, or None
  mode,      \* the mode of that portHandle, or Closed
  device,    \* what the port is set to, or Closed
  lines      \* the control lines of the port

callVars == <<kind, stage, sent, target, result>>
portVars == <<opened, mode, device, lines>>
vars == <<awaits, settings, callVars, fd, portVars>>

Closed == [baudRate |-> "closed"]
NotSent == [rts |-> "absent", dtr |-> "absent"]

\* serial.Parity and serial.StopBits.
GoParity == [none |-> "NoParity", odd |-> "OddParity", even |-> "EvenParity",
             mark |-> "MarkParity", space |-> "SpaceParity"]
GoStopBits == [x \in {"1", "1.5", "2"} |->
                 CASE x = "1"   -> "OneStopBit"
                   [] x = "1.5" -> "OnePointFiveStopBits"
                   [] x = "2"   -> "TwoStopBits"]

Modes == [baudRate : Rates, dataBits : DataBitsValues,
          parity : {GoParity[p] : p \in DOMAIN GoParity},
          stopBits : {GoStopBits[s] : s \in DOMAIN GoStopBits}]

TypeOK ==
  /\ awaits \in BOOLEAN
  /\ settings \in Options
  /\ kind \in [Calls -> {"none", "open", "update", "set", "close"}]
  /\ stage \in [Calls -> {"idle", "run", "dtr", "settled"}]
  /\ sent \in [Calls -> Options \union Lines]
  /\ target \in [Calls -> Calls \union {None}]
  /\ result \in [Calls -> {"none", "ok", "options", "error"}]
  /\ fd \in Calls \union {None}
  /\ opened \in Calls \union {None}
  /\ mode \in Modes \union {Closed}
  /\ device \in Modes \union {Closed}
  /\ lines \in [rts : {"on", "off"}, dtr : {"on", "off"}]

\* The variant of Accepted that knows a size of the stop bit too many.
AcceptedTooMuch(o) ==
  /\ o.baudRate # "text"
  /\ o.dataBits \in {"7", "8"}
  /\ o.parity \in {"none", "even", "mark", "odd", "space"}
  /\ o.stopBits \in {"1", "1.5", "2", "3"}

\* The constructor does not throw.  NaN and 9600.5 are numbers.
Accepted(o) ==
  /\ o.baudRate # "text"
  /\ o.dataBits \in {"7", "8"}
  /\ o.parity \in {"none", "even", "mark", "odd", "space"}
  /\ o.stopBits \in {"1", "1.5", "2"}

\* Go's int for a baudRate: anything but an integer is an error.
Decodes(v) == v \notin {"fraction", "text"}
Decoded(v) == IF v \in Rates THEN v ELSE "zero"

\* modeFromOpts, when it succeeds.
HasMode(o) ==
  Decodes(o.baudRate) /\ o.parity \in DOMAIN GoParity /\ o.stopBits \in DOMAIN GoStopBits
ModeFromOpts(o) ==
  [baudRate |-> IF Decoded(o.baudRate) = "zero" THEN DefaultRate ELSE o.baudRate,
   dataBits |-> o.dataBits,
   parity   |-> GoParity[o.parity],
   stopBits |-> GoStopBits[o.stopBits]]

\* A FastSerial object made with options its constructor accepts.
Init ==
  /\ awaits \in BOOLEAN
  /\ settings \in {o \in Tried : Accepted(o)}
  /\ kind = [c \in Calls |-> "none"]
  /\ stage = [c \in Calls |-> "idle"]
  /\ sent = [c \in Calls |-> NotSent]
  /\ target = [c \in Calls |-> None]
  /\ result = [c \in Calls |-> "none"]
  /\ fd = None /\ opened = None
  /\ mode = Closed /\ device = Closed
  /\ lines = [rts |-> "on", dtr |-> "on"]

-----------------------------------------------------------------------------
(* Calls, on the loop thread *)

\* All the program called before has settled.
Awaited == \A d \in Calls : stage[d] \in {"idle", "settled"}

\* Call c is made and goes to a goroutine, or is settled at once.
Begin(c, k, what, outcome) ==
  /\ stage[c] = "idle"
  /\ \A d \in Calls : d < c => stage[d] # "idle"
  /\ awaits => Awaited
  /\ kind' = [kind EXCEPT ![c] = k]
  /\ sent' = [sent EXCEPT ![c] = what]
  /\ target' = [target EXCEPT ![c] = fd]
  /\ result' = [result EXCEPT ![c] = outcome]
  /\ stage' = [stage EXCEPT ![c] = IF outcome = "none" THEN "run" ELSE "settled"]
  /\ UNCHANGED <<awaits, portVars>>

\* FastSerial.open, of a port that may be open: options Go cannot use are
\* reported at once.
CallOpen(c) ==
  /\ Begin(c, "open", settings, IF HasMode(settings) THEN "none" ELSE "options")
  /\ UNCHANGED <<settings, fd>>

\* The variant of CallUpdate that leaves the settings as they are.
CallUpdateForgets(c, v) ==
  /\ Begin(c, "update", [settings EXCEPT !.baudRate = v],
           IF fd = None THEN "error" ELSE IF Decodes(v) THEN "none" ELSE "options")
  /\ UNCHANGED <<settings, fd>>

\* FastSerial.update: the settings keep the rate whatever becomes of the call.
\* fd null is an error, and so is JSON that Go cannot decode.
CallUpdate(c, v) ==
  /\ settings' = [settings EXCEPT !.baudRate = v]
  /\ Begin(c, "update", settings',
           IF fd = None THEN "error" ELSE IF Decodes(v) THEN "none" ELSE "options")
  /\ UNCHANGED fd

\* SerialBinding.set.
CallSet(c, new) ==
  /\ Begin(c, "set", new, IF fd = None THEN "error" ELSE "none")
  /\ UNCHANGED <<settings, fd>>

\* SerialBinding.close forgets fd first; with fd null it fails.
CallClose(c) ==
  /\ Begin(c, "close", NotSent, IF fd = None THEN "error" ELSE "none")
  /\ fd' = None
  /\ UNCHANGED settings

-----------------------------------------------------------------------------
(* Goroutines *)

Settle(c, outcome) ==
  /\ stage' = [stage EXCEPT ![c] = "settled"]
  /\ result' = [result EXCEPT ![c] = outcome]
  /\ UNCHANGED <<awaits, settings, kind, sent, target>>

Running(c, k) == stage[c] = "run" /\ kind[c] = k

\* The port c was made on has not been closed since: the others only fail.
OnPort(c) == target[c] = opened

\* serial.Open applies the mode and raises both lines; or fails, as it does of a
\* port that is open already.  fd is set by the loop thread a little later, but a
\* call made in between finds it null, just as one made before does.
Open(c) ==
  /\ Running(c, "open")
  /\ \/ /\ opened = None
        /\ opened' = c /\ fd' = c
        /\ mode' = ModeFromOpts(sent[c]) /\ device' = mode'
        /\ lines' = [rts |-> "on", dtr |-> "on"]
        /\ Settle(c, "ok")
     \/ Settle(c, "error") /\ UNCHANGED <<fd, portVars>>

\* Variants of NewMode: 0 is not ignored; the mode is made anew.
NewModeZero(c) == [mode EXCEPT !.baudRate = Decoded(sent[c].baudRate)]
NewModePlain(c) ==
  ModeFromOpts([baudRate |-> sent[c].baudRate, dataBits |-> "8", parity |-> "none",
                stopBits |-> "1"])

\* The rate SetBaudRate puts into p.mode: 0 is ignored.
NewMode(c) ==
  IF Decoded(sent[c].baudRate) = "zero" THEN mode
                                        ELSE [mode EXCEPT !.baudRate = sent[c].baudRate]

\* SetBaudRate, under all locks of the port (PortHandle): the whole mode is
\* applied; the port refuses it and stays as it was, and p.mode is changed all
\* the same; or a conch does not come free in time, or the port is closed.
Update(c) ==
  /\ Running(c, "update")
  /\ \/ OnPort(c) /\ mode' = NewMode(c) /\ device' = mode' /\ Settle(c, "ok")
     \/ OnPort(c) /\ mode' = NewMode(c) /\ Settle(c, "error") /\ UNCHANGED device
     \/ Settle(c, "error") /\ UNCHANGED <<mode, device>>
  /\ UNCHANGED <<fd, opened, lines>>

\* The variant of Line where an absent field is false.
LineOff(asked, now) == IF asked = "absent" THEN "off" ELSE asked

\* What a field of set's options makes of a line: absent, nil in Go, nothing.
Line(asked, now) == IF asked = "absent" THEN now ELSE asked

\* Line l may be set as call c asks: asked for nothing, it is not touched.
Settable(c, l) == sent[c][l] = "absent" \/ OnPort(c)

\* ApplyControlLines: RTS, then DTR, without a lock; a failure leaves what was
\* set before.
SetRTS(c) ==
  /\ Running(c, "set")
  /\ \/ /\ Settable(c, "rts")
        /\ lines' = [lines EXCEPT !.rts = Line(sent[c].rts, @)]
        /\ stage' = [stage EXCEPT ![c] = "dtr"]
        /\ UNCHANGED <<awaits, settings, kind, sent, target, result>>
     \/ sent[c].rts # "absent" /\ Settle(c, "error") /\ UNCHANGED lines
  /\ UNCHANGED <<fd, opened, mode, device>>

\* Then the break, which may fail as well, and changes nothing lasting.
SetDTR(c) ==
  /\ stage[c] = "dtr"
  /\ \/ /\ Settable(c, "dtr")
        /\ lines' = [lines EXCEPT !.dtr = Line(sent[c].dtr, @)]
        /\ \E outcome \in {"ok", "error"} : Settle(c, outcome)
     \/ sent[c].dtr # "absent" /\ Settle(c, "error") /\ UNCHANGED lines
  /\ UNCHANGED <<fd, opened, mode, device>>

\* Whatever port.Close returns, the port is gone: c's, since the close made
\* first forgot fd and no other can be made on it.
Close(c) ==
  /\ Running(c, "close")
  /\ opened' = None /\ mode' = Closed /\ device' = Closed
  /\ \E outcome \in {"ok", "error"} : Settle(c, outcome)
  /\ UNCHANGED <<fd, lines>>

Start(c) ==
  \/ "open" \in Kinds /\ CallOpen(c)
  \/ "update" \in Kinds /\ \E v \in RateValues : CallUpdate(c, v)
  \/ "set" \in Kinds /\ \E new \in Lines : CallSet(c, new)
  \/ "close" \in Kinds /\ CallClose(c)

Goroutine(c) == Open(c) \/ Update(c) \/ SetRTS(c) \/ SetDTR(c) \/ Close(c)

Finished == Awaited /\ UNCHANGED vars

Next == (\E c \in Calls : Start(c) \/ Goroutine(c)) \/ Finished

Spec == Init /\ [][Next]_vars

-----------------------------------------------------------------------------
(* Properties *)

\* The constructor is as strict as modeFromOpts: Go refuses the options of an
\* object that could be made for its baud rate only, one that is no integer,
\* given at first or by a later update.
RefusedOnlyForRate ==
  \A c \in Calls : result[c] = "options" => ~Decodes(sent[c].baudRate)

\* Data bits, parity and stop bits are the program's while the port is open,
\* whatever calls overlap: "update() can change a single field (baudRate) and
\* re-apply the whole mode" (serial.go:13).
FrameFormatKept ==
  device # Closed =>
    /\ device.dataBits = settings.dataBits
    /\ device.parity = GoParity[settings.parity]
    /\ device.stopBits = GoStopBits[settings.stopBits]

\* The calls of kind k made on the port that is open.
MadeOn(k) == {c \in Calls : kind[c] = k /\ target[c] = opened}

\* c is the last of some calls.
Last(c, S) == c \in S /\ \A d \in S : d <= c

\* Object and device through updates, failures and reopens, of a program that
\* awaits its calls: the object has the rate that was asked last, the device the
\* one of the last call that succeeded.  Where the last succeeded they agree.
RateFollowsSettings ==
  awaits /\ device # Closed =>
    LET made == {opened} \union MadeOn("update")
        good == {c \in made : result[c] = "ok"}
    IN  /\ \A c \in made : Last(c, made) => settings.baudRate = sent[c].baudRate
        /\ \A c \in good : Last(c, good) /\ sent[c].baudRate \in Rates =>
             device.baudRate = sent[c].baudRate

\* What a call asks of line l: an open raises both.
Asked(c, l) == IF c = opened THEN "on" ELSE sent[c][l]

\* A line is as a set, or the open, asked after which no set that named the line
\* succeeded: to set one line leaves the other alone, one that is lowered can be
\* raised again, and a set that fails touches only what it names.
LinesFollowSets ==
  awaits /\ device # Closed =>
    \A l \in {"rts", "dtr"} :
      LET asks == {c \in MadeOn("set") : sent[c][l] # "absent"}
      IN  \E c \in {opened} \union asks :
            /\ lines[l] = Asked(c, l)
            /\ \A d \in asks : result[d] = "ok" => d <= c

===============================================================================
