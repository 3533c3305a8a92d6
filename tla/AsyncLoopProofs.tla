---------------------------- MODULE AsyncLoopProofs ----------------------------
(***************************************************************************)
(* What the loop's own variables keep to, whatever the handles are and     *)
(* whoever wakes them: lemmas for the modules that use AsyncLoop.          *)
(***************************************************************************)
EXTENDS AsyncLoop, SequenceTheorems, TLAPS

\* A step of the loop with the given handles, created in the given order.
LoopStep(handles, order) ==
  \/ \E h \in handles : Signal(h) \/ Take(h) \/ \E m \in BOOLEAN : EndDispatch(h, m)
  \/ StartPass(order) \/ Visit
  \/ UNCHANGED asyncVars

\* Wake-ups of two handles in a FIFO: each pending one is in it once.
Posted(a, b) ==
  \/ todo = <<>> /\ pending = {}
  \/ todo = <<a>> /\ pending = {a}
  \/ todo = <<b>> /\ pending = {b}
  \/ todo = <<a, b>> /\ pending = {a, b}
  \/ todo = <<b, a>> /\ pending = {a, b}

\* The one that is being served is not pending: who sends it one more wake-up
\* need not post it.
Fifo(a, b) == platform = "windows" => Posted(a, b) /\ running \notin pending

\* No step of the loop's leaves its handles.
LEMMA LoopTypes ==
  ASSUME NEW handles, NEW order \in Seq(handles),
         LoopTypeOK(handles), LoopStep(handles, order)
  PROVE  LoopTypeOK(handles)'
<1> USE LoopAssumption DEF LoopTypeOK
<1>1. ASSUME NEW h \in handles, Wake(h)
      PROVE  pending' \subseteq handles /\ todo' \in Seq(handles)
  <2>1. Append(todo, h) \in Seq(handles)
    OBVIOUS
  <2> QED BY <1>1, <2>1 DEF Wake
<1>2. ASSUME NEW h \in handles, Signal(h) \/ Take(h) \/ \E m \in BOOLEAN : EndDispatch(h, m)
      PROVE  LoopTypeOK(handles)'
  <2>1. pending' \subseteq handles /\ todo' \in Seq(handles)
    BY <1>1, <1>2 DEF Signal, Take, EndDispatch, wakeVars
  <2>2. platform' = platform /\ running' \in handles \union {"none"}
    BY <1>2 DEF Signal, Take, EndDispatch, wakeVars
  <2>3. left' \in 0..Quota
    BY <1>2 DEF Signal, Take, EndDispatch, wakeVars
  <2> QED BY <2>1, <2>2, <2>3
<1>3. CASE StartPass(order)
  <2>1. /\ platform' = platform /\ running' = running /\ pending' = pending
        /\ left' = left /\ todo' \in Seq(handles)
    BY <1>3 DEF StartPass
  <2> QED BY <2>1
<1>4. CASE Visit
  <2>1. todo # <<>> /\ Head(todo) \in handles /\ Tail(todo) \in Seq(handles)
    BY <1>4 DEF Visit
  <2>2. platform' = platform /\ todo' \in Seq(handles) /\ pending' \subseteq handles
    BY <1>4, <2>1 DEF Visit
  <2>3. running' \in handles \union {"none"} /\ left' \in 0..Quota
    BY <1>4, <2>1 DEF Visit
  <2> QED BY <2>2, <2>3
<1>5. CASE UNCHANGED asyncVars
  BY <1>5 DEF asyncVars, wakeVars
<1> QED BY <1>2, <1>3, <1>4, <1>5 DEF LoopStep

\* The kind of loop does not change.
LEMMA PlatformKept ==
  ASSUME NEW handles, NEW order, LoopStep(handles, order)
  PROVE  platform' = platform
BY DEF LoopStep, Signal, Take, EndDispatch, StartPass, Visit, asyncVars

LEMMA AppendToOne == \A a, b : Append(<<a>>, b) = <<a, b>>
<1> SUFFICES ASSUME NEW a, NEW b
             PROVE  Append(<<a>>, b) = <<a, b>>
  OBVIOUS
<1> DEFINE s == Append(<<a>>, b)
           t == <<a, b>>
<1>1. s \in Seq({a, b}) /\ Len(s) = 2 /\ s[1] = a /\ s[2] = b
  OBVIOUS
<1>2. t \in Seq({a, b}) /\ Len(t) = 2 /\ t[1] = a /\ t[2] = b
  OBVIOUS
<1> HIDE DEF s, t
<1>3. s = t
  BY <1>1, <1>2, SeqEqual
<1> QED BY <1>3 DEF s, t

LEMMA WakePosted ==
  ASSUME NEW a, NEW b, NEW h \in {a, b}, a # b,
         Posted(a, b), Wake(h), platform = "windows"
  PROVE  /\ Posted(a, b)'
         /\ pending' = pending \union {h}
         /\ pending = {a} /\ h = b => todo' = <<a, b>>
<1>1. Append(<<>>, h) = <<h>>
  OBVIOUS
<1>2. CASE h \in pending
  BY <1>2 DEF Wake, Posted
<1>3. CASE h \notin pending
  <2>1. todo' = Append(todo, h) /\ pending' = pending \union {h}
    BY <1>3 DEF Wake
  <2>2. CASE todo = <<>> /\ pending = {}
    BY <1>1, <2>1, <2>2 DEF Posted
  <2>3. CASE todo = <<a>> /\ pending = {a}
    BY AppendToOne, <1>3, <2>1, <2>3 DEF Posted
  <2>4. CASE todo = <<b>> /\ pending = {b}
    BY AppendToOne, <1>3, <2>1, <2>4 DEF Posted
  <2> QED BY <1>3, <2>2, <2>3, <2>4 DEF Posted
<1> QED BY <1>2, <1>3

LEMMA VisitPosted ==
  ASSUME NEW a, NEW b, a # b, Posted(a, b), Visit
  PROVE  /\ Posted(a, b)'
         /\ pending' \subseteq pending
         /\ running' \in pending /\ running' \notin pending'
         /\ running' = b /\ a \in pending' => todo = <<b, a>> /\ pending = {a, b}
<1>1. /\ Head(<<a>>) = a /\ Tail(<<a>>) = <<>>
      /\ Head(<<b>>) = b /\ Tail(<<b>>) = <<>>
      /\ Head(<<a, b>>) = a /\ Tail(<<a, b>>) = <<b>>
      /\ Head(<<b, a>>) = b /\ Tail(<<b, a>>) = <<a>>
  OBVIOUS
<1>2. todo # <<>> /\ todo' = Tail(todo) /\ pending' = pending \ {Head(todo)}
  BY DEF Visit
<1>3. Head(todo) \in pending
  BY <1>1, <1>2 DEF Posted
<1>4. running' = Head(todo)
  BY <1>3 DEF Visit
<1> QED BY <1>1, <1>2, <1>3, <1>4 DEF Posted

LEMMA FifoStep ==
  ASSUME NEW a, NEW b, a # b, a # "none", b # "none", NEW order,
         Fifo(a, b), LoopStep({a, b}, order)
  PROVE  Fifo(a, b)'
<1> SUFFICES ASSUME platform = "windows"
             PROVE  Posted(a, b)' /\ running' \notin pending'
  BY PlatformKept DEF Fifo
<1>1. Posted(a, b) /\ running \notin pending
  BY DEF Fifo
<1>2. ASSUME NEW h \in {a, b}, Signal(h)
      PROVE  Posted(a, b)' /\ running' \notin pending'
  <2>1. CASE running = h
    BY <1>1, <1>2, <2>1 DEF Signal, Posted
  <2>2. CASE running # h
    BY <1>1, <1>2, <2>2, WakePosted DEF Signal
  <2> QED BY <2>1, <2>2
<1>3. ASSUME NEW h \in {a, b}, NEW m \in BOOLEAN, EndDispatch(h, m)
      PROVE  Posted(a, b)' /\ running' \notin pending'
  <2>1. running' = "none"
    BY <1>3 DEF EndDispatch
  <2>2. Posted(a, b)'
    BY <1>1, <1>3, WakePosted DEF EndDispatch, Posted
  <2> QED BY <2>1, <2>2 DEF Posted
<1>4. ASSUME NEW h \in {a, b}, Take(h)
      PROVE  Posted(a, b)' /\ running' \notin pending'
  BY <1>1, <1>4 DEF Take, wakeVars, Posted
<1>5. CASE Visit
  BY <1>1, <1>5, VisitPosted
<1>6. CASE StartPass(order)
  BY <1>6 DEF StartPass
<1>7. CASE UNCHANGED asyncVars
  BY <1>1, <1>7 DEF asyncVars, wakeVars, Posted
<1> QED BY <1>2, <1>3, <1>4, <1>5, <1>6, <1>7 DEF LoopStep

================================================================================
