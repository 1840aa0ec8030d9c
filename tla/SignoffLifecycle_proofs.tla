------------------------ MODULE SignoffLifecycle_proofs ------------------------
(***************************************************************************)
(* The safety invariants of SignoffLifecycle, for any number of clients,   *)
(* change requests, packages, sign-offs, calls cut short and files lost.   *)
(* A call's remaining writes are reasoned about as a set, Pending, of      *)
(* which the next write is one that all others may follow; what each of    *)
(* them relies on is an invariant of its own.                              *)
(***************************************************************************)
EXTENDS SignoffLifecycle, SequenceTheorems, FiniteSetTheorems, WellFoundedInduction, TLAPS

-----------------------------------------------------------------------------
(* Writes and plans                                                         *)

Exports == {Exported(p) : p \in Package}
Builds == {Built(p) : p \in Package}
RowTypes == {"signed", "reset"} \cup Exports \cup Builds

Deed(do, what, n, value) == [do |-> do, what |-> what, of |-> n, value |-> value]
AppendOf(t, n, r) == Deed("append", None, n, Row(t, n, r))

\* The rows that a call appends; Link sets prev.
Rows == [type : RowTypes, of : Number, request : Request \cup {None}, prev : Nat \cup {Bad}]

\* The writes that a call can have before it.
Deeds ==
    [do : {"document"}, what : Document, of : 0 .. MaxSignoffs, value : {None}]
    \cup [do : {"document"}, what : {"signoff"}, of : Number, value : Source]
    \cup [do : {"state"}, what : {None}, of : Number, value : {"signed", "reset"}]
    \cup [do : {"output"}, what : Package, of : Bad .. MaxSignoffs, value : Part]
    \cup [do : {"keep"}, what : {None}, of : Number, value : {"part", "full"}]
    \cup [do : {"request"}, what : Request, of : Number, value : {"submitted", "approved", "applied"}]
    \cup [do : {"approval"}, what : Request, of : {0}, value : {None}]
    \cup {e \in [do : {"append"}, what : {None}, of : Number, value : Rows] : e.value.of = e.of}

\* A write without the hash that Link puts into it.
Shape(e) == IF e.do = "append" THEN [e EXCEPT !.value = [@ EXCEPT !.prev = Bad]] ELSE e

\* The writes that the call in progress has still to make.
Pending == IF holder = None THEN {} ELSE {Shape(todo[holder][i]) : i \in DOMAIN todo[holder]}

\* Write f may come after write e in one call.
Follows(e, f) ==
    /\ e.do = "append" /\ e.value.type = "signed" =>
           f.do = "document" \/ (f.do = "state" /\ f.value = "signed")
    /\ e.do = "append" /\ e.value.type = "reset" =>
           \/ f.do \in {"document", "request"} \/ (f.do = "state" /\ f.value = "reset")
           \/ (f.do = "output" /\ f.of = 0)
    /\ e.do = "append" /\ e.value.type \in Exports =>
           (f.do = "output" /\ f.of # 0) \/ (f.do = "append" /\ f.value.type \in Builds)
    /\ e.do = "append" => e.value.type \notin Builds
    /\ e.do = "output" /\ e.of = 0 => f.do = "output" /\ f.of = 0
    /\ e.do = "output" /\ e.of # 0 =>
           (f.do = "output" /\ f.of # 0) \/ (f.do = "append" /\ f.value.type \in Builds)
    /\ e.do = "keep" => ~(f.do = "keep" /\ f.value = "part")
    /\ e.do = "request" => f.do \in {"document", "state", "output", "approval"}
    /\ e.do # "approval"
    /\ e.do = "state" => f.do = "output" /\ f.of = 0

InOrder(w) == \A i, j \in DOMAIN w : i < j => Follows(w[i], w[j])

\* The writes of a call before it has linked or made any of them.
IsPlan(w, S) ==
    /\ w \in Seq(Deeds) /\ Range(w) = S /\ InOrder(w)
    /\ \A e \in S : e \in Deeds /\ Shape(e) = e

\* One write is a plan.
LEMMA PlanOne ==
    ASSUME NEW e \in Deeds, Shape(e) = e
    PROVE  IsPlan(<< e >>, {e})
<1>1. << e >> \in Seq(Deeds) /\ DOMAIN << e >> = {1} /\ << e >>[1] = e
  OBVIOUS
<1>2. Range(<< e >>) = {e}
  BY <1>1 DEF Range
<1> QED
  BY <1>1, <1>2 DEF IsPlan, InOrder

\* Two plans make one when each write of the second may follow each of the first.
LEMMA PlanThen ==
    ASSUME NEW v, NEW S, NEW w, NEW T, IsPlan(v, S), IsPlan(w, T), \A e \in S, f \in T : Follows(e, f)
    PROVE  IsPlan(v \o w, S \cup T)
<1>1. v \in Seq(Deeds) /\ w \in Seq(Deeds) /\ Range(v) = S /\ Range(w) = T
  BY DEF IsPlan
<1>2. v \o w \in Seq(Deeds) /\ Range(v \o w) = S \cup T
  BY <1>1, ConcatProperties, RangeConcatenation
<1>3. /\ Len(v) \in Nat /\ Len(w) \in Nat
      /\ DOMAIN v = 1 .. Len(v) /\ DOMAIN w = 1 .. Len(w) /\ DOMAIN (v \o w) = 1 .. Len(v) + Len(w)
      /\ \A i \in 1 .. Len(v) + Len(w) : (v \o w)[i] = IF i <= Len(v) THEN v[i] ELSE w[i - Len(v)]
  BY <1>1, <1>2, ConcatProperties, LenProperties
<1>4. InOrder(v \o w)
  <2> SUFFICES ASSUME NEW i \in 1 .. Len(v) + Len(w), NEW j \in 1 .. Len(v) + Len(w), i < j
               PROVE  Follows((v \o w)[i], (v \o w)[j])
    BY <1>3 DEF InOrder
  <2>1. CASE j <= Len(v)
    <3>1. (v \o w)[i] = v[i] /\ (v \o w)[j] = v[j] /\ i \in DOMAIN v /\ j \in DOMAIN v
      BY <1>3, <2>1
    <3> QED
      BY <3>1 DEF IsPlan, InOrder
  <2>2. CASE i <= Len(v) /\ j > Len(v)
    <3>1. (v \o w)[i] = v[i] /\ (v \o w)[j] = w[j - Len(v)] /\ i \in DOMAIN v /\ j - Len(v) \in DOMAIN w
      BY <1>3, <2>2
    <3> QED
      BY <3>1, <1>1 DEF Range
  <2>3. CASE i > Len(v)
    <3>1. /\ (v \o w)[i] = w[i - Len(v)] /\ (v \o w)[j] = w[j - Len(v)]
          /\ i - Len(v) \in DOMAIN w /\ j - Len(v) \in DOMAIN w /\ i - Len(v) < j - Len(v)
      BY <1>3, <2>3
    <3> QED
      BY <3>1 DEF IsPlan, InOrder
  <2> QED
    BY <1>3, <2>1, <2>2, <2>3
<1> QED
  BY <1>2, <1>4 DEF IsPlan

-----------------------------------------------------------------------------
(* The history and the sign-off in force                                    *)

HistoryRow == [type : {"signed", "reset", "torn"} \cup Exports \cup Builds,
               of : 0 .. MaxSignoffs, request : Request \cup {None}, prev : Nat \cup {Bad}]

\* Whole rows name a sign-off.
RowsAreNumbered ==
    \A i \in DOMAIN history : history[i].type # "torn" => history[i].of \in Number

\* The remaining writes are a call's, in the order of the call.
TodoIsPlan ==
    /\ todo \in [Client -> Seq(Deeds)]
    /\ \A c \in Client : InOrder(todo[c])

\* While a call is in progress the chain is whole, and only the next write can
\* be linked, to the last row.
LinksAreFresh ==
    /\ holder # None => Linked(history)
    /\ \A c \in Client : \A i \in DOMAIN todo[c] :
          todo[c][i].do = "append" =>
              todo[c][i].value.prev \in IF i = 1 THEN {Bad, Len(history)} ELSE {Bad}

ReportsAreTyped == report \in [Client -> {None} \cup [of : Package, result : Bad .. MaxSignoffs]]

Sound == TypeOK /\ HistoryIsChain /\ RowsAreNumbered /\ TodoIsPlan /\ LinksAreFresh /\ ReportsAreTyped

\* A nonempty set of places has a last one.
LEMMA LastPlace ==
    ASSUME NEW n \in Nat, NEW T \in SUBSET (1 .. n), T # {}
    PROVE  Max(T) \in T /\ \A t \in T : t <= Max(T)
<1> DEFINE U == {u \in Nat : \A t \in T : t <= u}
<1>0. \A u, v \in Nat : <<u, v>> \in OpToRel(<, Nat) <=> u < v
  BY DEF OpToRel
<1>1. n \in U
  OBVIOUS
<1>2. PICK m \in U : \A u \in U : ~(<<u, m>> \in OpToRel(<, Nat))
  <2>1. U \subseteq Nat /\ U # {}
    BY <1>1
  <2> HIDE DEF U
  <2> QED
    BY <2>1, WFMin, NatLessThanWellFounded
<1>3. m \in Nat /\ \A t \in T : t <= m
  OBVIOUS
<1>4. \A u \in U : u >= m
  <2> SUFFICES ASSUME NEW u \in U PROVE u >= m
    OBVIOUS
  <2>1. ~(<<u, m>> \in OpToRel(<, Nat))
    BY <1>2
  <2>2. u \in Nat /\ m \in Nat
    BY <1>3
  <2>3. ~(u < m)
    BY <1>0, <2>1, <2>2
  <2> QED
    BY <2>2, <2>3
<1>5. m \in T
  <2> SUFFICES ASSUME m \notin T PROVE FALSE
    OBVIOUS
  <2>1. PICK t \in T : TRUE
    OBVIOUS
  <2>2. \A x \in T : x \in Nat /\ x <= m /\ x # m
    BY <1>3
  <2>3. m - 1 \in U
    BY <1>3, <2>1, <2>2
  <2> QED
    BY <1>3, <1>4, <2>3
<1>6. \E x \in T : \A y \in T : x >= y
  BY <1>3, <1>5
<1>7. Max(T) \in T /\ \A y \in T : Max(T) >= y
  BY <1>6 DEF Max
<1> QED
  BY <1>7

\* What latest_signoff_state finds.
LEMMA LatestFacts ==
    ASSUME history \in Seq(HistoryRow), RowsAreNumbered
    PROVE  /\ Latest \in 0 .. MaxSignoffs
           /\ Transitions # {} =>
                /\ Max(Transitions) \in Transitions /\ \A i \in Transitions : i <= Max(Transitions)
                /\ LatestRow = history[Max(Transitions)] /\ Latest = LatestRow.of /\ Latest \in Number
                /\ LatestRow.type \in {"signed", "reset"}
           /\ Transitions = {} => Latest = 0 /\ ~IsSigned
           /\ IsSigned => Latest \in Number
<1>1. Len(history) \in Nat /\ DOMAIN history = 1 .. Len(history)
  BY LenProperties
<1>2. Transitions \in SUBSET (1 .. Len(history))
  BY <1>1 DEF Transitions
<1>3. Transitions # {} => Max(Transitions) \in Transitions /\ \A i \in Transitions : i <= Max(Transitions)
  BY <1>1, <1>2, LastPlace
<1>4. Transitions # {} => LatestRow.type \in {"signed", "reset"} /\ LatestRow.of \in Number
  BY <1>3 DEF LatestRow, Transitions, RowsAreNumbered
<1> QED
  BY <1>3, <1>4, SignoffAssumption DEF Latest, LatestRow, IsSigned, Number

\* A row that is added becomes the latest sign-off state if it is a sign-off or
\* a reset, and leaves it alone if it is not.
LEMMA LatestOfAppend ==
    ASSUME history \in Seq(HistoryRow), RowsAreNumbered, NEW row \in HistoryRow, history' = Append(history, row)
    PROVE  /\ history' \in Seq(HistoryRow) /\ Len(history) \in Nat /\ Len(history') = Len(history) + 1
           /\ DOMAIN history = 1 .. Len(history) /\ DOMAIN history' = DOMAIN history \cup {Len(history) + 1}
           /\ \A i \in DOMAIN history : history'[i] = history[i]
           /\ history'[Len(history) + 1] = row
           /\ row.type \in {"signed", "reset"} =>
                /\ Transitions' = Transitions \cup {Len(history) + 1}
                /\ Latest' = row.of /\ (IsSigned' <=> row.type = "signed")
           /\ row.type \notin {"signed", "reset"} =>
                Transitions' = Transitions /\ Latest' = Latest /\ (IsSigned' <=> IsSigned)
<1> DEFINE n == Len(history)
<1>1. /\ history' \in Seq(HistoryRow) /\ n \in Nat /\ Len(history') = n + 1
      /\ DOMAIN history = 1 .. n /\ DOMAIN history' = 1 .. n + 1
      /\ \A i \in 1 .. n : history'[i] = history[i]
      /\ history'[n + 1] = row
  BY AppendProperties, LenProperties
<1>2. DOMAIN history' = DOMAIN history \cup {n + 1} /\ n + 1 \notin DOMAIN history
  BY <1>1
<1> HIDE DEF n
<1>3. Transitions' = IF row.type \in {"signed", "reset"} THEN Transitions \cup {n + 1} ELSE Transitions
  BY <1>1, <1>2 DEF Transitions
<1>4. CASE row.type \in {"signed", "reset"}
  <2> DEFINE T == Transitions \cup {n + 1}
  <2>1. T \in SUBSET (1 .. n + 1) /\ n + 1 \in T /\ n \in Nat /\ n + 1 \in Nat
    BY <1>1 DEF Transitions
  <2>2. Transitions' = T
    BY <1>3, <1>4
  <2> HIDE DEF T
  <2>3. Max(T) \in T /\ \A t \in T : t <= Max(T)
    BY <2>1, LastPlace
  <2>4. Max(T) = n + 1
    <3>1. Max(T) \in 1 .. n + 1 /\ n + 1 <= Max(T)
      BY <2>1, <2>3
    <3> QED
      BY <2>1, <3>1
  <2>5. LatestRow' = row /\ Transitions' # {}
    BY <1>1, <2>1, <2>2, <2>4 DEF LatestRow
  <2> QED
    BY <1>1, <1>2, <1>3, <1>4, <2>5 DEF Latest, IsSigned, n
<1>5. CASE row.type \notin {"signed", "reset"}
  <2>1. Transitions' = Transitions
    BY <1>3, <1>5
  <2>2. Transitions # {} => LatestRow' = LatestRow
    BY <1>1, <2>1, LatestFacts DEF LatestRow, Transitions
  <2> QED
    BY <1>1, <1>2, <1>5, <2>1, <2>2 DEF Latest, IsSigned, n
<1> QED
  BY <1>4, <1>5

-----------------------------------------------------------------------------
(* What the steps do to Pending                                             *)

\* A write keeps everything but its link.
LEMMA ShapeFacts ==
    ASSUME NEW e \in Deeds
    PROVE  /\ Shape(e) \in Deeds
           /\ Shape(e).do = e.do /\ Shape(e).what = e.what /\ Shape(e).of = e.of
           /\ e.do # "append" => Shape(e) = e
           /\ e.do = "append" =>
                /\ e.value \in Rows /\ e.value.of = e.of /\ e.of \in Number
                /\ Shape(e).value = [e.value EXCEPT !.prev = Bad]
                /\ Shape(e).value.type = e.value.type
<1>1. CASE e.do # "append"
  BY <1>1 DEF Shape
<1>2. CASE e.do = "append"
  <2>1. /\ e \in [do : {"append"}, what : {None}, of : Number, value : Rows] /\ e.value.of = e.of
    BY <1>2 DEF Deeds
  <2>2. /\ e.value \in Rows /\ [e.value EXCEPT !.prev = Bad] \in Rows
        /\ [e.value EXCEPT !.prev = Bad].of = e.value.of /\ [e.value EXCEPT !.prev = Bad].type = e.value.type
    BY <2>1 DEF Rows
  <2> DEFINE r == [e.value EXCEPT !.prev = Bad]
  <2>3. Shape(e) = [e EXCEPT !.value = r]
    BY <1>2 DEF Shape
  <2> HIDE DEF r
  <2>4. /\ Shape(e).do = e.do /\ Shape(e).what = e.what /\ Shape(e).of = e.of /\ Shape(e).value = r
        /\ Shape(e) \in [do : {"append"}, what : {None}, of : Number, value : {r}]
    BY <2>1, <2>3
  <2>5. Shape(e) \in Deeds
    BY <2>1, <2>2, <2>4 DEF Deeds, r
  <2> QED
    BY <1>2, <2>1, <2>2, <2>4, <2>5 DEF r
<1> QED
  BY <1>1, <1>2

\* The order of writes does not depend on links.
LEMMA ShapesFollow ==
    ASSUME NEW e \in Deeds, NEW f \in Deeds
    PROVE  Follows(e, f) <=> Follows(Shape(e), Shape(f))
<1>1. /\ Shape(e).do = e.do /\ Shape(e).of = e.of /\ (e.do = "append" => Shape(e).value.type = e.value.type)
      /\ (e.do # "append" => Shape(e).value = e.value)
  BY ShapeFacts
<1>2. /\ Shape(f).do = f.do /\ Shape(f).of = f.of /\ (f.do = "append" => Shape(f).value.type = f.value.type)
      /\ (f.do # "append" => Shape(f).value = f.value)
  BY ShapeFacts
<1> QED
  BY <1>1, <1>2 DEF Follows

\* A call that begins has its plan before it.
LEMMA CallPends ==
    ASSUME TodoIsPlan, NEW c \in Client, holder = None, NEW w, NEW S, IsPlan(w, S), Call(c, w)
    PROVE  Pending = {} /\ Pending' = S
<1>1. Pending = {}
  BY DEF Pending
<1>2. holder' = c /\ todo'[c] = w /\ c # None
  BY SignoffAssumption DEF Call, TodoIsPlan
<1>3. Pending' = {Shape(w[i]) : i \in DOMAIN w}
  BY <1>2 DEF Pending
<1>4. \A i \in DOMAIN w : Shape(w[i]) = w[i]
  BY DEF IsPlan, Range
<1> QED
  BY <1>1, <1>3, <1>4 DEF IsPlan, Range

\* A step makes one of the pending writes, one that the others may follow.
LEMMA StepPends ==
    ASSUME Sound, NEW c \in Client, Step(c)
    PROVE  LET e == Shape(Head(todo[c])) IN
           /\ e \in Pending /\ e \in Deeds /\ Head(todo[c]) \in Deeds
           /\ Pending' \subseteq Pending /\ Pending \subseteq Pending' \cup {e}
           /\ \A f \in Pending' : Follows(e, f)
           /\ holder = c
<1> DEFINE w == todo[c]
           n == Len(w)
           e == Shape(Head(w))
<1>1. w \in Seq(Deeds) /\ w # << >> /\ holder = c /\ InOrder(w) /\ c # None
  BY SignoffAssumption DEF Step, Sound, TodoIsPlan, TypeOK
<1>2. /\ n \in Nat /\ n # 0 /\ DOMAIN w = 1 .. n /\ Head(w) = w[1] /\ \A i \in 1 .. n : w[i] \in Deeds
      /\ Tail(w) \in Seq(Deeds) /\ DOMAIN Tail(w) = 1 .. n - 1
      /\ \A i \in 1 .. n - 1 : Tail(w)[i] = w[i + 1]
  BY <1>1, LenProperties, EmptySeq, ElementOfSeq, HeadTailProperties
<1>3. todo'[c] = Tail(w)
  BY DEF Step, Sound, TodoIsPlan
<1> HIDE DEF w, n
<1>4. Pending = {Shape(w[i]) : i \in 1 .. n}
  BY <1>1, <1>2 DEF Pending, w
<1>5. Pending' = {Shape(w[i + 1]) : i \in 1 .. n - 1}
  <2>1. CASE n = 1
    <3>1. holder' = None
      BY <2>1 DEF Step, n, w
    <3> QED
      BY <2>1, <3>1 DEF Pending
  <2>2. CASE n # 1
    <3>1. holder' = c
      BY <1>1, <2>2 DEF Step, n, w
    <3>2. Pending' = {Shape(Tail(w)[i]) : i \in DOMAIN Tail(w)}
      BY <1>1, <1>3, <3>1 DEF Pending
    <3> QED
      BY <1>2, <3>2
  <2> QED
    BY <2>1, <2>2
<1>6. e \in Pending /\ e \in Deeds /\ Head(w) \in Deeds
  <2>1. 1 \in 1 .. n /\ w[1] \in Deeds /\ e = Shape(w[1])
    BY <1>2
  <2>2. Shape(w[1]) \in Deeds
    BY <2>1, ShapeFacts
  <2> QED
    BY <1>2, <1>4, <2>1, <2>2
<1>7. Pending' \subseteq Pending
  BY <1>2, <1>4, <1>5
<1>8. Pending \subseteq Pending' \cup {e}
  <2> SUFFICES ASSUME NEW i \in 1 .. n, i # 1 PROVE Shape(w[i]) \in Pending'
    BY <1>2, <1>4
  <2>1. i - 1 \in 1 .. n - 1 /\ i = (i - 1) + 1
    BY <1>2
  <2> QED
    BY <1>5, <2>1
<1>9. ASSUME NEW i \in 1 .. n - 1 PROVE Follows(e, Shape(w[i + 1]))
  <2>1. i + 1 \in 1 .. n /\ 1 \in 1 .. n /\ 1 < i + 1
    BY <1>2
  <2>2. Follows(w[1], w[i + 1])
    BY <1>1, <1>2, <2>1 DEF InOrder
  <2> QED
    BY <1>2, <2>1, <2>2, ShapesFollow
<1> QED
  BY <1>1, <1>5, <1>6, <1>7, <1>8, <1>9 DEF w

\* Linking the next write leaves it pending.
LEMMA LinkPends ==
    ASSUME Sound, NEW c \in Client, Link(c)
    PROVE  Pending' = Pending /\ UNCHANGED <<disk, evidence, holder, report, cuts, losses>>
<1> DEFINE w == todo[c]
           e == Head(w)
           v == [w EXCEPT ![1].value.prev = Len(history)]
<1>1. w \in Seq(Deeds) /\ w # << >> /\ holder = c /\ c # None
  BY SignoffAssumption DEF Link, Sound, TodoIsPlan, TypeOK
<1>2. 1 \in DOMAIN w /\ e = w[1] /\ e \in Deeds /\ e.do = "append"
  BY <1>1, LenProperties, EmptySeq, ElementOfSeq DEF Link
<1>3. todo'[c] = v /\ holder' = c
  BY <1>1 DEF Link, Sound, TodoIsPlan
<1>4. /\ DOMAIN v = DOMAIN w /\ (\A i \in DOMAIN w : i # 1 => v[i] = w[i])
      /\ v[1] = [e EXCEPT !.value = [@ EXCEPT !.prev = Len(history)]]
  BY <1>1, <1>2
<1>5. Shape(v[1]) = Shape(e)
  BY <1>2, <1>4 DEF Shape, Deeds, Rows
<1>6. \A i \in DOMAIN w : Shape(v[i]) = Shape(w[i])
  BY <1>2, <1>4, <1>5
<1> HIDE DEF v, w
<1>7. Pending' = {Shape(v[i]) : i \in DOMAIN v} /\ Pending = {Shape(w[i]) : i \in DOMAIN w}
  BY <1>1, <1>3 DEF Pending, w
<1> QED
  BY <1>4, <1>6, <1>7 DEF Link

-----------------------------------------------------------------------------
(* The plans of the calls                                                   *)

\* The types of rows differ.
LEMMA RowTypeFacts ==
    /\ Exports = {"archive exported", "handoff exported"} /\ Builds = {"archive built", "handoff built"}
    /\ Exported("archive") = "archive exported" /\ Exported("handoff") = "handoff exported"
    /\ Built("archive") = "archive built" /\ Built("handoff") = "handoff built"
    /\ \A p \in Package : Exported(p) \in Exports /\ Built(p) \in Builds
BY DEF Exports, Builds, Exported, Built, Package

\* Every write of the module's calls is a plan of one deed.
LEMMA PlanOfEffect ==
    ASSUME NEW do, NEW what, NEW n, NEW value, Deed(do, what, n, value) \in Deeds, do # "append"
    PROVE  IsPlan(Effect(do, what, n, value), {Deed(do, what, n, value)})
<1>1. Shape(Deed(do, what, n, value)) = Deed(do, what, n, value)
  BY DEF Shape, Deed
<1>2. Effect(do, what, n, value) = << Deed(do, what, n, value) >>
  BY DEF Effect, Deed
<1> QED
  BY <1>1, <1>2, PlanOne

\* So is a row that is added.
LEMMA PlanOfAdd ==
    ASSUME NEW t \in RowTypes, NEW n \in Number, NEW r \in Request \cup {None}
    PROVE  IsPlan(Add(t, n, r), {AppendOf(t, n, r)}) /\ AppendOf(t, n, r) \in Deeds
<1> DEFINE row == Row(t, n, r)
           e == AppendOf(t, n, r)
<1>1. row \in Rows /\ row.prev = Bad /\ row.of = n /\ [row EXCEPT !.prev = Bad] = row
  BY DEF Row, Rows
<1>2. e = [do |-> "append", what |-> None, of |-> n, value |-> row]
  BY DEF AppendOf, Deed
<1> HIDE DEF row, e
<1>3. e \in Deeds /\ Shape(e) = e
  BY <1>1, <1>2 DEF Deeds, Shape
<1>4. Add(t, n, r) = << e >>
  BY <1>2 DEF Add, Effect, row
<1> QED
  BY <1>3, <1>4, PlanOne DEF e

SignDeeds(n) ==
    {Deed("document", "signoff", n, evidence)} \cup {AppendOf("signed", n, None)}
    \cup {Deed("document", "binding", n, None)} \cup {Deed("document", "policy", n, None)}
    \cup {Deed("state", None, n, "signed")}

\* signoff
LEMMA PlanOfSign ==
    ASSUME NEW n \in Number, evidence \in Source
    PROVE  IsPlan(SignWrites(n), SignDeeds(n))
<1> DEFINE a == Deed("document", "signoff", n, evidence)
           b == AppendOf("signed", n, None)
           c == Deed("document", "binding", n, None)
           d == Deed("document", "policy", n, None)
           e == Deed("state", None, n, "signed")
<1>1. a \in Deeds /\ c \in Deeds /\ d \in Deeds /\ e \in Deeds
  BY SignoffAssumption DEF Deed, Deeds, Document, Number
<1>2. /\ IsPlan(Effect("document", "signoff", n, evidence), {a})
      /\ IsPlan(Write("binding", n), {c}) /\ IsPlan(Write("policy", n), {d})
      /\ IsPlan(WriteState("signed", n), {e})
  BY <1>1, PlanOfEffect DEF Write, WriteState
<1>3. IsPlan(Add("signed", n, None), {b})
  BY PlanOfAdd DEF RowTypes
<1>4. /\ \A x \in {a}, y \in {b} : Follows(x, y)
      /\ \A x \in {a} \cup {b}, y \in {c} : Follows(x, y)
      /\ \A x \in {a} \cup {b} \cup {c}, y \in {d} : Follows(x, y)
      /\ \A x \in {a} \cup {b} \cup {c} \cup {d}, y \in {e} : Follows(x, y)
  <2>1. /\ a.do = "document" /\ b.do = "append" /\ b.value.type = "signed" /\ c.do = "document"
        /\ d.do = "document" /\ e.do = "state" /\ c.value = None /\ d.value = None /\ e.value = "signed"
    BY DEF Deed, AppendOf, Row
  <2> HIDE DEF a, b, c, d, e
  <2>2. Follows(a, b) /\ Follows(a, c) /\ Follows(a, d) /\ Follows(a, e)
    BY <2>1 DEF Follows
  <2>3. Follows(b, c) /\ Follows(b, d) /\ Follows(b, e)
    BY <2>1, RowTypeFacts DEF Follows
  <2>4. Follows(c, d) /\ Follows(c, e) /\ Follows(d, e)
    BY <2>1 DEF Follows
  <2> QED
    BY <2>2, <2>3, <2>4
<1> HIDE DEF a, b, c, d, e
<1>5. IsPlan(Effect("document", "signoff", n, evidence) \o Add("signed", n, None), {a} \cup {b})
  BY <1>2, <1>3, <1>4, PlanThen
<1>6. IsPlan(Effect("document", "signoff", n, evidence) \o Add("signed", n, None) \o Write("binding", n),
             {a} \cup {b} \cup {c})
  BY <1>2, <1>4, <1>5, PlanThen
<1>7. IsPlan(Effect("document", "signoff", n, evidence) \o Add("signed", n, None) \o Write("binding", n)
               \o Write("policy", n), {a} \cup {b} \cup {c} \cup {d})
  BY <1>2, <1>4, <1>6, PlanThen
<1>8. IsPlan(SignWrites(n), {a} \cup {b} \cup {c} \cup {d} \cup {e})
  BY <1>2, <1>4, <1>7, PlanThen DEF SignWrites
<1> QED
  BY <1>8 DEF SignDeeds, a, b, c, d, e

LEMMA PlanEmpty == IsPlan(<< >>, {})
BY EmptySeq DEF IsPlan, InOrder, Range

Puts(p, x, n) == {Deed("output", p, n, x)}

ClearDeeds ==
    Puts("archive", "dir", 0) \cup Puts("handoff", "dir", 0) \cup Puts("archive", "zip", 0)
    \cup Puts("archive", "report", 0) \cup Puts("handoff", "zip", 0) \cup Puts("handoff", "report", 0)

\* One write of a package.
LEMMA PlanOfPut ==
    ASSUME NEW p \in Package, NEW x \in Part, NEW n \in Bad .. MaxSignoffs
    PROVE  /\ IsPlan(Put(p, x, n), Puts(p, x, n))
           /\ \A e \in Puts(p, x, n) : e.do = "output" /\ e.of = n
<1>1. Deed("output", p, n, x) \in Deeds
  BY DEF Deed, Deeds
<1> QED
  BY <1>1, PlanOfEffect DEF Put, Puts, Deed

\* _clear_current_outputs
LEMMA PlanOfClear ==
    IsPlan(ClearWrites, ClearDeeds) /\ \A e \in ClearDeeds : e.do = "output" /\ e.of = 0
<1> DEFINE Zero(S) == \A e \in S : e.do = "output" /\ e.of = 0
<1>1. 0 \in Bad .. MaxSignoffs
  BY SignoffAssumption DEF Bad
<1>2. \A p \in Package, x \in Part : IsPlan(Put(p, x, 0), Puts(p, x, 0)) /\ Zero(Puts(p, x, 0))
  BY <1>1, PlanOfPut
<1>3. /\ "archive" \in Package /\ "handoff" \in Package
      /\ "dir" \in Part /\ "zip" \in Part /\ "report" \in Part
  BY DEF Package, Part
<1>4. ASSUME NEW v, NEW S, NEW w, NEW T, IsPlan(v, S), Zero(S), IsPlan(w, T), Zero(T)
      PROVE  IsPlan(v \o w, S \cup T) /\ Zero(S \cup T)
  <2>1. \A e \in S, f \in T : Follows(e, f)
    BY <1>4 DEF Follows
  <2> QED
    BY <1>4, <2>1, PlanThen
<1> HIDE DEF Zero
<1> DEFINE v1 == Put("archive", "dir", 0) \o Put("handoff", "dir", 0)
           S1 == Puts("archive", "dir", 0) \cup Puts("handoff", "dir", 0)
           v2 == v1 \o Put("archive", "zip", 0)
           S2 == S1 \cup Puts("archive", "zip", 0)
           v3 == v2 \o Put("archive", "report", 0)
           S3 == S2 \cup Puts("archive", "report", 0)
           v4 == v3 \o Put("handoff", "zip", 0)
           S4 == S3 \cup Puts("handoff", "zip", 0)
<1>5. IsPlan(v1, S1) /\ Zero(S1)
  BY <1>2, <1>3, <1>4
<1> HIDE DEF v1, S1
<1>6. IsPlan(v2, S2) /\ Zero(S2)
  BY <1>2, <1>3, <1>4, <1>5
<1> HIDE DEF v2, S2
<1>7. IsPlan(v3, S3) /\ Zero(S3)
  BY <1>2, <1>3, <1>4, <1>6
<1> HIDE DEF v3, S3
<1>8. IsPlan(v4, S4) /\ Zero(S4)
  BY <1>2, <1>3, <1>4, <1>7
<1> HIDE DEF v4, S4
<1>9. IsPlan(v4 \o Put("handoff", "report", 0), S4 \cup Puts("handoff", "report", 0))
        /\ Zero(S4 \cup Puts("handoff", "report", 0))
  BY <1>2, <1>3, <1>4, <1>8
<1> QED
  BY <1>9 DEF ClearWrites, ClearDeeds, v4, S4, v3, S3, v2, S2, v1, S1, Zero

KeepDeeds(n) ==
    IF kept[n] = "none" THEN {Deed("keep", None, n, "part")} \cup {Deed("keep", None, n, "full")} ELSE {}

\* _preserve_current_archive
LEMMA PlanOfKeep ==
    ASSUME NEW n \in Number
    PROVE  IsPlan(KeepWrites(n), KeepDeeds(n)) /\ \A e \in KeepDeeds(n) : e.do = "keep"
<1> DEFINE a == Deed("keep", None, n, "part")
           b == Deed("keep", None, n, "full")
<1>1. a \in Deeds /\ b \in Deeds
  BY DEF Deed, Deeds
<1>2. IsPlan(Effect("keep", None, n, "part"), {a}) /\ IsPlan(Effect("keep", None, n, "full"), {b})
  BY <1>1, PlanOfEffect
<1>3. a.do = "keep" /\ b.do = "keep" /\ Follows(a, b)
  BY DEF Follows, Deed
<1> HIDE DEF a, b
<1>4. IsPlan(Effect("keep", None, n, "part") \o Effect("keep", None, n, "full"), {a} \cup {b})
  BY <1>2, <1>3, PlanThen
<1> QED
  BY <1>3, <1>4, PlanEmpty DEF KeepWrites, KeepDeeds, a, b

ResetDeeds(r, n) ==
    KeepDeeds(n) \cup {AppendOf("reset", n, r)} \cup {Deed("document", "proof", n, None)}
    \cup {Deed("request", r, n, "applied")} \cup {Deed("document", "signoff", 0, None)}
    \cup {Deed("document", "binding", 0, None)} \cup {Deed("state", None, n, "reset")} \cup ClearDeeds

\* reset_signoff
LEMMA PlanOfReset ==
    ASSUME NEW r \in Request, NEW n \in Number
    PROVE  IsPlan(ResetWrites(r, n), ResetDeeds(r, n))
<1> DEFINE b == AppendOf("reset", n, r)
           c == Deed("document", "proof", n, None)
           d == Deed("request", r, n, "applied")
           e == Deed("document", "signoff", 0, None)
           f == Deed("document", "binding", 0, None)
           g == Deed("state", None, n, "reset")
           K == KeepDeeds(n)
<1>1. c \in Deeds /\ d \in Deeds /\ e \in Deeds /\ f \in Deeds /\ g \in Deeds
  BY SignoffAssumption DEF Deed, Deeds, Document, Number
<1>2. /\ IsPlan(Write("proof", n), {c}) /\ IsPlan(Mark(r, "applied", n), {d})
      /\ IsPlan(Write("signoff", 0), {e}) /\ IsPlan(Write("binding", 0), {f})
      /\ IsPlan(WriteState("reset", n), {g})
  BY <1>1, PlanOfEffect DEF Write, WriteState, Mark
<1>3. IsPlan(Add("reset", n, r), {b})
  BY PlanOfAdd DEF RowTypes
<1>4. IsPlan(KeepWrites(n), K) /\ \A x \in K : x.do = "keep"
  BY PlanOfKeep
<1>5. /\ b.do = "append" /\ b.value.type = "reset" /\ c.do = "document" /\ d.do = "request"
      /\ e.do = "document" /\ f.do = "document" /\ g.do = "state" /\ g.value = "reset"
  BY DEF Deed, AppendOf, Row
<1> HIDE DEF b, c, d, e, f, g, K
<1>6. /\ \A x \in K, y \in {b} : Follows(x, y)
      /\ \A x \in K \cup {b}, y \in {c} : Follows(x, y)
      /\ \A x \in K \cup {b} \cup {c}, y \in {d} : Follows(x, y)
      /\ \A x \in K \cup {b} \cup {c} \cup {d}, y \in {e} : Follows(x, y)
      /\ \A x \in K \cup {b} \cup {c} \cup {d} \cup {e}, y \in {f} : Follows(x, y)
      /\ \A x \in K \cup {b} \cup {c} \cup {d} \cup {e} \cup {f}, y \in {g} : Follows(x, y)
      /\ \A x \in K \cup {b} \cup {c} \cup {d} \cup {e} \cup {f} \cup {g}, y \in ClearDeeds : Follows(x, y)
  <2>1. \A x \in K : \A y \in {b, c, d, e, f, g} \cup ClearDeeds : Follows(x, y)
    <3>1. \A x \in K : \A y \in {b, c, d, e, f, g} : Follows(x, y)
      BY <1>4, <1>5 DEF Follows
    <3>2. \A x \in K : \A y \in ClearDeeds : Follows(x, y)
      BY <1>4, PlanOfClear DEF Follows
    <3> QED
      BY <3>1, <3>2
  <2>2. \A y \in {c, d, e, f, g} \cup ClearDeeds : Follows(b, y)
    BY <1>5, RowTypeFacts, PlanOfClear DEF Follows
  <2>3. /\ \A y \in {d, e, f, g} \cup ClearDeeds : Follows(c, y)
        /\ \A y \in {f, g} \cup ClearDeeds : Follows(e, y)
        /\ \A y \in {g} \cup ClearDeeds : Follows(f, y)
    BY <1>5, PlanOfClear DEF Follows
  <2>4. /\ \A y \in {e, f, g} \cup ClearDeeds : Follows(d, y)
        /\ \A y \in ClearDeeds : Follows(g, y)
    BY <1>5, PlanOfClear DEF Follows
  <2> QED
    BY <2>1, <2>2, <2>3, <2>4
<1> DEFINE v1 == KeepWrites(n) \o Add("reset", n, r)
           v2 == v1 \o Write("proof", n)
           v3 == v2 \o Mark(r, "applied", n)
           v4 == v3 \o Write("signoff", 0)
           v5 == v4 \o Write("binding", 0)
           v6 == v5 \o WriteState("reset", n)
<1>7. IsPlan(v1, K \cup {b})
  BY <1>3, <1>4, <1>6, PlanThen
<1>8. IsPlan(v2, K \cup {b} \cup {c})
  BY <1>2, <1>6, <1>7, PlanThen
<1>9. IsPlan(v3, K \cup {b} \cup {c} \cup {d})
  BY <1>2, <1>6, <1>8, PlanThen
<1>10. IsPlan(v4, K \cup {b} \cup {c} \cup {d} \cup {e})
  BY <1>2, <1>6, <1>9, PlanThen
<1>11. IsPlan(v5, K \cup {b} \cup {c} \cup {d} \cup {e} \cup {f})
  BY <1>2, <1>6, <1>10, PlanThen
<1>12. IsPlan(v6, K \cup {b} \cup {c} \cup {d} \cup {e} \cup {f} \cup {g})
  BY <1>2, <1>6, <1>11, PlanThen
<1> HIDE DEF v6
<1>13. IsPlan(v6 \o ClearWrites, K \cup {b} \cup {c} \cup {d} \cup {e} \cup {f} \cup {g} \cup ClearDeeds)
  BY <1>6, <1>12, PlanOfClear, PlanThen
<1> QED
  BY <1>13 DEF ResetWrites, ResetDeeds, b, c, d, e, f, g, K, v1, v2, v3, v4, v5, v6

ExportDeeds(p, n) == {AppendOf(Exported(p), n, None)} \cup Puts(p, "dir", Bad) \cup Puts(p, "dir", n)

\* export_archive, export_final_handoff
LEMMA PlanOfExport ==
    ASSUME NEW p \in Package, NEW n \in Number
    PROVE  IsPlan(ExportWrites(p, n), ExportDeeds(p, n))
<1> DEFINE b == AppendOf(Exported(p), n, None)
<1>1. Bad \in Bad .. MaxSignoffs /\ n \in Bad .. MaxSignoffs /\ n # 0 /\ Bad # 0
  BY SignoffAssumption DEF Bad, Number
<1>2. IsPlan(Add(Exported(p), n, None), {b})
  BY PlanOfAdd DEF RowTypes, Exports
<1>3. /\ IsPlan(Put(p, "dir", Bad), Puts(p, "dir", Bad)) /\ IsPlan(Put(p, "dir", n), Puts(p, "dir", n))
      /\ \A e \in Puts(p, "dir", Bad) \cup Puts(p, "dir", n) : e.do = "output" /\ e.of # 0
  BY <1>1, PlanOfPut DEF Part
<1>4. b.do = "append" /\ b.value.type \in Exports
  BY RowTypeFacts DEF AppendOf, Deed, Row
<1> HIDE DEF b
<1>5. /\ \A x \in {b}, y \in Puts(p, "dir", Bad) : Follows(x, y)
      /\ \A x \in {b} \cup Puts(p, "dir", Bad), y \in Puts(p, "dir", n) : Follows(x, y)
  BY <1>3, <1>4, RowTypeFacts DEF Follows
<1>6. IsPlan(Add(Exported(p), n, None) \o Put(p, "dir", Bad), {b} \cup Puts(p, "dir", Bad))
  BY <1>2, <1>3, <1>5, PlanThen
<1>7. IsPlan(ExportWrites(p, n), {b} \cup Puts(p, "dir", Bad) \cup Puts(p, "dir", n))
  BY <1>3, <1>5, <1>6, PlanThen DEF ExportWrites
<1> QED
  BY <1>7 DEF ExportDeeds, b

BuildDeeds(p, n) ==
    (IF out[p]["dir"] = 0 THEN ExportDeeds(p, n) ELSE {})
    \cup Puts(p, "zip", Bad) \cup Puts(p, "zip", n) \cup {AppendOf(Built(p), n, None)}

\* build_archive_zip, build_final_handoff_zip
LEMMA PlanOfBuild ==
    ASSUME NEW p \in Package, NEW n \in Number
    PROVE  IsPlan(BuildWrites(p, n), BuildDeeds(p, n))
<1> DEFINE b == AppendOf(Built(p), n, None)
           v == IF out[p]["dir"] = 0 THEN ExportWrites(p, n) ELSE << >>
           S == IF out[p]["dir"] = 0 THEN ExportDeeds(p, n) ELSE {}
           Before(e) == \/ e.do = "append" /\ e.value.type \in Exports
                        \/ e.do = "output" /\ e.of # 0
<1>1. Bad \in Bad .. MaxSignoffs /\ n \in Bad .. MaxSignoffs /\ n # 0 /\ Bad # 0
  BY SignoffAssumption DEF Bad, Number
<1>2. IsPlan(Add(Built(p), n, None), {b})
  BY PlanOfAdd DEF RowTypes, Builds
<1>3. /\ IsPlan(Put(p, "zip", Bad), Puts(p, "zip", Bad)) /\ IsPlan(Put(p, "zip", n), Puts(p, "zip", n))
      /\ \A e \in Puts(p, "zip", Bad) \cup Puts(p, "zip", n) : e.do = "output" /\ e.of # 0
  BY <1>1, PlanOfPut DEF Part
<1>4. b.do = "append" /\ b.value.type \in Builds
  BY RowTypeFacts DEF AppendOf, Deed, Row
<1>5. IsPlan(v, S)
  BY PlanOfExport, PlanEmpty
<1>6. \A e \in S : Before(e)
  <2>1. AppendOf(Exported(p), n, None).do = "append" /\ AppendOf(Exported(p), n, None).value.type \in Exports
    BY RowTypeFacts DEF AppendOf, Deed, Row
  <2>2. \A e \in Puts(p, "dir", Bad) \cup Puts(p, "dir", n) : e.do = "output" /\ e.of # 0
    BY <1>1, PlanOfPut DEF Part
  <2> QED
    BY <2>1, <2>2 DEF ExportDeeds
<1> HIDE DEF b, v, S
<1>7. /\ \A x \in S, y \in Puts(p, "zip", Bad) : Follows(x, y)
      /\ \A x \in S \cup Puts(p, "zip", Bad), y \in Puts(p, "zip", n) : Follows(x, y)
      /\ \A x \in S \cup Puts(p, "zip", Bad) \cup Puts(p, "zip", n), y \in {b} : Follows(x, y)
  <2>1. ASSUME NEW x \in S, NEW y \in Puts(p, "zip", Bad) \cup Puts(p, "zip", n) \cup {b}
        PROVE  Follows(x, y)
    <3>1. \/ x.do = "append" /\ x.value.type \in Exports
          \/ x.do = "output" /\ x.of # 0
      BY <1>6
    <3>2. \/ y.do = "output" /\ y.of # 0
          \/ y.do = "append" /\ y.value.type \in Builds
      BY <1>3, <1>4
    <3> QED
      BY <3>1, <3>2, RowTypeFacts DEF Follows
  <2>2. \A x \in Puts(p, "zip", Bad) \cup Puts(p, "zip", n), y \in Puts(p, "zip", n) \cup {b} : Follows(x, y)
    BY <1>3, <1>4 DEF Follows
  <2> QED
    BY <2>1, <2>2
<1>8. IsPlan(v \o Put(p, "zip", Bad), S \cup Puts(p, "zip", Bad))
  BY <1>3, <1>5, <1>7, PlanThen
<1>9. IsPlan(v \o Put(p, "zip", Bad) \o Put(p, "zip", n), S \cup Puts(p, "zip", Bad) \cup Puts(p, "zip", n))
  BY <1>3, <1>7, <1>8, PlanThen
<1>10. IsPlan(v \o Put(p, "zip", Bad) \o Put(p, "zip", n) \o Add(Built(p), n, None),
              S \cup Puts(p, "zip", Bad) \cup Puts(p, "zip", n) \cup {b})
  BY <1>2, <1>7, <1>9, PlanThen
<1> QED
  BY <1>10 DEF BuildWrites, BuildDeeds, b, v, S

-----------------------------------------------------------------------------
(* The types, the lock and the chain                                        *)

\* What a write carries.
LEMMA DeedFacts ==
    ASSUME NEW e \in Deeds
    PROVE  /\ e.do \in {"append", "document", "state", "output", "keep", "request", "approval"}
           /\ e.do = "append" => /\ e.value \in Rows /\ e.value.of = e.of /\ e.of \in Number
           /\ e.do = "document" =>
                /\ e.what \in Document /\ e.of \in 0 .. MaxSignoffs /\ e.value \in Source \cup {None}
                /\ e.value # None => e.of \in Number /\ e.value \in Source
           /\ e.do = "state" => e.of \in Number /\ e.value \in {"signed", "reset"}
           /\ e.do = "output" => e.what \in Package /\ e.of \in Bad .. MaxSignoffs /\ e.value \in Part
           /\ e.do = "keep" => e.of \in Number /\ e.value \in {"part", "full"}
           /\ e.do = "request" =>
                e.what \in Request /\ e.of \in Number /\ e.value \in {"submitted", "approved", "applied"}
           /\ e.do = "approval" => e.what \in Request
<1>1. CASE e \in [do : {"document"}, what : Document, of : 0 .. MaxSignoffs, value : {None}]
  BY <1>1
<1>2. CASE e \in [do : {"document"}, what : {"signoff"}, of : Number, value : Source]
  BY <1>2, SignoffAssumption DEF Document, Number
<1>3. CASE e \in [do : {"state"}, what : {None}, of : Number, value : {"signed", "reset"}]
  BY <1>3
<1>4. CASE e \in [do : {"output"}, what : Package, of : Bad .. MaxSignoffs, value : Part]
  BY <1>4
<1>5. CASE e \in [do : {"keep"}, what : {None}, of : Number, value : {"part", "full"}]
  BY <1>5
<1>6. CASE e \in [do : {"request"}, what : Request, of : Number, value : {"submitted", "approved", "applied"}]
  BY <1>6
<1>7. CASE e \in [do : {"approval"}, what : Request, of : {0}, value : {None}]
  BY <1>7
<1>8. CASE e \in [do : {"append"}, what : {None}, of : Number, value : Rows] /\ e.value.of = e.of
  BY <1>8
<1> QED
  BY <1>1, <1>2, <1>3, <1>4, <1>5, <1>6, <1>7, <1>8 DEF Deeds

LEMMA HistoryType == TypeOK => history \in Seq(HistoryRow)
BY DEF TypeOK, HistoryRow, Exports, Builds

\* What the write of shape e does.
Makes(e) ==
    \/ /\ e.do = "append"
       /\ \E row \in HistoryRow :
            /\ row.type = e.value.type /\ row.type \in RowTypes /\ row.of = e.of /\ row.of \in Number
            /\ row.request = e.value.request /\ row.prev = Len(history)
            /\ history' = Append(history, row)
       /\ UNCHANGED <<file, source, state, out, kept, request, approval>>
    \/ e.do # "append" /\ Perform(e)

LEMMA StepMakes ==
    ASSUME Sound, NEW c \in Client, Step(c)
    PROVE  Makes(Shape(Head(todo[c])))
<1> DEFINE h == Head(todo[c])
<1>1. h \in Deeds /\ Perform(h) /\ todo[c] # << >>
  BY StepPends DEF Step
<1>2. h = todo[c][1] /\ 1 \in DOMAIN todo[c]
  <2>1. todo[c] \in Seq(Deeds)
    BY DEF Sound, TodoIsPlan
  <2> QED
    BY <1>1, <2>1, LenProperties, EmptySeq
<1>3. h.do = "append" => h.value.prev \in {Bad, Len(history)}
  BY <1>2 DEF Sound, LinksAreFresh
<1> HIDE DEF h
<1>4. /\ Shape(h).do = h.do /\ Shape(h).of = h.of /\ (h.do # "append" => Shape(h) = h)
      /\ (h.do = "append" => h.value \in Rows /\ h.value.of = h.of /\ Shape(h).value = [h.value EXCEPT !.prev = Bad])
  BY <1>1, ShapeFacts
<1>5. ASSUME h.do = "append" PROVE Makes(Shape(h))
  <2> DEFINE row == h.value
  <2>1. /\ row \in Rows /\ Shape(h).value.type = row.type /\ Shape(h).value.request = row.request
        /\ Shape(h).of = row.of /\ Shape(h).do = "append"
    BY <1>4, <1>5 DEF Rows
  <2>2. row.prev = Len(history) /\ history' = Append(history, row)
          /\ UNCHANGED <<file, source, state, out, kept, request, approval>>
    BY <1>1, <1>3, <1>5 DEF Perform
  <2>3. row \in HistoryRow /\ row.type \in RowTypes /\ row.of \in Number
    BY <2>1, SignoffAssumption DEF Rows, HistoryRow, RowTypes, Number
  <2> HIDE DEF row
  <2> QED
    BY <2>1, <2>2, <2>3 DEF Makes
<1>6. ASSUME h.do # "append" PROVE Makes(Shape(h))
  BY <1>1, <1>4, <1>6 DEF Makes
<1> QED
  BY <1>5, <1>6 DEF h

\* A whole row extends a whole chain; a torn one leaves it whole but for the end.
LEMMA ChainOfAppend ==
    ASSUME history \in Seq(HistoryRow), NEW row \in HistoryRow, Linked(history), history' = Append(history, row)
    PROVE  /\ row.prev = Len(history) => Linked(history')
           /\ Linked(Front(history')) /\ Last(history') = row
<1> DEFINE n == Len(history)
<1>1. /\ history' \in Seq(HistoryRow) /\ n \in Nat /\ Len(history') = n + 1
      /\ DOMAIN history = 1 .. n /\ DOMAIN history' = 1 .. n + 1
      /\ \A i \in 1 .. n : history'[i] = history[i]
      /\ history'[n + 1] = row
  BY AppendProperties, LenProperties
<1>2. Last(history') = row
  BY <1>1 DEF Last
<1>3. row.prev = n => Linked(history')
  BY <1>1 DEF Linked
<1>4. Front(history') = history
  <2>1. \A i \in 1 .. n : history'[i] \in HistoryRow
    BY <1>1, ElementOfSeq
  <2>2. Front(history') = SubSeq(history', 1, n)
    BY <1>1 DEF Front
  <2>3. /\ SubSeq(history', 1, n) \in Seq(HistoryRow)
        /\ Len(SubSeq(history', 1, n)) = IF 1 <= n THEN n - 1 + 1 ELSE 0
        /\ \A i \in 1 .. n - 1 + 1 : SubSeq(history', 1, n)[i] = history'[1 + i - 1]
    BY <1>1, <2>1, SubSeqProperties
  <2>4. Len(SubSeq(history', 1, n)) = n /\ \A i \in 1 .. n : SubSeq(history', 1, n)[i] = history[i]
    BY <1>1, <2>3
  <2> QED
    BY <1>1, <2>2, <2>3, <2>4, SeqEqual
<1> QED
  BY <1>2, <1>3, <1>4

\* A call that begins: the checks of all of them start with those of the chain.
LEMMA SoundCall ==
    ASSUME Sound, NEW c \in Client, holder = None, Linked(history),
           NEW w, NEW S, IsPlan(w, S), S # {}, Call(c, w)
    PROVE  Sound'
<1>1. /\ holder' = c /\ todo' = [todo EXCEPT ![c] = w] /\ UNCHANGED <<disk, evidence, report, cuts, losses>>
      /\ c # None
  BY SignoffAssumption DEF Call
<1>2. w \in Seq(Deeds) /\ w # << >> /\ InOrder(w) /\ DOMAIN w = 1 .. Len(w)
  <2>1. w \in Seq(Deeds) /\ InOrder(w) /\ DOMAIN w = 1 .. Len(w)
    BY LenProperties DEF IsPlan
  <2>2. w # << >>
    BY PlanEmpty DEF IsPlan
  <2> QED
    BY <2>1, <2>2
<1>3. \A i \in DOMAIN w : w[i].do = "append" => w[i].value.prev = Bad
  <2> SUFFICES ASSUME NEW i \in DOMAIN w, w[i].do = "append" PROVE w[i].value.prev = Bad
    OBVIOUS
  <2>1. w[i] \in Deeds /\ Shape(w[i]) = w[i]
    BY DEF IsPlan, Range
  <2>2. w[i].value \in Rows /\ w[i].value = [w[i].value EXCEPT !.prev = Bad]
    BY <2>1, ShapeFacts
  <2> QED
    BY <2>2 DEF Rows
<1>4. \A d \in Client : todo[d] = << >>
  BY SignoffAssumption DEF Sound, TypeOK
<1>5. \A d \in Client : todo'[d] = IF d = c THEN w ELSE << >>
  BY <1>1, <1>4 DEF Sound, TodoIsPlan
<1>6. TypeOK'
  <2>1. \A d \in Client : todo'[d] # << >> <=> holder' = d
    BY <1>1, <1>2, <1>5
  <2>2. holder' \in Client \cup {None}
    BY <1>1
  <2> QED
    BY <1>1, <2>1, <2>2 DEF Sound, TypeOK, disk
<1>7. HistoryIsChain' /\ RowsAreNumbered' /\ ReportsAreTyped'
  BY <1>1 DEF Sound, HistoryIsChain, RowsAreNumbered, ReportsAreTyped, disk
<1>8. TodoIsPlan'
  <2>1. todo' \in [Client -> Seq(Deeds)]
    BY <1>1, <1>2 DEF Sound, TodoIsPlan
  <2>2. \A d \in Client : InOrder(todo'[d])
    BY <1>2, <1>5 DEF InOrder
  <2> QED
    BY <2>1, <2>2 DEF TodoIsPlan
<1>9. LinksAreFresh'
  <2>1. Linked(history')
    BY <1>1 DEF disk
  <2>2. \A d \in Client : \A i \in DOMAIN todo'[d] : todo'[d][i].do = "append" => todo'[d][i].value.prev = Bad
    BY <1>3, <1>5
  <2> QED
    BY <2>1, <2>2 DEF LinksAreFresh
<1> QED
  BY <1>6, <1>7, <1>8, <1>9 DEF Sound

\* The call in progress is the only one with writes left.
LEMMA TodoFacts ==
    ASSUME Sound, NEW c \in Client, todo[c] # << >>
    PROVE  /\ todo[c] \in Seq(Deeds) /\ Len(todo[c]) \in Nat \ {0} /\ DOMAIN todo[c] = 1 .. Len(todo[c])
           /\ Head(todo[c]) = todo[c][1]
           /\ Tail(todo[c]) \in Seq(Deeds) /\ DOMAIN Tail(todo[c]) = 1 .. Len(todo[c]) - 1
           /\ \A i \in 1 .. Len(todo[c]) - 1 : Tail(todo[c])[i] = todo[c][i + 1]
           /\ holder = c /\ c # None /\ Linked(history) /\ InOrder(todo[c])
           /\ \A d \in Client \ {c} : todo[d] = << >>
<1>1. todo[c] \in Seq(Deeds) /\ holder = c /\ c # None /\ InOrder(todo[c])
  BY SignoffAssumption DEF Sound, TodoIsPlan, TypeOK
<1>2. Linked(history) /\ \A d \in Client \ {c} : todo[d] = << >>
  BY <1>1 DEF Sound, LinksAreFresh, TypeOK
<1>3. Len(todo[c]) \in Nat \ {0} /\ DOMAIN todo[c] = 1 .. Len(todo[c]) /\ Head(todo[c]) = todo[c][1]
  BY <1>1, LenProperties, EmptySeq
<1>4. /\ Tail(todo[c]) \in Seq(Deeds) /\ DOMAIN Tail(todo[c]) = 1 .. Len(todo[c]) - 1
      /\ \A i \in 1 .. Len(todo[c]) - 1 : Tail(todo[c])[i] = todo[c][i + 1]
  BY <1>1, HeadTailProperties, LenProperties
<1> QED
  BY <1>1, <1>2, <1>3, <1>4

\* Linking a row disturbs nothing but the row.
LEMMA SoundLink ==
    ASSUME Sound, NEW c \in Client, Link(c)
    PROVE  Sound'
<1> DEFINE w == todo[c]
           e == w[1]
           v == [w EXCEPT ![1].value.prev = Len(history)]
<1>1. /\ w \in Seq(Deeds) /\ 1 \in DOMAIN w /\ DOMAIN w = 1 .. Len(w) /\ e \in Deeds /\ e.do = "append"
      /\ holder = c /\ c # None /\ Linked(history) /\ InOrder(w)
      /\ \A d \in Client \ {c} : todo[d] = << >>
  BY TodoFacts, ElementOfSeq DEF Link
<1>2. todo' = [todo EXCEPT ![c] = v] /\ UNCHANGED <<disk, evidence, holder, report, cuts, losses>>
  BY DEF Link
<1>3. history \in Seq(HistoryRow) /\ Len(history) \in Nat
  BY HistoryType, LenProperties DEF Sound
<1>4. /\ e \in [do : {"append"}, what : {None}, of : Number, value : Rows] /\ e.value.of = e.of
  BY <1>1 DEF Deeds
<1> DEFINE r == [e.value EXCEPT !.prev = Len(history)]
           x == [e EXCEPT !.value = r]
<1>5. r \in Rows /\ r.of = e.of /\ r.type = e.value.type /\ r.prev = Len(history)
  BY <1>3, <1>4 DEF Rows
<1>6. v = [w EXCEPT ![1] = x]
  BY <1>1
<1> HIDE DEF r, v, w
<1>7. x \in [do : {"append"}, what : {None}, of : Number, value : Rows] /\ x.value = r /\ x.value.of = x.of
        /\ x.do = e.do /\ x.of = e.of
  BY <1>4, <1>5
<1>8. x \in Deeds /\ x.value.type = e.value.type /\ x.value.prev = Len(history)
  BY <1>5, <1>7 DEF Deeds
<1> HIDE DEF x, e
<1>9. /\ v \in Seq(Deeds) /\ DOMAIN v = DOMAIN w /\ Len(v) = Len(w) /\ v[1] = x
      /\ \A i \in DOMAIN w : i # 1 => v[i] = w[i]
  <2>1. w \in [1 .. Len(w) -> Deeds] /\ Len(w) \in Nat
    BY <1>1, LenProperties
  <2>2. v \in [1 .. Len(w) -> Deeds] /\ v[1] = x /\ \A i \in DOMAIN w : i # 1 => v[i] = w[i]
    BY <1>1, <1>6, <1>8, <2>1
  <2>3. v \in Seq(Deeds)
    BY <2>1, <2>2
  <2> QED
    BY <1>1, <2>2, <2>3, LenProperties
<1>10. \A d \in Client : todo'[d] = IF d = c THEN v ELSE << >>
  BY <1>1, <1>2 DEF Sound, TodoIsPlan
<1>11. InOrder(v)
  <2> SUFFICES ASSUME NEW i \in DOMAIN w, NEW j \in DOMAIN w, i < j PROVE Follows(v[i], v[j])
    BY <1>9 DEF InOrder
  <2>1. Follows(w[i], w[j]) /\ j # 1 /\ v[j] = w[j]
    BY <1>1, <1>9 DEF InOrder
  <2>2. CASE i # 1
    BY <1>9, <2>1, <2>2
  <2>3. CASE i = 1
    <3>1. w[i] = e /\ v[i] = x /\ x.do = e.do /\ x.value.type = e.value.type /\ e.do = "append"
      BY <1>1, <1>7, <1>8, <1>9, <2>3 DEF e
    <3> QED
      BY <2>1, <3>1 DEF Follows
  <2> QED
    BY <2>2, <2>3
<1>12. TypeOK'
  <2>1. \A d \in Client : todo'[d] # << >> <=> holder' = d
    <3>1. v # << >>
      BY <1>1, <1>9
    <3> QED
      BY <1>1, <1>2, <1>10, <3>1
  <2> QED
    BY <1>2, <2>1 DEF Sound, TypeOK, disk
<1>13. HistoryIsChain' /\ RowsAreNumbered' /\ ReportsAreTyped'
  BY <1>2 DEF Sound, HistoryIsChain, RowsAreNumbered, ReportsAreTyped, disk
<1>14. TodoIsPlan'
  <2>1. todo' \in [Client -> Seq(Deeds)]
    BY <1>2, <1>9 DEF Sound, TodoIsPlan
  <2>2. \A d \in Client : InOrder(todo'[d])
    BY <1>10, <1>11 DEF InOrder
  <2> QED
    BY <2>1, <2>2 DEF TodoIsPlan
<1>15. LinksAreFresh'
  <2>1. Linked(history') /\ Len(history') = Len(history)
    BY <1>1, <1>2 DEF disk
  <2>2. \A i \in DOMAIN w : i # 1 /\ w[i].do = "append" => w[i].value.prev = Bad
    BY DEF w, Sound, LinksAreFresh
  <2>3. \A i \in DOMAIN v : v[i].do = "append" => v[i].value.prev \in IF i = 1 THEN {Bad, Len(history)} ELSE {Bad}
    BY <1>8, <1>9, <2>2
  <2>4. \A d \in Client : \A i \in DOMAIN todo'[d] : d = c /\ i \in DOMAIN v /\ todo'[d][i] = v[i]
    BY <1>10
  <2> QED
    BY <2>1, <2>3, <2>4 DEF LinksAreFresh
<1> QED
  BY <1>12, <1>13, <1>14, <1>15 DEF Sound

\* What the writes do to the disk keeps its types, and the chain whole.
LEMMA SoundMakes ==
    ASSUME Sound, Linked(history), NEW e \in Deeds, Makes(e)
    PROVE  /\ history' \in Seq(HistoryRow) /\ Linked(history') /\ RowsAreNumbered'
           /\ file' \in [Document -> 0 .. MaxSignoffs] /\ source' \in [Number -> Source \cup {None}]
           /\ state' \in [status : {"none", "signed", "reset"}, of : 0 .. MaxSignoffs]
           /\ out' \in [Package -> [Part -> Bad .. MaxSignoffs]]
           /\ kept' \in [Number -> {"none", "part", "full"}]
           /\ request' \in [Request -> [status : {"none", "submitted", "approved", "applied"},
                                        of : 0 .. MaxSignoffs]]
           /\ approval' \subseteq Request
<1>0. /\ history \in Seq(HistoryRow) /\ RowsAreNumbered /\ Number \subseteq 0 .. MaxSignoffs
      /\ file \in [Document -> 0 .. MaxSignoffs] /\ source \in [Number -> Source \cup {None}]
      /\ state \in [status : {"none", "signed", "reset"}, of : 0 .. MaxSignoffs]
      /\ out \in [Package -> [Part -> Bad .. MaxSignoffs]]
      /\ kept \in [Number -> {"none", "part", "full"}]
      /\ request \in [Request -> [status : {"none", "submitted", "approved", "applied"},
                                  of : 0 .. MaxSignoffs]]
      /\ approval \subseteq Request
  BY HistoryType, SignoffAssumption DEF Sound, TypeOK, Number
<1>1. CASE e.do = "append"
  <2>1. PICK row \in HistoryRow : row.of \in Number /\ row.prev = Len(history) /\ history' = Append(history, row)
    BY <1>1 DEF Makes
  <2>2. history' \in Seq(HistoryRow) /\ Linked(history')
    BY <1>0, <2>1, ChainOfAppend, AppendProperties
  <2>3. RowsAreNumbered'
    BY <1>0, <2>1, LatestOfAppend DEF RowsAreNumbered
  <2> QED
    BY <1>0, <1>1, <2>2, <2>3 DEF Makes
<1>2. CASE e.do # "append"
  <2>0. Perform(e) /\ history' = history
    BY <1>2 DEF Makes, Perform
  <2>1. history' \in Seq(HistoryRow) /\ Linked(history') /\ RowsAreNumbered'
    BY <1>0, <2>0 DEF RowsAreNumbered
  <2>2. CASE e.do = "document"
    <3>1. /\ e.what \in Document /\ e.of \in 0 .. MaxSignoffs
          /\ e.value # None => e.of \in Number /\ e.value \in Source
      BY <2>2, DeedFacts
    <3>2. /\ file' = [file EXCEPT ![e.what] = e.of]
          /\ source' = IF e.value # None THEN [source EXCEPT ![e.of] = e.value] ELSE source
          /\ UNCHANGED <<history, state, out, kept, request, approval>>
      BY <2>0, <2>2 DEF Perform
    <3>3. file' \in [Document -> 0 .. MaxSignoffs]
      BY <1>0, <3>1, <3>2
    <3>4. source' \in [Number -> Source \cup {None}]
      <4>1. CASE e.value # None
        BY <1>0, <3>1, <3>2, <4>1
      <4>2. CASE e.value = None
        BY <1>0, <3>2, <4>2
      <4> QED
        BY <4>1, <4>2
    <3> QED
      BY <1>0, <2>1, <3>2, <3>3, <3>4
  <2>3. CASE e.do = "state"
    <3>1. e.of \in Number /\ e.value \in {"signed", "reset"}
      BY <2>3, DeedFacts
    <3>2. /\ state' = [status |-> e.value, of |-> e.of]
          /\ UNCHANGED <<history, file, source, out, kept, request, approval>>
      BY <2>0, <2>3 DEF Perform
    <3>3. state' \in [status : {"none", "signed", "reset"}, of : 0 .. MaxSignoffs]
      BY <1>0, <3>1, <3>2
    <3> QED
      BY <1>0, <2>1, <3>2, <3>3
  <2>4. CASE e.do = "output"
    <3>1. e.what \in Package /\ e.of \in Bad .. MaxSignoffs /\ e.value \in Part
      BY <2>4, DeedFacts
    <3>2. /\ out' = [out EXCEPT ![e.what] = [@ EXCEPT ![e.value] = e.of]]
          /\ UNCHANGED <<history, file, source, state, kept, request, approval>>
      BY <2>0, <2>4 DEF Perform
    <3>3. [out[e.what] EXCEPT ![e.value] = e.of] \in [Part -> Bad .. MaxSignoffs]
      BY <1>0, <3>1
    <3>4. out' \in [Package -> [Part -> Bad .. MaxSignoffs]]
      BY <1>0, <3>1, <3>2, <3>3
    <3> QED
      BY <1>0, <2>1, <3>2, <3>4
  <2>5. CASE e.do = "keep"
    BY <1>0, <2>0, <2>1, <2>5, DeedFacts DEF Perform
  <2>6. CASE e.do = "request"
    <3>1. e.what \in Request /\ e.of \in Number /\ e.value \in {"submitted", "approved", "applied"}
      BY <2>6, DeedFacts
    <3>2. /\ request' = [request EXCEPT ![e.what] = [status |-> e.value, of |-> e.of]]
          /\ UNCHANGED <<history, file, source, state, out, kept, approval>>
      BY <2>0, <2>6 DEF Perform
    <3>3. request' \in [Request -> [status : {"none", "submitted", "approved", "applied"}, of : 0 .. MaxSignoffs]]
      BY <1>0, <3>1, <3>2
    <3> QED
      BY <1>0, <2>1, <3>2, <3>3
  <2>7. CASE e.do = "approval"
    BY <1>0, <2>0, <2>1, <2>7, DeedFacts DEF Perform
  <2> QED
    BY <1>2, <2>2, <2>3, <2>4, <2>5, <2>6, <2>7, DeedFacts
<1> QED
  BY <1>1, <1>2

\* A write that a call makes.
LEMMA SoundStep ==
    ASSUME Sound, NEW c \in Client, Step(c)
    PROVE  Sound'
<1> DEFINE w == todo[c]
           n == Len(w)
           t == Tail(w)
           e == Shape(Head(w))
<1>1. /\ w \in Seq(Deeds) /\ n \in Nat \ {0} /\ DOMAIN w = 1 .. n
      /\ t \in Seq(Deeds) /\ DOMAIN t = 1 .. n - 1
      /\ \A i \in 1 .. n - 1 : t[i] = w[i + 1]
      /\ holder = c /\ c # None /\ Linked(history) /\ InOrder(w)
      /\ \A d \in Client \ {c} : todo[d] = << >>
  BY TodoFacts DEF Step
<1>2. e \in Deeds /\ Makes(e)
  BY StepPends, StepMakes
<1>3. /\ todo' = [todo EXCEPT ![c] = t] /\ holder' = (IF n = 1 THEN None ELSE c)
      /\ UNCHANGED <<evidence, report, cuts, losses>>
  BY <1>1 DEF Step
<1>4. /\ history' \in Seq(HistoryRow) /\ Linked(history') /\ RowsAreNumbered'
      /\ file' \in [Document -> 0 .. MaxSignoffs] /\ source' \in [Number -> Source \cup {None}]
      /\ state' \in [status : {"none", "signed", "reset"}, of : 0 .. MaxSignoffs]
      /\ out' \in [Package -> [Part -> Bad .. MaxSignoffs]]
      /\ kept' \in [Number -> {"none", "part", "full"}]
      /\ request' \in [Request -> [status : {"none", "submitted", "approved", "applied"},
                                   of : 0 .. MaxSignoffs]]
      /\ approval' \subseteq Request
  BY <1>1, <1>2, SoundMakes
<1> HIDE DEF e, t
<1>5. \A d \in Client : todo'[d] = IF d = c THEN t ELSE << >>
  BY <1>1, <1>3 DEF Sound, TodoIsPlan
<1> HIDE DEF w, n
<1>6. t # << >> <=> n # 1
  <2>1. Len(t) \in Nat /\ 1 .. Len(t) = 1 .. n - 1
    BY <1>1, LenProperties
  <2>2. t = << >> => Len(t) = 0
    BY EmptySeq
  <2>3. t # << >> => Len(t) # 0
    BY <1>1, EmptySeq
  <2>4. CASE n = 1
    <3>1. ~(1 \in 1 .. Len(t))
      BY <2>1, <2>4
    <3> QED
      BY <2>1, <2>3, <2>4, <3>1
  <2>5. CASE n # 1
    <3>1. 1 \in 1 .. Len(t)
      BY <1>1, <2>1, <2>5
    <3> QED
      BY <2>1, <2>2, <2>5, <3>1
  <2> QED
    BY <2>4, <2>5
<1>7. \A i \in 1 .. n - 1 : w[i + 1].do = "append" => w[i + 1].value.prev = Bad
  <2> SUFFICES ASSUME NEW i \in 1 .. n - 1, w[i + 1].do = "append" PROVE w[i + 1].value.prev = Bad
    OBVIOUS
  <2>1. i + 1 \in DOMAIN w /\ i + 1 # 1
    BY <1>1
  <2> QED
    BY <2>1 DEF w, Sound, LinksAreFresh
<1>8. InOrder(t)
  <2> SUFFICES ASSUME NEW i \in 1 .. n - 1, NEW j \in 1 .. n - 1, i < j PROVE Follows(w[i + 1], w[j + 1])
    BY <1>1 DEF InOrder
  <2>1. i + 1 \in DOMAIN w /\ j + 1 \in DOMAIN w /\ i + 1 < j + 1
    BY <1>1
  <2> QED
    BY <1>1, <2>1 DEF InOrder
<1>9. TypeOK'
  <2>1. \A d \in Client : todo'[d] # << >> <=> holder' = d
    BY <1>1, <1>3, <1>5, <1>6, SignoffAssumption
  <2>2. holder' \in Client \cup {None}
    BY <1>3
  <2> QED
    BY <1>3, <1>4, <2>1, <2>2 DEF Sound, TypeOK, HistoryRow, Exports, Builds
<1>10. HistoryIsChain' /\ RowsAreNumbered' /\ ReportsAreTyped'
  BY <1>3, <1>4 DEF Sound, HistoryIsChain, ReportsAreTyped
<1>11. TodoIsPlan'
  <2>1. todo' \in [Client -> Seq(Deeds)]
    BY <1>1, <1>3 DEF Sound, TodoIsPlan
  <2>2. \A d \in Client : InOrder(todo'[d])
    BY <1>5, <1>8 DEF InOrder
  <2> QED
    BY <2>1, <2>2 DEF TodoIsPlan
<1>12. LinksAreFresh'
  <2>1. ASSUME NEW d \in Client, NEW i \in DOMAIN todo'[d], todo'[d][i].do = "append"
        PROVE  todo'[d][i].value.prev = Bad
    <3>1. CASE d = c
      <4>1. todo'[d] = t
        BY <1>5, <3>1
      <4>2. i \in 1 .. n - 1 /\ todo'[d][i] = w[i + 1]
        BY <1>1, <2>1, <4>1
      <4> QED
        BY <1>7, <2>1, <4>2
    <3>2. CASE d # c
      <4>1. todo'[d] = << >>
        BY <1>5, <3>2
      <4>2. i \in DOMAIN << >>
        BY <2>1, <4>1
      <4> QED
        BY <4>2
    <3> QED
      BY <3>1, <3>2
  <2> QED
    BY <1>4, <2>1 DEF LinksAreFresh
<1> QED
  BY <1>9, <1>10, <1>11, <1>12 DEF Sound

\* A call that is cut short.
LEMMA SoundCut ==
    ASSUME Sound, NEW c \in Client, Cut(c)
    PROVE  /\ Sound' /\ Pending' = {} /\ cuts' = cuts + 1
           /\ UNCHANGED <<file, source, state, out, kept, request, approval, evidence, report, losses>>
           /\ \/ history' = history
              \/ \E row \in HistoryRow : row.type = "torn" /\ history' = Append(history, row)
<1>1. /\ holder = c /\ c # None /\ Linked(history) /\ \A d \in Client \ {c} : todo[d] = << >>
  BY TodoFacts DEF Cut
<1>2. /\ history \in Seq(HistoryRow) /\ RowsAreNumbered /\ cuts \in Nat /\ losses \in Nat /\ MaxFaults \in Nat
  BY HistoryType, SignoffAssumption DEF Sound, TypeOK
<1>3. /\ todo' = [todo EXCEPT ![c] = << >>] /\ holder' = None /\ cuts' = cuts + 1 /\ cuts + losses < MaxFaults
      /\ UNCHANGED <<file, source, state, out, kept, request, approval, evidence, report, losses>>
      /\ history' = history \/ history' = Append(history, Row("torn", 0, None))
  BY DEF Cut
<1>4. \A d \in Client : todo'[d] = << >>
  BY <1>1, <1>3 DEF Sound, TodoIsPlan
<1>5. Row("torn", 0, None) \in HistoryRow /\ Row("torn", 0, None).type = "torn"
  BY SignoffAssumption DEF Row, HistoryRow
<1>6. history' \in Seq(HistoryRow) /\ HistoryIsChain' /\ RowsAreNumbered'
  <2>1. CASE history' = history
    BY <1>1, <1>2, <2>1 DEF HistoryIsChain, RowsAreNumbered
  <2>2. CASE history' = Append(history, Row("torn", 0, None))
    <3>1. history' \in Seq(HistoryRow) /\ RowsAreNumbered'
      BY <1>2, <1>5, <2>2, LatestOfAppend DEF RowsAreNumbered
    <3>2. Linked(Front(history')) /\ Last(history') = Row("torn", 0, None) /\ cuts' > 0
      BY <1>1, <1>2, <1>3, <1>5, <2>2, ChainOfAppend
    <3> QED
      BY <1>5, <3>1, <3>2 DEF HistoryIsChain
  <2> QED
    BY <1>3, <2>1, <2>2
<1>7. TypeOK'
  <2>1. \A d \in Client : todo'[d] # << >> <=> holder' = d
    BY <1>3, <1>4, SignoffAssumption
  <2>2. cuts' \in Nat /\ cuts' + losses' <= MaxFaults
    BY <1>2, <1>3
  <2> QED
    BY <1>3, <1>6, <2>1, <2>2 DEF Sound, TypeOK, HistoryRow, Exports, Builds
<1>8. TodoIsPlan' /\ LinksAreFresh' /\ ReportsAreTyped'
  <2>1. todo' \in [Client -> Seq(Deeds)]
    BY <1>3, EmptySeq DEF Sound, TodoIsPlan
  <2> QED
    BY <1>3, <1>4, <2>1 DEF Sound, TodoIsPlan, LinksAreFresh, ReportsAreTyped, InOrder
<1>9. Pending' = {}
  BY <1>3 DEF Pending
<1> QED
  BY <1>3, <1>5, <1>6, <1>7, <1>8, <1>9 DEF Sound

\* A verification reads only.
LEMMA SoundVerify ==
    ASSUME Sound, NEW c \in Client, NEW p \in Package, Verify(c, p)
    PROVE  Sound' /\ Pending' = Pending /\ UNCHANGED <<disk, evidence, holder, todo, cuts, losses>>
<1>1. /\ UNCHANGED <<disk, evidence, holder, todo, cuts, losses>>
      /\ report' = [report EXCEPT ![c] = [of |-> p, result |-> IF Passes(p) THEN out[p]["zip"] ELSE Bad]]
  BY DEF Verify
<1>2. (IF Passes(p) THEN out[p]["zip"] ELSE Bad) \in Bad .. MaxSignoffs
  BY SignoffAssumption DEF Sound, TypeOK, Part, Bad
<1>3. report' \in [Client -> {None} \cup [of : Package, result : Bad .. MaxSignoffs]]
  BY <1>1, <1>2 DEF Sound, ReportsAreTyped
<1>4. \A d \in Client : report'[d] = None \/ report'[d] \in [of : Package, result : Bad .. MaxSignoffs]
  BY <1>3
<1>5. TypeOK'
  BY <1>1, <1>4 DEF Sound, TypeOK, disk
<1> QED
  BY <1>1, <1>3, <1>5 DEF Sound, HistoryIsChain, RowsAreNumbered, TodoIsPlan, LinksAreFresh, ReportsAreTyped,
                          Pending, disk

\* The report is written between the calls.
LEMMA SoundWriteReport ==
    ASSUME Sound, NEW c \in Client, WriteReport(c)
    PROVE  /\ Sound' /\ Pending = {} /\ Pending' = {}
           /\ UNCHANGED <<history, file, source, state, kept, request, approval, evidence, holder, todo,
                          cuts, losses>>
           /\ \A q \in Package, x \in {"dir", "zip"} : out'[q][x] = out[q][x]
<1>1. /\ report[c] \in [of : Package, result : Bad .. MaxSignoffs] /\ holder = None
      /\ out' = [out EXCEPT ![report[c].of] = [@ EXCEPT !["report"] = report[c].result]]
      /\ report' = [report EXCEPT ![c] = None]
      /\ UNCHANGED <<history, file, source, state, kept, request, approval, evidence, holder, todo, cuts, losses>>
  BY DEF WriteReport, Sound, TypeOK
<1> DEFINE p == report[c].of
<1>2. p \in Package /\ report[c].result \in Bad .. MaxSignoffs /\ out \in [Package -> [Part -> Bad .. MaxSignoffs]]
        /\ "report" \in Part
  BY <1>1 DEF Sound, TypeOK, Part
<1>3. [out[p] EXCEPT !["report"] = report[c].result] \in [Part -> Bad .. MaxSignoffs]
  BY <1>2
<1>4. out' \in [Package -> [Part -> Bad .. MaxSignoffs]]
  BY <1>1, <1>2, <1>3
<1>5. \A q \in Package, x \in {"dir", "zip"} : out'[q][x] = out[q][x]
  BY <1>1, <1>2 DEF Part
<1>6. report' \in [Client -> {None} \cup [of : Package, result : Bad .. MaxSignoffs]]
  BY <1>1 DEF Sound, ReportsAreTyped
<1>7. \A d \in Client : report'[d] = None \/ report'[d] \in [of : Package, result : Bad .. MaxSignoffs]
  BY <1>6
<1>8. TypeOK'
  BY <1>1, <1>4, <1>7 DEF Sound, TypeOK
<1>9. Sound'
  BY <1>1, <1>6, <1>8 DEF Sound, HistoryIsChain, RowsAreNumbered, TodoIsPlan, LinksAreFresh, ReportsAreTyped
<1> QED
  BY <1>1, <1>5, <1>9 DEF Pending

\* A deletion takes one file, or all of the history.
LEMMA SoundLose ==
    ASSUME Sound, Lose
    PROVE  /\ Sound' /\ Pending = {} /\ Pending' = {}
           /\ UNCHANGED <<source, state, kept, request, approval, evidence, report, cuts>>
           /\ losses' = losses + 1
           /\ history' = history \/ (history' = << >> /\ UNCHANGED <<file, out>>)
           /\ \A q \in Package, x \in Part : out'[q][x] \in {0, out[q][x]}
<1>1. /\ holder = None /\ losses' = losses + 1 /\ cuts + losses < MaxFaults
      /\ \/ \E f \in Document : file' = [file EXCEPT ![f] = 0] /\ UNCHANGED <<history, out>>
         \/ history' = << >> /\ UNCHANGED <<file, out>>
         \/ \E p \in Package, x \in Part :
              out' = [out EXCEPT ![p] = [@ EXCEPT ![x] = 0]] /\ UNCHANGED <<file, history>>
      /\ UNCHANGED <<source, state, kept, request, approval, evidence, holder, todo, report, cuts>>
  BY DEF Lose
<1>2. /\ history \in Seq(HistoryRow) /\ cuts \in Nat /\ losses \in Nat /\ MaxFaults \in Nat /\ 0 \in Bad .. MaxSignoffs
      /\ out \in [Package -> [Part -> Bad .. MaxSignoffs]] /\ file \in [Document -> 0 .. MaxSignoffs]
  BY HistoryType, SignoffAssumption DEF Sound, TypeOK, Bad
<1>3. /\ history' \in Seq(HistoryRow) /\ HistoryIsChain' /\ RowsAreNumbered'
      /\ history' = history \/ (history' = << >> /\ UNCHANGED <<file, out>>)
  <2>1. CASE history' = history
    BY <1>1, <1>2, <2>1 DEF Sound, HistoryIsChain, RowsAreNumbered
  <2>2. CASE history' = << >> /\ UNCHANGED <<file, out>>
    <3>1. history' \in Seq(HistoryRow) /\ DOMAIN history' = {}
      BY <2>2, EmptySeq, LenProperties
    <3> QED
      BY <2>2, <3>1 DEF HistoryIsChain, Linked, RowsAreNumbered
  <2> QED
    BY <1>1, <2>1, <2>2
<1>4. /\ out' \in [Package -> [Part -> Bad .. MaxSignoffs]]
      /\ \A q \in Package, x \in Part : out'[q][x] \in {0, out[q][x]}
  <2>1. CASE out' = out
    BY <1>2, <2>1
  <2>2. CASE \E p \in Package, x \in Part : out' = [out EXCEPT ![p] = [@ EXCEPT ![x] = 0]]
    <3>1. PICK p \in Package, x \in Part : out' = [out EXCEPT ![p] = [@ EXCEPT ![x] = 0]]
      BY <2>2
    <3>2. [out[p] EXCEPT ![x] = 0] \in [Part -> Bad .. MaxSignoffs]
      BY <1>2
    <3> QED
      BY <1>2, <3>1, <3>2
  <2> QED
    BY <1>1, <2>1, <2>2
<1>5. file' \in [Document -> 0 .. MaxSignoffs]
  BY <1>1, <1>2
<1>6. losses' \in Nat /\ cuts' + losses' <= MaxFaults
  BY <1>1, <1>2
<1>7. TypeOK'
  BY <1>1, <1>3, <1>4, <1>5, <1>6 DEF Sound, TypeOK, HistoryRow, Exports, Builds
<1>8. TodoIsPlan' /\ LinksAreFresh' /\ ReportsAreTyped'
  <2>1. \A c \in Client : todo[c] = << >>
    BY <1>1, SignoffAssumption DEF Sound, TypeOK
  <2> QED
    BY <1>1, <2>1 DEF Sound, TodoIsPlan, LinksAreFresh, ReportsAreTyped
<1> QED
  BY <1>1, <1>3, <1>4, <1>7, <1>8 DEF Sound, Pending

\* So does a rebuilt Command Center package change nothing else.
LEMMA SoundRebuild ==
    ASSUME Sound, Rebuild
    PROVE  Sound' /\ Pending = {} /\ Pending' = {} /\ UNCHANGED <<disk, report, cuts, losses>>
<1>1. /\ holder = None /\ evidence' \in Source \cup {None} /\ UNCHANGED <<disk, holder, todo, report, cuts, losses>>
  BY DEF Rebuild
<1>2. TypeOK'
  BY <1>1 DEF Sound, TypeOK, disk
<1> QED
  BY <1>1, <1>2 DEF Sound, HistoryIsChain, RowsAreNumbered, TodoIsPlan, LinksAreFresh, ReportsAreTyped, Pending, disk

\* A program without a sign-off.
LEMMA SoundInit == Init => Sound
<1> SUFFICES ASSUME Init PROVE Sound
  OBVIOUS
<1> USE DEF Init
<1>1. history = << >> /\ history \in Seq(HistoryRow) /\ DOMAIN history = {}
  BY EmptySeq, LenProperties
<1>2. \A c \in Client : todo[c] = << >> /\ report[c] = None
  OBVIOUS
<1>3. TypeOK
  <2>1. 0 \in 0 .. MaxSignoffs /\ 0 \in Bad .. MaxSignoffs /\ 0 \in Nat /\ 0 + 0 <= MaxFaults
    BY SignoffAssumption DEF Bad
  <2>2. history \in Seq([type : {"signed", "reset", "torn"} \cup {Exported(p) : p \in Package}
                                  \cup {Built(p) : p \in Package},
                         of : 0 .. MaxSignoffs, request : Request \cup {None}, prev : Nat \cup {Bad}])
    BY <1>1, EmptySeq
  <2>3. state \in [status : {"none", "signed", "reset"}, of : 0 .. MaxSignoffs]
    BY <2>1
  <2>4. out \in [Package -> [Part -> Bad .. MaxSignoffs]]
    BY <2>1
  <2>5. request \in [Request -> [status : {"none", "submitted", "approved", "applied"}, of : 0 .. MaxSignoffs]]
    BY <2>1
  <2>6. /\ file \in [Document -> 0 .. MaxSignoffs] /\ source \in [Number -> Source \cup {None}]
        /\ kept \in [Number -> {"none", "part", "full"}] /\ approval \subseteq Request
        /\ evidence \in Source \cup {None} /\ holder = None
    BY <2>1
  <2> QED
    BY <1>2, <2>1, <2>2, <2>3, <2>4, <2>5, <2>6, SignoffAssumption DEF TypeOK
<1>4. Linked(history) /\ HistoryIsChain /\ RowsAreNumbered
  BY <1>1 DEF HistoryIsChain, Linked, RowsAreNumbered
<1>5. TodoIsPlan /\ LinksAreFresh /\ ReportsAreTyped
  <2>1. todo \in [Client -> Seq(Deeds)] /\ report \in [Client -> {None} \cup [of : Package, result : Bad .. MaxSignoffs]]
    BY EmptySeq
  <2> QED
    BY <1>2, <2>1 DEF TodoIsPlan, LinksAreFresh, ReportsAreTyped, InOrder
<1> QED
  BY <1>3, <1>4, <1>5 DEF Sound

\* A call begins with the writes S before it, and writes nothing yet.
Begins(S) ==
    /\ holder = None /\ Linked(history) /\ Pending = {} /\ Pending' = S
    /\ UNCHANGED <<disk, evidence, report, cuts, losses>>

LEMMA CallBegins ==
    ASSUME Sound, NEW c \in Client, holder = None, Linked(history),
           NEW w, NEW S, IsPlan(w, S), S # {}, Call(c, w)
    PROVE  Sound' /\ Begins(S)
BY CallPends, SoundCall DEF Begins, Sound, Call

MarkDeeds(r, s, n) == {Deed("request", r, n, s)}

\* The checks of every call but signoff begin with those of _signed_context.
LEMMA SignedFacts ==
    ASSUME Sound, SignedContext
    PROVE  IsSigned /\ Bound /\ Linked(history) /\ Latest \in Number
BY LatestFacts, HistoryType DEF Sound, SignedContext, Bound

LEMMA SignBegins ==
    ASSUME Sound, NEW c \in Client, Sign(c)
    PROVE  Sound' /\ Begins(SignDeeds(NextNumber)) /\ MaySign /\ NextNumber \in Number /\ evidence \in Source
<1>1. holder = None /\ MaySign /\ evidence \in Source /\ NextNumber \in Number /\ Call(c, SignWrites(NextNumber))
  BY DEF Sign, MayEnter, Sound, TypeOK
<1>2. Linked(history)
  <2>1. history = << >> => DOMAIN history = {}
    BY EmptySeq, LenProperties, HistoryType DEF Sound
  <2> QED
    BY <1>1, <2>1 DEF MaySign, Linked
<1>3. IsPlan(SignWrites(NextNumber), SignDeeds(NextNumber)) /\ SignDeeds(NextNumber) # {}
  BY <1>1, PlanOfSign DEF SignDeeds
<1> QED
  BY <1>1, <1>2, <1>3, CallBegins

LEMMA RequestBegins ==
    ASSUME Sound, NEW c \in Client, NEW r \in Request, CreateRequest(c, r)
    PROVE  Sound' /\ Begins(MarkDeeds(r, "submitted", Latest)) /\ Latest \in Number /\ request[r].status = "none"
<1>1. /\ holder = None /\ SignedContext /\ request[r].status = "none"
      /\ Call(c, Mark(r, "submitted", Latest))
  BY DEF CreateRequest, MayEnter
<1>2. Linked(history) /\ Latest \in Number
  BY <1>1, SignedFacts
<1>3. Deed("request", r, Latest, "submitted") \in Deeds
  BY <1>2 DEF Deed, Deeds
<1>4. IsPlan(Mark(r, "submitted", Latest), MarkDeeds(r, "submitted", Latest))
  BY <1>3, PlanOfEffect DEF Mark, MarkDeeds
<1>5. MarkDeeds(r, "submitted", Latest) # {}
  BY DEF MarkDeeds
<1> QED
  BY <1>1, <1>2, <1>4, <1>5, CallBegins

ApproveDeeds(r, n) == {Deed("request", r, n, "approved")} \cup {Deed("approval", r, 0, None)}

LEMMA ApproveBegins ==
    ASSUME Sound, NEW c \in Client, NEW r \in Request, Approve(c, r)
    PROVE  /\ Sound' /\ Begins(ApproveDeeds(r, Latest)) /\ Latest \in Number
           /\ request[r] = [status |-> "submitted", of |-> Latest]
<1>1. /\ holder = None /\ SignedContext /\ request[r] = [status |-> "submitted", of |-> Latest]
      /\ Call(c, Mark(r, "approved", Latest) \o Approval(r))
  BY DEF Approve, MayEnter
<1>2. Linked(history) /\ Latest \in Number
  BY <1>1, SignedFacts
<1> DEFINE a == Deed("request", r, Latest, "approved")
           b == Deed("approval", r, 0, None)
<1>3. a \in Deeds /\ b \in Deeds
  BY <1>2 DEF Deed, Deeds
<1>4. a.do = "request" /\ b.do = "approval"
  BY DEF Deed
<1>5. IsPlan(Mark(r, "approved", Latest), {a}) /\ IsPlan(Approval(r), {b})
  BY <1>3, PlanOfEffect DEF Mark, Approval
<1> HIDE DEF a, b
<1>6. \A e \in {a}, f \in {b} : Follows(e, f)
  BY <1>4 DEF Follows
<1>7. IsPlan(Mark(r, "approved", Latest) \o Approval(r), {a} \cup {b})
  BY <1>5, <1>6, PlanThen
<1>8. ApproveDeeds(r, Latest) = {a} \cup {b} /\ ApproveDeeds(r, Latest) # {}
  BY DEF ApproveDeeds, a, b
<1> QED
  BY <1>1, <1>2, <1>7, <1>8, CallBegins

LEMMA ResetBegins ==
    ASSUME Sound, NEW c \in Client, NEW r \in Request, Reset(c, r)
    PROVE  Sound' /\ Begins(ResetDeeds(r, Latest)) /\ MayReset(r) /\ IsSigned /\ Latest \in Number
<1>1. holder = None /\ MayReset(r) /\ Call(c, ResetWrites(r, Latest))
  BY DEF Reset, MayEnter
<1>2. Linked(history) /\ IsSigned /\ Latest \in Number
  BY <1>1, SignedFacts DEF MayReset
<1>3. IsPlan(ResetWrites(r, Latest), ResetDeeds(r, Latest))
  BY <1>2, PlanOfReset
<1>4. ResetDeeds(r, Latest) # {}
  BY DEF ResetDeeds
<1> QED
  BY <1>1, <1>2, <1>3, <1>4, CallBegins

LEMMA ExportBegins ==
    ASSUME Sound, NEW c \in Client, NEW p \in Package, Export(c, p)
    PROVE  /\ Sound' /\ Begins(ExportDeeds(p, Latest)) /\ IsSigned /\ Latest \in Number
           /\ Context(p) /\ ~Recorded(Exported(p), Latest)
<1>1. holder = None /\ Context(p) /\ ~Recorded(Exported(p), Latest) /\ Call(c, ExportWrites(p, Latest))
  BY DEF Export, MayEnter
<1>2. Linked(history) /\ IsSigned /\ Latest \in Number
  BY <1>1, SignedFacts DEF Context
<1>3. IsPlan(ExportWrites(p, Latest), ExportDeeds(p, Latest))
  BY <1>2, PlanOfExport
<1>4. ExportDeeds(p, Latest) # {}
  BY DEF ExportDeeds
<1> QED
  BY <1>1, <1>2, <1>3, <1>4, CallBegins

LEMMA BuildBegins ==
    ASSUME Sound, NEW c \in Client, NEW p \in Package, Build(c, p)
    PROVE  /\ Sound' /\ Begins(BuildDeeds(p, Latest)) /\ IsSigned /\ Latest \in Number
           /\ Context(p) /\ ~Recorded(Built(p), Latest)
           /\ (out[p]["dir"] = 0) # Recorded(Exported(p), Latest)
<1>1. /\ holder = None /\ Context(p) /\ ~Recorded(Built(p), Latest) /\ Call(c, BuildWrites(p, Latest))
      /\ (out[p]["dir"] = 0) # Recorded(Exported(p), Latest)
  BY DEF Build, MayEnter
<1>2. Linked(history) /\ IsSigned /\ Latest \in Number
  BY <1>1, SignedFacts DEF Context
<1>3. IsPlan(BuildWrites(p, Latest), BuildDeeds(p, Latest))
  BY <1>2, PlanOfBuild
<1>4. BuildDeeds(p, Latest) # {}
  BY DEF BuildDeeds
<1> QED
  BY <1>1, <1>2, <1>3, <1>4, CallBegins

\* Every step keeps the types, the lock and the chain.
LEMMA SoundNext == Sound /\ [Next]_vars => Sound'
<1> SUFFICES ASSUME Sound, [Next]_vars PROVE Sound'
  OBVIOUS
<1>1. ASSUME NEW c \in Client, NEW r \in Request, CreateRequest(c, r) \/ Approve(c, r) \/ Reset(c, r) PROVE Sound'
  BY <1>1, RequestBegins, ApproveBegins, ResetBegins
<1>2. ASSUME NEW c \in Client, NEW p \in Package, Export(c, p) \/ Build(c, p) \/ Verify(c, p) PROVE Sound'
  BY <1>2, ExportBegins, BuildBegins, SoundVerify
<1>3. ASSUME NEW c \in Client, Sign(c) \/ Link(c) \/ Step(c) \/ Cut(c) \/ WriteReport(c) PROVE Sound'
  BY <1>3, SignBegins, SoundLink, SoundStep, SoundCut, SoundWriteReport
<1>4. CASE Lose \/ Rebuild
  BY <1>4, SoundLose, SoundRebuild
<1>5. CASE UNCHANGED vars
  BY <1>5 DEF vars, disk, Sound, TypeOK, HistoryIsChain, RowsAreNumbered, TodoIsPlan, LinksAreFresh, ReportsAreTyped
<1> QED
  BY <1>1, <1>2, <1>3, <1>4, <1>5 DEF Next

\* Calls of several clients never fork the chain of hashes: each whole row follows
\* the row before it, and only a call that was cut short leaves a row that breaks it.
THEOREM SignoffHistoryIsSound == Spec => []HistoryIsSound
<1>1. Sound => HistoryIsSound
  BY DEF Sound, HistoryIsSound
<1> QED
  BY SoundInit, SoundNext, <1>1, PTL DEF Spec

-----------------------------------------------------------------------------
(* The kinds of step, as far as the disk and Pending go                     *)

Rests == Pending' = Pending /\ UNCHANGED <<disk, cuts, losses>>

Reports ==
    /\ Pending = {} /\ Pending' = {}
    /\ UNCHANGED <<history, file, source, state, kept, request, approval, cuts, losses>>
    /\ \A q \in Package, x \in {"dir", "zip"} : out'[q][x] = out[q][x]

\* Only a call that would append leaves half a row.
Breaks ==
    /\ Pending' = {} /\ cuts' = cuts + 1
    /\ UNCHANGED <<file, source, state, out, kept, request, approval, losses>>
    /\ \/ history' = history
       \/ /\ \E e \in Pending : e.do = "append"
          /\ \E row \in HistoryRow : row.type = "torn" /\ history' = Append(history, row)

Loses ==
    /\ Pending = {} /\ Pending' = {} /\ UNCHANGED <<source, state, kept, request, approval, cuts>> /\ losses' = losses + 1
    /\ history' = history \/ (history' = << >> /\ UNCHANGED <<file, out>>)
    /\ \A q \in Package, x \in Part : out'[q][x] \in {0, out[q][x]}

\* One of the pending writes is made, and the others may follow it.
Writes(e) ==
    /\ e \in Deeds /\ e \in Pending /\ Makes(e)
    /\ Pending' \subseteq Pending /\ Pending \subseteq Pending' \cup {e}
    /\ \A f \in Pending' : Follows(e, f)
    /\ UNCHANGED <<cuts, losses>>

SignEnters == NextNumber \in Number /\ MaySign /\ Begins(SignDeeds(NextNumber))
RequestEnters == \E r \in Request : request[r].status = "none" /\ Begins(MarkDeeds(r, "submitted", Latest))
ApproveEnters ==
    \E r \in Request : request[r] = [status |-> "submitted", of |-> Latest] /\ Begins(ApproveDeeds(r, Latest))
ResetEnters == \E r \in Request : MayReset(r) /\ Begins(ResetDeeds(r, Latest))
ExportEnters ==
    \E p \in Package : Context(p) /\ ~Recorded(Exported(p), Latest) /\ Begins(ExportDeeds(p, Latest))
BuildEnters ==
    \E p \in Package : /\ Context(p) /\ ~Recorded(Built(p), Latest) /\ Begins(BuildDeeds(p, Latest))
                       /\ (out[p]["dir"] = 0) # Recorded(Exported(p), Latest)
SignedEnters ==
    /\ Latest \in Number /\ IsSigned /\ Bound
    /\ RequestEnters \/ ApproveEnters \/ ResetEnters \/ ExportEnters \/ BuildEnters

LEMMA PendingIsTyped ==
    ASSUME Sound
    PROVE  Pending \subseteq Deeds
<1> SUFFICES ASSUME holder # None PROVE Pending \subseteq Deeds
  BY DEF Pending
<1>1. holder \in Client /\ todo[holder] \in Seq(Deeds)
  BY DEF Sound, TypeOK, TodoIsPlan
<1>2. DOMAIN todo[holder] = 1 .. Len(todo[holder])
  BY <1>1, LenProperties
<1>3. \A i \in DOMAIN todo[holder] : todo[holder][i] \in Deeds
  BY <1>1, <1>2, ElementOfSeq
<1>4. \A i \in DOMAIN todo[holder] : Shape(todo[holder][i]) \in Deeds
  BY <1>3, ShapeFacts
<1> QED
  BY <1>4 DEF Pending

\* There are no other steps.
LEMMA StepKinds ==
    ASSUME Sound, [Next]_vars
    PROVE  /\ Sound' /\ Pending \subseteq Deeds /\ Pending' \subseteq Deeds
           /\ \/ Rests \/ Reports \/ Breaks \/ Loses \/ SignEnters \/ SignedEnters
              \/ \E e \in Deeds : Writes(e)
<1>0. Sound' /\ Pending \subseteq Deeds /\ Pending' \subseteq Deeds
  <2>1. Sound'
    BY SoundNext
  <2>2. (Sound => Pending \subseteq Deeds)'
    BY PendingIsTyped, PTL
  <2> QED
    BY <2>1, <2>2, PendingIsTyped
<1>1. ASSUME NEW c \in Client, Sign(c) PROVE SignEnters
  BY <1>1, SignBegins DEF SignEnters
<1>2. ASSUME NEW c \in Client, NEW r \in Request, CreateRequest(c, r) PROVE SignedEnters
  BY <1>2, RequestBegins, SignedFacts DEF SignedEnters, RequestEnters, CreateRequest
<1>3. ASSUME NEW c \in Client, NEW r \in Request, Approve(c, r) PROVE SignedEnters
  BY <1>3, ApproveBegins, SignedFacts DEF SignedEnters, ApproveEnters, Approve
<1>4. ASSUME NEW c \in Client, NEW r \in Request, Reset(c, r) PROVE SignedEnters
  BY <1>4, ResetBegins, SignedFacts DEF SignedEnters, ResetEnters, MayReset
<1>5. ASSUME NEW c \in Client, NEW p \in Package, Export(c, p) PROVE SignedEnters
  BY <1>5, ExportBegins, SignedFacts DEF SignedEnters, ExportEnters, Context
<1>6. ASSUME NEW c \in Client, NEW p \in Package, Build(c, p) PROVE SignedEnters
  BY <1>6, BuildBegins, SignedFacts DEF SignedEnters, BuildEnters, Context
<1>7. ASSUME NEW c \in Client, NEW p \in Package, Verify(c, p) PROVE Rests
  BY <1>7, SoundVerify DEF Rests
<1>8. ASSUME NEW c \in Client, Link(c) PROVE Rests
  BY <1>8, LinkPends DEF Rests
<1>9. ASSUME NEW c \in Client, Step(c) PROVE \E e \in Deeds : Writes(e)
  BY <1>9, StepPends, StepMakes DEF Writes, Step
<1>10. ASSUME NEW c \in Client, Cut(c) PROVE Breaks
  <2> DEFINE w == todo[c]
  <2>1. w \in Seq(Deeds) /\ 1 \in DOMAIN w /\ Head(w) = w[1] /\ holder = c /\ c # None /\ w[1] \in Deeds
    BY <1>10, TodoFacts, ElementOfSeq DEF Cut
  <2>2. Shape(w[1]) \in Pending /\ Shape(w[1]).do = w[1].do
    BY <2>1, ShapeFacts DEF Pending
  <2>3. history' = history \/ w[1].do = "append"
    BY <1>10, <2>1 DEF Cut
  <2> HIDE DEF w
  <2> QED
    BY <1>10, <2>2, <2>3, SoundCut DEF Breaks
<1>11. ASSUME NEW c \in Client, WriteReport(c) PROVE Reports
  BY <1>11, SoundWriteReport DEF Reports
<1>12. ASSUME Lose PROVE Loses
  BY <1>12, SoundLose DEF Loses
<1>13. ASSUME Rebuild PROVE Rests
  BY <1>13, SoundRebuild DEF Rests
<1>14. ASSUME UNCHANGED vars PROVE Rests
  BY <1>14 DEF vars, Rests, Pending
<1> QED
  BY <1>0, <1>1, <1>2, <1>3, <1>4, <1>5, <1>6, <1>7, <1>8, <1>9, <1>10, <1>11, <1>12, <1>13, <1>14 DEF Next

-----------------------------------------------------------------------------
(* Sign-offs and resets take turns                                          *)

SignedRows == {i \in DOMAIN history : history[i].type = "signed"}

\* There are as many sign-offs as the last one's number, and a reset for each
\* of them but the one in force.
RowsAreCounted ==
    /\ Cardinality(SignedRows) = Latest
    /\ Cardinality(Transitions) = IF IsSigned THEN 2 * Latest - 1 ELSE 2 * Latest
    /\ \A i \in DOMAIN history : history[i].type # "torn" => history[i].of <= Latest
    /\ \A i \in DOMAIN history : history[i].type = "reset" /\ IsSigned => history[i].of < Latest
    /\ \A i, j \in DOMAIN history :
          history[i].type = "reset" /\ history[j].type = "reset" /\ history[i].of = history[j].of => i = j

\* A pending sign-off is the next one; all other rows are about the sign-off in force.
AppendsAreDue ==
    \A e \in Pending : e.do = "append" =>
        IF e.value.type = "signed" THEN ~IsSigned /\ e.of = Latest + 1 ELSE IsSigned /\ e.of = Latest

Turns == RowsAreCounted /\ SignoffsTakeTurns /\ AppendsAreDue

\* The sets of rows that are counted are finite.
LEMMA RowsAreFinite ==
    ASSUME history \in Seq(HistoryRow)
    PROVE  /\ IsFiniteSet(Transitions) /\ Cardinality(Transitions) \in Nat
           /\ IsFiniteSet(SignedRows) /\ Cardinality(SignedRows) \in Nat
<1>1. Len(history) \in Nat /\ DOMAIN history = 1 .. Len(history)
  BY LenProperties
<1>2. IsFiniteSet(DOMAIN history)
  BY <1>1, FS_Interval
<1>3. Transitions \in SUBSET DOMAIN history /\ SignedRows \in SUBSET DOMAIN history
  BY DEF Transitions, SignedRows
<1> QED
  BY <1>2, <1>3, FS_Subset, FS_CardinalityType

\* A row that is due keeps the count.
LEMMA CountOfAppend ==
    ASSUME history \in Seq(HistoryRow), RowsAreNumbered, RowsAreCounted,
           NEW row \in HistoryRow, history' = Append(history, row), row.type # "torn",
           IF row.type = "signed" THEN ~IsSigned /\ row.of = Latest + 1 ELSE IsSigned /\ row.of = Latest
    PROVE  RowsAreCounted'
<1> DEFINE n == Len(history)
<1>1. /\ history' \in Seq(HistoryRow) /\ n \in Nat /\ DOMAIN history = 1 .. n
      /\ DOMAIN history' = DOMAIN history \cup {n + 1} /\ \A i \in DOMAIN history : history'[i] = history[i]
      /\ history'[n + 1] = row
      /\ row.type \in {"signed", "reset"} =>
           Transitions' = Transitions \cup {n + 1} /\ Latest' = row.of /\ (IsSigned' <=> row.type = "signed")
      /\ row.type \notin {"signed", "reset"} =>
           Transitions' = Transitions /\ Latest' = Latest /\ (IsSigned' <=> IsSigned)
  BY LatestOfAppend
<1>2. n + 1 \notin DOMAIN history
  BY <1>1
<1> HIDE DEF n
<1>3. Latest \in Nat
  BY LatestFacts, SignoffAssumption
<1>4. Cardinality(SignedRows') = Latest'
  <2>1. CASE row.type = "signed"
    <3>1. SignedRows' = SignedRows \cup {n + 1} /\ n + 1 \notin SignedRows
      BY <1>1, <1>2, <2>1 DEF SignedRows
    <3> QED
      BY <1>1, <1>3, <2>1, <3>1, RowsAreFinite, FS_AddElement DEF RowsAreCounted
  <2>2. CASE row.type # "signed"
    <3>1. SignedRows' = SignedRows
      BY <1>1, <1>2, <2>2 DEF SignedRows
    <3>2. Latest' = Latest
      BY <1>1, <2>2
    <3> QED
      BY <3>1, <3>2 DEF RowsAreCounted
  <2> QED
    BY <2>1, <2>2
<1>5. Cardinality(Transitions') = IF IsSigned' THEN 2 * Latest' - 1 ELSE 2 * Latest'
  <2>1. CASE row.type \in {"signed", "reset"}
    <3>1. n + 1 \notin Transitions
      BY <1>2 DEF Transitions
    <3>2. Cardinality(Transitions') = Cardinality(Transitions) + 1
      BY <1>1, <2>1, <3>1, RowsAreFinite, FS_AddElement
    <3> QED
      BY <1>1, <1>3, <2>1, <3>2 DEF RowsAreCounted
  <2>2. CASE row.type \notin {"signed", "reset"}
    BY <1>1, <2>2 DEF RowsAreCounted
  <2> QED
    BY <2>1, <2>2
<1>6. Latest' \in Nat /\ Latest' >= Latest /\ row.of <= Latest' /\ (row.type = "signed" => Latest' = Latest + 1)
      /\ (row.type # "signed" => Latest' = Latest)
  BY <1>1, <1>3
<1>7. \A i \in DOMAIN history : history[i].of \in Int
  <2> SUFFICES ASSUME NEW i \in DOMAIN history PROVE history[i].of \in Int
    OBVIOUS
  <2>1. history[i] \in HistoryRow
    BY <1>1, ElementOfSeq DEF n
  <2> QED
    BY <2>1 DEF HistoryRow
<1>8. \A i \in DOMAIN history' : history'[i].type # "torn" => history'[i].of <= Latest'
  BY <1>1, <1>3, <1>6, <1>7 DEF RowsAreCounted
<1>9. \A i \in DOMAIN history' : history'[i].type = "reset" /\ IsSigned' => history'[i].of < Latest'
  BY <1>1, <1>3, <1>6, <1>7 DEF RowsAreCounted
<1>10. \A i, j \in DOMAIN history' :
          history'[i].type = "reset" /\ history'[j].type = "reset" /\ history'[i].of = history'[j].of => i = j
  <2>1. \A i \in DOMAIN history : history[i].type = "reset" /\ row.type = "reset" => history[i].of # row.of
    BY <1>3, <1>7 DEF RowsAreCounted
  <2> QED
    BY <1>1, <2>1 DEF RowsAreCounted
<1> QED
  BY <1>4, <1>5, <1>8, <1>9, <1>10 DEF RowsAreCounted

\* It is also the row whose turn it is.
LEMMA TurnOfAppend ==
    ASSUME history \in Seq(HistoryRow), RowsAreNumbered, RowsAreCounted, SignoffsTakeTurns,
           NEW row \in HistoryRow, history' = Append(history, row),
           row.type = "signed" => ~IsSigned /\ row.of = Latest + 1,
           row.type = "reset" => IsSigned /\ row.of = Latest
    PROVE  SignoffsTakeTurns'
<1> DEFINE n == Len(history)
<1>1. /\ n \in Nat /\ DOMAIN history = 1 .. n /\ \A i \in DOMAIN history : history'[i] = history[i]
      /\ history'[n + 1] = row
      /\ Transitions' = IF row.type \in {"signed", "reset"} THEN Transitions \cup {n + 1} ELSE Transitions
  BY LatestOfAppend
<1>2. Transitions \subseteq 1 .. n /\ Latest \in Nat
  BY <1>1, LatestFacts, SignoffAssumption DEF Transitions
<1> HIDE DEF n
<1>3. SUFFICES ASSUME NEW i \in Transitions'
               PROVE  LET before == Cardinality({j \in Transitions' : j < i}) IN
                      /\ history'[i].type = IF before % 2 = 0 THEN "signed" ELSE "reset"
                      /\ history'[i].of = before \div 2 + 1
  BY DEF SignoffsTakeTurns
<1>4. CASE i \in Transitions
  <2>1. i \in 1 .. n /\ history'[i] = history[i]
    BY <1>1, <1>2, <1>4
  <2>2. \A j : (j \in Transitions' /\ j < i) <=> (j \in Transitions /\ j < i)
    BY <1>1, <2>1
  <2>3. {j \in Transitions' : j < i} = {j \in Transitions : j < i}
    BY <2>2
  <2> QED
    BY <1>4, <2>1, <2>3 DEF SignoffsTakeTurns
<1>5. CASE i \notin Transitions
  <2>1. i = n + 1 /\ row.type \in {"signed", "reset"} /\ history'[i] = row
    BY <1>1, <1>3, <1>5
  <2>2. {j \in Transitions' : j < i} = Transitions
    <3>1. \A j \in Transitions : j \in Transitions' /\ j < i
      BY <1>1, <1>2, <2>1
    <3>2. \A j \in Transitions' : j < i => j \in Transitions
      BY <1>1, <2>1
    <3> QED
      BY <3>1, <3>2
  <2>3. Cardinality(Transitions) = IF row.type = "signed" THEN 2 * Latest ELSE 2 * Latest - 1
    BY <2>1 DEF RowsAreCounted
  <2>4. /\ (2 * Latest) % 2 = 0 /\ (2 * Latest) \div 2 = Latest
        /\ (2 * Latest - 1) % 2 = 1 /\ (2 * Latest - 1) \div 2 = Latest - 1
    BY <1>2
  <2>5. CASE row.type = "signed"
    BY <1>2, <2>1, <2>2, <2>3, <2>4, <2>5
  <2>6. CASE row.type = "reset"
    <3>1. Cardinality({j \in Transitions' : j < i}) = 2 * Latest - 1 /\ row.of = Latest
      BY <2>2, <2>3, <2>6
    <3> DEFINE before == Cardinality({j \in Transitions' : j < i})
    <3>2. before % 2 = 1 /\ before \div 2 + 1 = Latest
      BY <1>2, <2>4, <3>1
    <3> HIDE DEF before
    <3>3. history'[i].type = (IF before % 2 = 0 THEN "signed" ELSE "reset") /\ history'[i].of = before \div 2 + 1
      BY <2>1, <2>6, <3>1, <3>2
    <3> QED
      BY <3>3 DEF before
  <2> QED
    BY <2>1, <2>5, <2>6
<1> QED
  BY <1>4, <1>5

\* A torn row is not counted.
LEMMA TurnsOfTorn ==
    ASSUME history \in Seq(HistoryRow), RowsAreNumbered, RowsAreCounted, SignoffsTakeTurns,
           NEW row \in HistoryRow, history' = Append(history, row), row.type = "torn"
    PROVE  RowsAreCounted' /\ SignoffsTakeTurns'
<1> DEFINE n == Len(history)
<1>1. /\ n \in Nat /\ DOMAIN history = 1 .. n
      /\ DOMAIN history' = DOMAIN history \cup {n + 1} /\ \A i \in DOMAIN history : history'[i] = history[i]
      /\ history'[n + 1] = row /\ Transitions' = Transitions /\ Latest' = Latest /\ (IsSigned' <=> IsSigned)
  BY LatestOfAppend
<1>2. SignedRows' = SignedRows
  BY <1>1 DEF SignedRows
<1>3. SignoffsTakeTurns'
  BY TurnOfAppend
<1> QED
  BY <1>1, <1>2, <1>3 DEF RowsAreCounted

\* An empty history has no turns.
LEMMA TurnsOfEmpty ==
    ASSUME history = << >>
    PROVE  RowsAreCounted /\ SignoffsTakeTurns /\ Transitions = {} /\ Latest = 0 /\ ~IsSigned
<1>1. DOMAIN history = {}
  BY EmptySeq, LenProperties
<1>2. Transitions = {} /\ SignedRows = {}
  BY <1>1 DEF Transitions, SignedRows
<1>3. Latest = 0 /\ ~IsSigned
  BY <1>2 DEF Latest, IsSigned
<1> QED
  BY <1>1, <1>2, <1>3, FS_EmptySet DEF RowsAreCounted, SignoffsTakeTurns

\* What the history decides stays while the history does.
LEMMA SameHistory ==
    ASSUME history' = history
    PROVE  /\ Transitions' = Transitions /\ SignedRows' = SignedRows
           /\ Latest' = Latest /\ (IsSigned' <=> IsSigned)
           /\ (RowsAreCounted => RowsAreCounted') /\ (SignoffsTakeTurns => SignoffsTakeTurns')
<1>1. Transitions' = Transitions /\ SignedRows' = SignedRows
  BY DEF Transitions, SignedRows
<1>2. LatestRow' = LatestRow
  BY <1>1 DEF LatestRow
<1>3. Latest' = Latest /\ (IsSigned' <=> IsSigned)
  BY <1>1, <1>2 DEF Latest, IsSigned
<1> QED
  BY <1>1, <1>3 DEF RowsAreCounted, SignoffsTakeTurns

\* A program that may be signed is unsigned.
LEMMA MaySignFacts ==
    ASSUME Sound, MaySign
    PROVE  ~IsSigned /\ \A p \in Package, x \in Part : out[p][x] = 0
<1>1. history \in Seq(HistoryRow) /\ RowsAreNumbered
  BY HistoryType DEF Sound
<1>2. \A p \in Package, x \in Part : out[p][x] = 0
  BY DEF MaySign, Outputs
<1>3. CASE history = << >>
  BY <1>2, <1>3, TurnsOfEmpty
<1>4. CASE history # << >> /\ Last(history).type = "reset"
  <2> DEFINE n == Len(history)
             T == Transitions
  <2>1. n \in Nat \ {0} /\ DOMAIN history = 1 .. n /\ history[n].type = "reset"
    BY <1>1, <1>4, LenProperties, EmptySeq DEF Last
  <2>2. n \in T /\ T \subseteq 1 .. n
    BY <2>1 DEF Transitions
  <2>3. Max(T) \in T /\ (\A i \in T : i <= Max(T)) /\ LatestRow = history[Max(T)]
    BY <1>1, <2>2, LatestFacts
  <2> HIDE DEF n, T
  <2>4. Max(T) = n
    <3>1. Max(T) \in 1 .. n /\ n <= Max(T)
      BY <2>2, <2>3
    <3> QED
      BY <2>1, <3>1
  <2> QED
    BY <1>2, <2>1, <2>3, <2>4 DEF IsSigned
<1> QED
  BY <1>2, <1>3, <1>4 DEF MaySign

\* What the calls have before them when they begin.
LEMMA SignDeedFacts ==
    ASSUME NEW n, NEW e \in SignDeeds(n)
    PROVE  /\ e.do \in {"document", "append", "state"}
           /\ e.do = "append" => e.value.type = "signed" /\ e.of = n
BY DEF SignDeeds, Deed, AppendOf, Row

LEMMA ResetDeedFacts ==
    ASSUME NEW r, NEW n, NEW e \in ResetDeeds(r, n)
    PROVE  /\ e.do = "append" => e.value.type = "reset" /\ e.of = n /\ e.value.request = r
           /\ e.do = "keep" => e \in KeepDeeds(n)
           /\ e.do = "request" => e.what = r /\ e.of = n /\ e.value = "applied"
           /\ e.do = "output" => e.of = 0
<1>1. CASE e \in KeepDeeds(n)
  <2>1. e.do = "keep"
    BY <1>1 DEF KeepDeeds, Deed
  <2> QED
    BY <1>1, <2>1
<1>2. CASE e \in ClearDeeds
  <2>1. e.do = "output" /\ e.of = 0
    BY <1>2, PlanOfClear
  <2> QED
    BY <2>1
<1>3. CASE e = AppendOf("reset", n, r)
  <2>1. e.do = "append" /\ e.value.type = "reset" /\ e.of = n /\ e.value.request = r
    BY <1>3 DEF AppendOf, Deed, Row
  <2> QED
    BY <2>1
<1>4. CASE e = Deed("request", r, n, "applied")
  <2>1. e.do = "request" /\ e.what = r /\ e.of = n /\ e.value = "applied"
    BY <1>4 DEF Deed
  <2> QED
    BY <2>1
<1>5. CASE e \in {Deed("document", "proof", n, None), Deed("document", "signoff", 0, None),
                  Deed("document", "binding", 0, None), Deed("state", None, n, "reset")}
  <2>1. e.do \in {"document", "state"}
    BY <1>5 DEF Deed
  <2> QED
    BY <2>1
<1> QED
  BY <1>1, <1>2, <1>3, <1>4, <1>5 DEF ResetDeeds

LEMMA ExportDeedFacts ==
    ASSUME NEW p, NEW n, NEW e \in ExportDeeds(p, n)
    PROVE  /\ e.do \in {"append", "output"}
           /\ e.do = "append" => e.value.type = Exported(p) /\ e.of = n
           /\ e.do = "output" => e.what = p /\ e.of \in {Bad, n}
<1>1. CASE e = AppendOf(Exported(p), n, None)
  <2>1. e.do = "append" /\ e.value.type = Exported(p) /\ e.of = n
    BY <1>1 DEF AppendOf, Deed, Row
  <2> QED
    BY <2>1
<1>2. CASE e \in Puts(p, "dir", Bad) \cup Puts(p, "dir", n)
  <2>1. e.do = "output" /\ e.what = p /\ e.of \in {Bad, n}
    BY <1>2 DEF Puts, Deed
  <2> QED
    BY <2>1
<1> QED
  BY <1>1, <1>2 DEF ExportDeeds

LEMMA BuildDeedFacts ==
    ASSUME NEW p, NEW n, NEW e \in BuildDeeds(p, n)
    PROVE  /\ e.do \in {"append", "output"}
           /\ e.do = "append" =>
                /\ e.of = n
                /\ e.value.type = Built(p) \/ (e.value.type = Exported(p) /\ out[p]["dir"] = 0)
           /\ e.do = "output" => e.what = p /\ e.of \in {Bad, n}
<1>1. CASE e = AppendOf(Built(p), n, None)
  <2>1. e.do = "append" /\ e.value.type = Built(p) /\ e.of = n
    BY <1>1 DEF AppendOf, Deed, Row
  <2> QED
    BY <2>1
<1>2. CASE e \in Puts(p, "zip", Bad) \cup Puts(p, "zip", n)
  <2>1. e.do = "output" /\ e.what = p /\ e.of \in {Bad, n}
    BY <1>2 DEF Puts, Deed
  <2> QED
    BY <2>1
<1>3. CASE out[p]["dir"] = 0 /\ e \in ExportDeeds(p, n)
  BY <1>3, ExportDeedFacts
<1> QED
  BY <1>1, <1>2, <1>3 DEF BuildDeeds

\* The rows of a call that begins under a sign-off are about it.
LEMMA SignedEntersFacts ==
    ASSUME SignedEnters
    PROVE  /\ holder = None /\ Pending = {} /\ UNCHANGED <<disk, cuts, losses>>
           /\ \A e \in Pending' : e.do = "append" => e.of = Latest /\ e.value.type \in {"reset"} \cup Exports \cup Builds
<1>1. ASSUME RequestEnters \/ ApproveEnters
      PROVE  Begins(Pending') /\ \A e \in Pending' : e.do # "append"
  BY <1>1 DEF RequestEnters, ApproveEnters, Begins, MarkDeeds, ApproveDeeds, Deed
<1>2. ASSUME ResetEnters
      PROVE  Begins(Pending') /\ \A e \in Pending' : e.do = "append" => e.of = Latest /\ e.value.type = "reset"
  BY <1>2, ResetDeedFacts DEF ResetEnters, Begins
<1>3. ASSUME ExportEnters
      PROVE  Begins(Pending') /\ \A e \in Pending' : e.do = "append" => e.of = Latest /\ e.value.type \in Exports
  <2>1. PICK p \in Package : Begins(ExportDeeds(p, Latest))
    BY <1>3 DEF ExportEnters
  <2>2. Pending' = ExportDeeds(p, Latest) /\ Begins(Pending')
    BY <2>1 DEF Begins
  <2>3. \A e \in Pending' : e.do = "append" => e.of = Latest /\ e.value.type = Exported(p)
    BY <2>2, ExportDeedFacts
  <2> QED
    BY <2>2, <2>3, RowTypeFacts
<1>4. ASSUME BuildEnters
      PROVE  Begins(Pending') /\ \A e \in Pending' : e.do = "append" => e.of = Latest /\ e.value.type \in Exports \cup Builds
  <2>1. PICK p \in Package : Begins(BuildDeeds(p, Latest))
    BY <1>4 DEF BuildEnters
  <2>2. Pending' = BuildDeeds(p, Latest) /\ Begins(Pending')
    BY <2>1 DEF Begins
  <2>3. \A e \in Pending' : e.do = "append" => e.of = Latest /\ e.value.type \in {Built(p), Exported(p)}
    BY <2>2, BuildDeedFacts
  <2> QED
    BY <2>2, <2>3, RowTypeFacts
<1> QED
  BY <1>1, <1>2, <1>3, <1>4 DEF SignedEnters, Begins

\* Nobody signs out of turn.
LEMMA TurnsNext ==
    ASSUME Sound, Turns, [Next]_vars
    PROVE  Turns'
<1>1. history \in Seq(HistoryRow) /\ RowsAreNumbered /\ Pending \subseteq Deeds
  BY HistoryType, PendingIsTyped DEF Sound
<1>2. CASE Rests \/ Reports
  BY <1>2, SameHistory DEF Turns, AppendsAreDue, Rests, Reports, disk
<1>3. CASE Breaks
  <2>1. Pending' = {} /\ (history' = history \/ \E row \in HistoryRow : row.type = "torn" /\ history' = Append(history, row))
    BY <1>3 DEF Breaks
  <2>2. RowsAreCounted' /\ SignoffsTakeTurns'
    BY <1>1, <2>1, SameHistory, TurnsOfTorn DEF Turns
  <2> QED
    BY <2>1, <2>2 DEF Turns, AppendsAreDue
<1>4. CASE Loses
  <2>1. Pending' = {} /\ (history' = history \/ history' = << >>)
    BY <1>4 DEF Loses
  <2>2. (history = << >> => RowsAreCounted /\ SignoffsTakeTurns)'
    BY TurnsOfEmpty, PTL
  <2> QED
    BY <2>1, <2>2, SameHistory DEF Turns, AppendsAreDue
<1>5. CASE SignEnters
  <2>1. Pending' = SignDeeds(NextNumber) /\ history' = history
    BY <1>5 DEF SignEnters, Begins, disk
  <2>2. NextNumber = Latest + 1 /\ ~IsSigned
    BY <1>5, MaySignFacts DEF SignEnters, NextNumber, SignedRows, Turns, RowsAreCounted
  <2>3. AppendsAreDue'
    BY <2>1, <2>2, SameHistory, SignDeedFacts DEF AppendsAreDue
  <2> QED
    BY <2>1, <2>3, SameHistory DEF Turns
<1>6. CASE SignedEnters
  <2>1. history' = history /\ IsSigned
    BY <1>6, SignedEntersFacts DEF SignedEnters, disk
  <2>2. \A e \in Pending' : e.do = "append" => e.of = Latest /\ e.value.type # "signed"
    BY <1>6, SignedEntersFacts, RowTypeFacts
  <2> QED
    BY <2>1, <2>2, SameHistory DEF Turns, AppendsAreDue
<1>7. ASSUME NEW e \in Deeds, Writes(e) PROVE Turns'
  <2>0. e \in Pending /\ Makes(e) /\ Pending' \subseteq Pending /\ \A f \in Pending' : Follows(e, f)
    BY <1>7 DEF Writes
  <2>1. CASE e.do # "append"
    <3>1. history' = history
      BY <2>0, <2>1 DEF Makes, Perform
    <3> QED
      BY <2>0, <3>1, SameHistory DEF Turns, AppendsAreDue
  <2>2. CASE e.do = "append"
    <3>1. PICK row \in HistoryRow :
            /\ row.type = e.value.type /\ row.type \in RowTypes /\ row.of = e.of
            /\ history' = Append(history, row)
      BY <2>0, <2>2 DEF Makes
    <3>2. IF row.type = "signed" THEN ~IsSigned /\ row.of = Latest + 1 ELSE IsSigned /\ row.of = Latest
      BY <2>0, <2>2, <3>1 DEF Turns, AppendsAreDue
    <3>3. row.type # "torn"
      BY <3>1, RowTypeFacts DEF RowTypes
    <3>4. RowsAreCounted' /\ SignoffsTakeTurns'
      BY <1>1, <3>1, <3>2, <3>3, CountOfAppend, TurnOfAppend DEF Turns
    <3>5. \A f \in Pending' : f.do = "append" => f.value.type \in Builds /\ e.value.type \in Exports
      BY <2>0, <2>2, <3>1 DEF Follows, RowTypes
    <3>6. CASE e.value.type \in Exports
      <4>1. Latest' = Latest /\ (IsSigned' <=> IsSigned)
        BY <1>1, <3>1, <3>6, LatestOfAppend, RowTypeFacts
      <4> QED
        BY <2>0, <3>4, <4>1 DEF Turns, AppendsAreDue
    <3>7. CASE e.value.type \notin Exports
      BY <3>4, <3>5, <3>7 DEF Turns, AppendsAreDue
    <3> QED
      BY <3>6, <3>7
  <2> QED
    BY <2>1, <2>2
<1> QED
  BY <1>2, <1>3, <1>4, <1>5, <1>6, <1>7, StepKinds

LEMMA TurnsInit == Init => Turns
<1> SUFFICES ASSUME Init PROVE Turns
  OBVIOUS
<1>1. history = << >> /\ Pending = {}
  BY DEF Init, Pending
<1> QED
  BY <1>1, TurnsOfEmpty DEF Turns, AppendsAreDue

\* Sign-offs and resets take turns, each reset withdrawing the sign-off before it, whatever is
\* deleted, cut short or done by other clients.
THEOREM SignoffTurns == Spec => []SignoffsTakeTurns
<1>1. Sound /\ Turns /\ [Next]_vars => (Sound /\ Turns)'
  BY SoundNext, TurnsNext
<1>2. Turns => SignoffsTakeTurns
  BY DEF Turns
<1> QED
  BY SoundInit, TurnsInit, <1>1, <1>2, PTL DEF Spec

-----------------------------------------------------------------------------
(* A reset is authorised by a request of its own                            *)

\* A pending reset's request is approved; a pending mark is the next of its request.
RequestsAreDue ==
    \A e \in Pending :
        /\ e.do = "append" /\ e.value.type = "reset" =>
             /\ e.value.request \in approval
             /\ e.value.request \in Request /\ request[e.value.request] = [status |-> "approved", of |-> e.of]
        /\ e.do = "request" =>
             /\ e.value = "submitted" => request[e.what].status = "none"
             /\ e.value = "approved" => request[e.what].status = "submitted"
             /\ e.value = "applied" => request[e.what] = [status |-> "approved", of |-> e.of]

\* The request of a recorded reset stays approved for the sign-off it withdrew.
ResetsAreApproved ==
    \A i \in DOMAIN history : history[i].type = "reset" =>
        /\ history[i].request \in approval /\ history[i].request \in Request
        /\ request[history[i].request].of = history[i].of
        /\ request[history[i].request].status \in {"approved", "applied"}

Authorised == RequestsAreDue /\ ResetsAreApproved

LEMMA AuthorisedNext ==
    ASSUME Sound, Authorised, [Next]_vars
    PROVE  Authorised'
<1>1. /\ history \in Seq(HistoryRow) /\ RowsAreNumbered /\ Pending \subseteq Deeds
      /\ request \in [Request -> [status : {"none", "submitted", "approved", "applied"}, of : 0 .. MaxSignoffs]]
      /\ approval \subseteq Request
  BY HistoryType, PendingIsTyped DEF Sound, TypeOK
<1>2. CASE Rests
  BY <1>2 DEF Rests, Authorised, RequestsAreDue, ResetsAreApproved, disk
<1>3. CASE Reports
  BY <1>3 DEF Reports, Authorised, RequestsAreDue, ResetsAreApproved
<1>4. CASE Breaks
  <2>1. Pending' = {} /\ UNCHANGED <<request, approval>>
    BY <1>4 DEF Breaks
  <2>2. CASE history' = history
    BY <2>1, <2>2 DEF Authorised, RequestsAreDue, ResetsAreApproved
  <2>3. CASE \E row \in HistoryRow : row.type = "torn" /\ history' = Append(history, row)
    <3>1. PICK row \in HistoryRow : row.type = "torn" /\ history' = Append(history, row)
      BY <2>3
    <3>2. \A i \in DOMAIN history' :
             (i \in DOMAIN history /\ history'[i] = history[i]) \/ history'[i].type = "torn"
      BY <1>1, <3>1, LatestOfAppend
    <3> QED
      BY <2>1, <3>2 DEF Authorised, RequestsAreDue, ResetsAreApproved
  <2> QED
    BY <1>4, <2>2, <2>3 DEF Breaks
<1>5. CASE Loses
  <2>1. history' = << >> => DOMAIN history' = {}
    BY EmptySeq, LenProperties
  <2> QED
    BY <1>5, <2>1 DEF Loses, Authorised, RequestsAreDue, ResetsAreApproved
<1>6. CASE SignEnters \/ SignedEnters
  <2>1. UNCHANGED disk
    BY <1>6, SignedEntersFacts DEF SignEnters, Begins
  <2>2. ResetsAreApproved'
    BY <2>1 DEF Authorised, ResetsAreApproved, disk
  <2>3. CASE SignEnters
    <3>1. Pending' = SignDeeds(NextNumber)
      BY <2>3 DEF SignEnters, Begins
    <3>2. \A e \in Pending' : e.do # "request" /\ (e.do = "append" => e.value.type # "reset")
      BY <3>1, SignDeedFacts
    <3> QED
      BY <2>2, <3>2 DEF Authorised, RequestsAreDue
  <2>4. CASE RequestEnters
    <3>1. PICK r \in Request : request[r].status = "none" /\ Pending' = MarkDeeds(r, "submitted", Latest)
      BY <2>4 DEF RequestEnters, Begins
    <3>2. \A e \in Pending' : e.do = "request" /\ e.what = r /\ e.value = "submitted"
      BY <3>1 DEF MarkDeeds, Deed
    <3> QED
      BY <2>1, <2>2, <3>1, <3>2 DEF Authorised, RequestsAreDue, disk
  <2>5. CASE ApproveEnters
    <3>1. PICK r \in Request : /\ request[r] = [status |-> "submitted", of |-> Latest]
                               /\ Pending' = ApproveDeeds(r, Latest)
      BY <2>5 DEF ApproveEnters, Begins
    <3>2. \A e \in Pending' : \/ e.do = "request" /\ e.what = r /\ e.value = "approved"
                              \/ e.do = "approval"
      BY <3>1 DEF ApproveDeeds, Deed
    <3>3. request[r].status = "submitted"
      BY <3>1
    <3> QED
      BY <2>1, <2>2, <3>2, <3>3 DEF Authorised, RequestsAreDue, disk
  <2>6. CASE ResetEnters
    <3>1. PICK r \in Request : MayReset(r) /\ Pending' = ResetDeeds(r, Latest)
      BY <2>6 DEF ResetEnters, Begins
    <3>2. r \in approval /\ request[r] = [status |-> "approved", of |-> Latest]
      BY <3>1 DEF MayReset
    <3>3. \A e \in Pending' : /\ e.do = "append" => e.of = Latest /\ e.value.request = r
                              /\ e.do = "request" => e.what = r /\ e.of = Latest /\ e.value = "applied"
      BY <3>1, ResetDeedFacts
    <3> QED
      BY <2>1, <2>2, <3>2, <3>3 DEF Authorised, RequestsAreDue, disk
  <2>7. CASE ExportEnters \/ BuildEnters
    <3>1. \A e \in Pending' : e.do \in {"append", "output"}
      BY <2>7, ExportDeedFacts, BuildDeedFacts DEF ExportEnters, BuildEnters, Begins
    <3>2. \A e \in Pending' : e.do = "append" => e.value.type # "reset"
      <4>1. CASE ExportEnters
        <5>1. PICK p \in Package : Pending' = ExportDeeds(p, Latest)
          BY <4>1 DEF ExportEnters, Begins
        <5> QED
          BY <5>1, ExportDeedFacts, RowTypeFacts DEF Package
      <4>2. CASE BuildEnters
        <5>1. PICK p \in Package : Pending' = BuildDeeds(p, Latest)
          BY <4>2 DEF BuildEnters, Begins
        <5> QED
          BY <5>1, BuildDeedFacts, RowTypeFacts DEF Package
      <4> QED
        BY <2>7, <4>1, <4>2
    <3> QED
      BY <2>2, <3>1, <3>2 DEF Authorised, RequestsAreDue
  <2> QED
    BY <1>6, <2>3, <2>4, <2>5, <2>6, <2>7 DEF SignedEnters
<1>7. ASSUME NEW e \in Deeds, Writes(e) PROVE Authorised'
  <2>0. e \in Pending /\ Makes(e) /\ Pending' \subseteq Pending /\ \A f \in Pending' : Follows(e, f)
    BY <1>7 DEF Writes
  <2>1. CASE e.do = "append"
    <3>1. UNCHANGED <<request, approval>>
      BY <2>0, <2>1 DEF Makes
    <3>2. PICK row \in HistoryRow :
            /\ row.type = e.value.type /\ row.of = e.of /\ row.request = e.value.request
            /\ history' = Append(history, row)
      BY <2>0, <2>1 DEF Makes
    <3>3. \A i \in DOMAIN history' :
             (i \in DOMAIN history /\ history'[i] = history[i]) \/ history'[i] = row
      BY <1>1, <3>2, LatestOfAppend
    <3>4. row.type = "reset" =>
            /\ row.request \in approval /\ row.request \in Request
            /\ request[row.request].of = row.of /\ request[row.request].status = "approved"
      <4>1. row.type = "reset" =>
              /\ row.request \in approval /\ row.request \in Request
              /\ request[row.request] = [status |-> "approved", of |-> row.of]
        BY <2>0, <2>1, <3>2 DEF Authorised, RequestsAreDue
      <4> QED
        BY <4>1
    <3>5. ResetsAreApproved'
      BY <3>1, <3>3, <3>4 DEF Authorised, ResetsAreApproved
    <3>6. RequestsAreDue'
      BY <2>0, <3>1 DEF Authorised, RequestsAreDue
    <3> QED
      BY <3>5, <3>6 DEF Authorised
  <2>2. CASE e.do = "request"
    <3>1. /\ request' = [request EXCEPT ![e.what] = [status |-> e.value, of |-> e.of]]
          /\ UNCHANGED <<history, approval>>
      BY <2>0, <2>2 DEF Makes, Perform
    <3>2. e.what \in Request /\ e.value \in {"submitted", "approved", "applied"}
      BY <2>2, DeedFacts
    <3>3. \A f \in Pending' : f.do # "append" /\ f.do # "request"
      BY <2>0, <2>2 DEF Follows
    <3>4. RequestsAreDue'
      BY <3>3 DEF RequestsAreDue
    <3>5. ResetsAreApproved'
      <4> SUFFICES ASSUME NEW i \in DOMAIN history, history[i].type = "reset"
                   PROVE  /\ request'[history[i].request].of = history[i].of
                          /\ request'[history[i].request].status \in {"approved", "applied"}
        BY <3>1 DEF Authorised, ResetsAreApproved
      <4> DEFINE r == history[i].request
      <4>1. r \in Request /\ request[r].of = history[i].of /\ request[r].status \in {"approved", "applied"}
        BY DEF Authorised, ResetsAreApproved
      <4> HIDE DEF r
      <4>2. CASE e.what # r
        BY <1>1, <3>1, <3>2, <4>1, <4>2 DEF r
      <4>3. CASE e.what = r
        <5>1. request[r] = [status |-> "approved", of |-> e.of] /\ e.value = "applied"
          BY <2>0, <2>2, <3>2, <4>1, <4>3 DEF Authorised, RequestsAreDue
        <5>2. request'[r] = [status |-> "applied", of |-> e.of]
          BY <1>1, <3>1, <3>2, <4>3, <5>1
        <5>3. request'[r].status = "applied" /\ request'[r].of = e.of /\ request[r].of = e.of
          BY <5>1, <5>2
        <5> QED
          BY <4>1, <5>3 DEF r
      <4> QED
        BY <4>2, <4>3
    <3> QED
      BY <3>4, <3>5 DEF Authorised
  <2>3. CASE e.do \notin {"append", "request"}
    <3>1. history' = history /\ request' = request /\ approval \subseteq approval'
      BY <2>0, <2>3 DEF Makes, Perform
    <3> QED
      BY <2>0, <3>1 DEF Authorised, RequestsAreDue, ResetsAreApproved
  <2> QED
    BY <2>1, <2>2, <2>3
<1> QED
  BY <1>2, <1>3, <1>4, <1>5, <1>6, <1>7, StepKinds

\* Every reset names a change request that was made and approved for the sign-off it
\* withdraws, and no request is used twice, also when marking it applied was cut off.
THEOREM SignoffResetsAreAuthorised == Spec => []ResetIsAuthorised
<1>1. Init => Authorised
  <2> SUFFICES ASSUME Init PROVE Authorised
    OBVIOUS
  <2>1. DOMAIN history = {} /\ Pending = {}
    BY EmptySeq, LenProperties DEF Init, Pending
  <2> QED
    BY <2>1 DEF Authorised, RequestsAreDue, ResetsAreApproved
<1>2. Sound /\ Turns /\ Authorised /\ [Next]_vars => (Sound /\ Turns /\ Authorised)'
  BY SoundNext, TurnsNext, AuthorisedNext
<1>3. Turns /\ Authorised => ResetIsAuthorised
  BY DEF Turns, RowsAreCounted, Authorised, ResetsAreApproved, ResetIsAuthorised
<1> QED
  BY SoundInit, TurnsInit, <1>1, <1>2, <1>3, PTL DEF Spec

-----------------------------------------------------------------------------
(* A reset keeps the material that it withdraws                             *)

Keeping(n) == Deed("keep", None, n, "full") \in Pending

\* A copy is begun where there is none, and a copy that is begun is finished
\* unless the call is cut short; a pending reset has a copy, or one before it.
CopiesAreDue ==
    /\ \A e \in Pending : e.do = "keep" /\ e.value = "part" => kept[e.of] = "none" /\ Keeping(e.of)
    /\ \A n \in Number : kept[n] = "part" /\ cuts = 0 => Keeping(n)
    /\ \A e \in Pending : e.do = "append" /\ e.value.type = "reset" => kept[e.of] # "none" \/ Keeping(e.of)

Copied == CopiesAreDue /\ ResetKeepsMaterial

LEMMA CopiedNext ==
    ASSUME Sound, Copied, [Next]_vars
    PROVE  Copied'
<1>1. /\ history \in Seq(HistoryRow) /\ RowsAreNumbered /\ Pending \subseteq Deeds
      /\ kept \in [Number -> {"none", "part", "full"}] /\ cuts \in Nat
  BY HistoryType, PendingIsTyped DEF Sound, TypeOK
<1>2. CASE Rests \/ Reports
  <2>1. UNCHANGED <<history, kept, cuts>> /\ Pending' = Pending
    BY <1>2 DEF Rests, Reports, disk
  <2>2. \A n : Keeping(n)' <=> Keeping(n)
    BY <2>1 DEF Keeping
  <2> QED
    BY <2>1, <2>2 DEF Copied, CopiesAreDue, ResetKeepsMaterial
<1>3. CASE Breaks
  <2>1. Pending' = {} /\ UNCHANGED kept /\ cuts' # 0
    BY <1>1, <1>3 DEF Breaks
  <2>2. \A i \in DOMAIN history' :
           (i \in DOMAIN history /\ history'[i] = history[i]) \/ history'[i].type = "torn"
    <3>1. CASE history' = history
      BY <3>1
    <3>2. CASE \E row \in HistoryRow : row.type = "torn" /\ history' = Append(history, row)
      <4>1. PICK row \in HistoryRow : row.type = "torn" /\ history' = Append(history, row)
        BY <3>2
      <4> QED
        BY <1>1, <4>1, LatestOfAppend
    <3> QED
      BY <1>3, <3>1, <3>2 DEF Breaks
  <2> QED
    BY <2>1, <2>2 DEF Copied, CopiesAreDue, ResetKeepsMaterial
<1>4. CASE Loses
  <2>1. /\ Pending = {} /\ Pending' = {} /\ UNCHANGED <<kept, cuts>>
        /\ history' = history \/ history' = << >>
    BY <1>4 DEF Loses
  <2>2. \A n : ~Keeping(n) /\ ~Keeping(n)'
    BY <2>1 DEF Keeping
  <2>3. history' = << >> => DOMAIN history' = {}
    BY EmptySeq, LenProperties
  <2> QED
    BY <2>1, <2>2, <2>3 DEF Copied, CopiesAreDue, ResetKeepsMaterial
<1>5. CASE SignEnters \/ SignedEnters
  <2>1. UNCHANGED <<disk, cuts>> /\ Pending = {}
    BY <1>5, SignedEntersFacts DEF SignEnters, Begins
  <2>2. ResetKeepsMaterial'
    BY <2>1 DEF Copied, ResetKeepsMaterial, disk
  <2>3. \A n \in Number : kept[n] = "part" => cuts # 0
    BY <2>1 DEF Copied, CopiesAreDue, Keeping
  <2>4. CASE ResetEnters /\ Latest \in Number
    <3>0. PICK n \in Number : n = Latest
      BY <2>4
    <3>1. PICK r \in Request : Pending' = ResetDeeds(r, n)
      BY <2>4, <3>0 DEF ResetEnters, Begins
    <3> DEFINE a == Deed("keep", None, n, "part")
               b == Deed("keep", None, n, "full")
    <3>2. /\ \A e \in Pending' : /\ e.do = "append" => e.of = n
                                 /\ e.do = "keep" => e \in KeepDeeds(n)
          /\ KeepDeeds(n) \subseteq Pending'
      BY <3>1, ResetDeedFacts DEF ResetDeeds
    <3>3. kept[n] = "none" => KeepDeeds(n) = {a, b}
      BY DEF KeepDeeds
    <3>4. kept[n] # "none" => KeepDeeds(n) = {}
      BY DEF KeepDeeds
    <3>5. a.of = n /\ a.do = "keep" /\ b.of = n /\ b.do = "keep" /\ b.value = "full"
      BY DEF Deed
    <3>6. kept[n] = "none" => b \in Pending'
      BY <3>2, <3>3
    <3> HIDE DEF a
    <3>7. \A e \in Pending' : e.do = "keep" => kept[n] = "none" /\ e.of = n
      BY <3>2, <3>3, <3>4, <3>5
    <3>8. \A m : Keeping(m)' <=> Deed("keep", None, m, "full") \in Pending'
      BY DEF Keeping
    <3> HIDE DEF b
    <3>9. kept[n] = "none" => Keeping(n)'
      BY <3>6, <3>8 DEF b
    <3>10. kept' = kept /\ cuts' = cuts
      BY <2>1 DEF disk
    <3>11. CopiesAreDue'
      BY <2>3, <3>2, <3>7, <3>9, <3>10 DEF CopiesAreDue
    <3> QED
      BY <2>2, <3>11 DEF Copied
  <2>5. ASSUME \A e \in Pending' : e.do # "keep" /\ (e.do = "append" => e.value.type # "reset")
        PROVE  Copied'
    <3>1. kept' = kept /\ cuts' = cuts
      BY <2>1 DEF disk
    <3> QED
      BY <2>2, <2>3, <2>5, <3>1 DEF Copied, CopiesAreDue
  <2>6. CASE SignEnters
    <3>1. Pending' = SignDeeds(NextNumber)
      BY <2>6 DEF SignEnters, Begins
    <3> QED
      BY <2>5, <3>1, SignDeedFacts
  <2>7. CASE RequestEnters \/ ApproveEnters
    <3>1. \A e \in Pending' : e.do \in {"request", "approval"}
      BY <2>7 DEF RequestEnters, ApproveEnters, Begins, MarkDeeds, ApproveDeeds, Deed
    <3> QED
      BY <2>5, <3>1
  <2>8. CASE ExportEnters
    <3>1. PICK p \in Package : Pending' = ExportDeeds(p, Latest)
      BY <2>8 DEF ExportEnters, Begins
    <3>2. \A e \in Pending' : e.do \in {"append", "output"} /\ (e.do = "append" => e.value.type = Exported(p))
      BY <3>1, ExportDeedFacts
    <3>3. Exported(p) # "reset"
      BY RowTypeFacts DEF Package
    <3> QED
      BY <2>5, <3>2, <3>3
  <2>9. CASE BuildEnters
    <3>1. PICK p \in Package : Pending' = BuildDeeds(p, Latest)
      BY <2>9 DEF BuildEnters, Begins
    <3>2. \A e \in Pending' : /\ e.do \in {"append", "output"}
                              /\ e.do = "append" => e.value.type \in {Built(p), Exported(p)}
      BY <3>1, BuildDeedFacts
    <3>3. Exported(p) # "reset" /\ Built(p) # "reset"
      BY RowTypeFacts DEF Package
    <3> QED
      BY <2>5, <3>2, <3>3
  <2> QED
    BY <1>5, <2>4, <2>6, <2>7, <2>8, <2>9 DEF SignedEnters
<1>6. ASSUME NEW e \in Deeds, Writes(e) PROVE Copied'
  <2>0. /\ e \in Pending /\ Makes(e) /\ Pending' \subseteq Pending /\ \A f \in Pending' : Follows(e, f)
        /\ Pending \subseteq Pending' \cup {e} /\ cuts' = cuts
    BY <1>6 DEF Writes
  <2>1. \A n : Keeping(n)' => Keeping(n)
    BY <2>0 DEF Keeping
  <2>2. \A n : Keeping(n) /\ e # Deed("keep", None, n, "full") => Keeping(n)'
    BY <2>0 DEF Keeping
  <2>3. \A n : Deed("keep", None, n, "full").do = "keep" /\ Deed("keep", None, n, "full").of = n
               /\ Deed("keep", None, n, "full").value = "full"
    BY DEF Deed
  <2>4. CASE e.do = "append"
    <3>1. kept' = kept
      BY <2>0, <2>4 DEF Makes
    <3>2. \A n : Keeping(n) => Keeping(n)'
      BY <2>2, <2>3, <2>4
    <3>3. PICK row \in HistoryRow :
            /\ row.type = e.value.type /\ row.of = e.of /\ row.of \in Number
            /\ history' = Append(history, row)
      BY <2>0, <2>4 DEF Makes
    <3>4. \A i \in DOMAIN history' :
             (i \in DOMAIN history /\ history'[i] = history[i]) \/ history'[i] = row
      BY <1>1, <3>3, LatestOfAppend
    <3>5. ASSUME row.type = "reset"
          PROVE  kept[row.of] # "none" /\ (cuts = 0 => kept[row.of] = "full")
      <4>1. ~Keeping(row.of)
        <5>1. Keeping(row.of) => Deed("keep", None, row.of, "full") \in Pending'
          BY <3>2 DEF Keeping
        <5>2. Keeping(row.of) => Follows(e, Deed("keep", None, row.of, "full"))
          BY <2>0, <5>1
        <5> QED
          BY <2>3, <2>4, <3>3, <3>5, <5>2 DEF Follows
      <4>2. kept[row.of] # "none"
        BY <2>0, <2>4, <3>3, <3>5, <4>1 DEF Copied, CopiesAreDue
      <4>3. cuts = 0 => kept[row.of] # "part"
        BY <3>3, <4>1 DEF Copied, CopiesAreDue
      <4> QED
        BY <1>1, <3>3, <4>2, <4>3
    <3>6. ResetKeepsMaterial'
      BY <2>0, <3>1, <3>4, <3>5 DEF Copied, ResetKeepsMaterial
    <3>7. CopiesAreDue'
      BY <2>0, <3>1, <3>2 DEF Copied, CopiesAreDue
    <3> QED
      BY <3>6, <3>7 DEF Copied
  <2>5. CASE e.do = "keep"
    <3>1. kept' = [kept EXCEPT ![e.of] = e.value] /\ history' = history
      BY <2>0, <2>5 DEF Makes, Perform
    <3>2. e.of \in Number /\ e.value \in {"part", "full"}
      BY <2>5, DeedFacts
    <3>3. \A n \in Number : kept'[n] = IF n = e.of THEN e.value ELSE kept[n]
      BY <1>1, <3>1, <3>2
    <3>4. \A n : Keeping(n) /\ n # e.of => Keeping(n)'
      BY <2>2, <2>3
    <3>5. e.value = "part" => kept[e.of] = "none" /\ Keeping(e.of)'
      BY <2>0, <2>2, <2>3, <2>5 DEF Copied, CopiesAreDue
    <3>6. \A f \in Pending' : ~(f.do = "keep" /\ f.value = "part")
      BY <2>0, <2>5 DEF Follows
    <3>7. \A f \in Pending' : f.do = "append" /\ f.value.type = "reset" => kept'[f.of] # "none" \/ Keeping(f.of)'
      <4> SUFFICES ASSUME NEW f \in Pending', f.do = "append", f.value.type = "reset"
                   PROVE  kept'[f.of] # "none" \/ Keeping(f.of)'
        OBVIOUS
      <4>1. f \in Pending /\ f.of \in Number
        BY <1>1, <2>0, DeedFacts
      <4>2. kept[f.of] # "none" \/ Keeping(f.of)
        BY <4>1 DEF Copied, CopiesAreDue
      <4>3. CASE f.of = e.of
        BY <3>2, <3>3, <4>1, <4>3
      <4>4. CASE f.of # e.of
        BY <3>3, <3>4, <4>1, <4>2, <4>4
      <4> QED
        BY <4>3, <4>4
    <3>8. \A n \in Number : kept'[n] = "part" /\ cuts' = 0 => Keeping(n)'
      BY <2>0, <3>2, <3>3, <3>4, <3>5 DEF Copied, CopiesAreDue
    <3>9. CopiesAreDue'
      BY <3>6, <3>7, <3>8 DEF CopiesAreDue
    <3>10. ResetKeepsMaterial'
      <4> SUFFICES ASSUME NEW i \in DOMAIN history, history[i].type = "reset"
                   PROVE  kept'[history[i].of] # "none" /\ (cuts' = 0 => kept'[history[i].of] = "full")
        BY <3>1 DEF ResetKeepsMaterial
      <4> DEFINE m == history[i].of
      <4>1. m \in Number
        BY <1>1 DEF RowsAreNumbered
      <4>2. kept[m] # "none" /\ (cuts = 0 => kept[m] = "full")
        BY DEF Copied, ResetKeepsMaterial
      <4> HIDE DEF m
      <4>3. kept'[m] # "none" /\ (cuts' = 0 => kept'[m] = "full")
        BY <2>0, <3>2, <3>3, <3>5, <4>1, <4>2
      <4> QED
        BY <4>3 DEF m
    <3> QED
      BY <3>9, <3>10 DEF Copied
  <2>6. CASE e.do \notin {"append", "keep"}
    <3>1. history' = history /\ kept' = kept
      BY <2>0, <2>6 DEF Makes, Perform
    <3>2. \A n : Keeping(n) => Keeping(n)'
      BY <2>2, <2>3, <2>6
    <3> QED
      BY <2>0, <3>1, <3>2 DEF Copied, CopiesAreDue, ResetKeepsMaterial
  <2> QED
    BY <2>4, <2>5, <2>6
<1> QED
  BY <1>2, <1>3, <1>4, <1>5, <1>6, StepKinds

\* A withdrawn sign-off's material was copied first: in full, unless a call was cut short.
THEOREM SignoffResetsKeepMaterial == Spec => []ResetKeepsMaterial
<1>1. Init => Copied
  <2> SUFFICES ASSUME Init PROVE Copied
    OBVIOUS
  <2>1. DOMAIN history = {} /\ Pending = {} /\ \A n \in Number : kept[n] = "none"
    BY EmptySeq, LenProperties DEF Init, Pending
  <2> QED
    BY <2>1 DEF Copied, CopiesAreDue, ResetKeepsMaterial
<1>2. Sound /\ Copied /\ [Next]_vars => (Sound /\ Copied)'
  BY SoundNext, CopiedNext
<1>3. Copied => ResetKeepsMaterial
  BY DEF Copied
<1> QED
  BY SoundInit, <1>1, <1>2, <1>3, PTL DEF Spec

-----------------------------------------------------------------------------
(* The packages on disk and the history                                     *)

NothingIsOut == \A p \in Package, x \in {"dir", "zip"} : out[p][x] = 0

\* A pending sign-off finds no package; a pending row is the first of its type for its
\* sign-off, a handoff's comes after the archive's, and a package is written once its row is.
PackagesAreDue ==
    \A e \in Pending :
        /\ e.do = "append" /\ e.value.type = "signed" => NothingIsOut
        /\ e.do = "append" /\ e.value.type \in Exports \cup Builds => ~Recorded(e.value.type, e.of)
        /\ e.do = "append" /\ e.value.type = Exported("handoff") => Recorded(Exported("archive"), e.of)
        /\ e.do = "output" /\ e.of \in Number =>
             /\ IsSigned /\ e.of = Latest
             /\ \/ Recorded(Exported(e.what), e.of)
                \/ \E f \in Pending : f.do = "append" /\ f.value.type = Exported(e.what) /\ f.of = e.of

OutputsAreLatest == IsSigned => \A p \in Package, x \in {"dir", "zip"} : out[p][x] \in {0, Bad, Latest}

OutputsAreRecorded ==
    \A p \in Package, x \in {"dir", "zip"} : out[p][x] \in Number => Recorded(Exported(p), out[p][x])

\* A history that was deleted accounts for nothing until the program is signed anew.
OutputsFitHistory == losses = 0 \/ history # << >> => OutputsAreRecorded

Packed ==
    PackagesAreDue /\ OutputsAreLatest /\ OutputsFitHistory /\ PackagedOnce /\ HandoffFollowsArchive

\* What is recorded after a row is added.
LEMMA RecordedOfAppend ==
    ASSUME history \in Seq(HistoryRow), RowsAreNumbered, NEW row \in HistoryRow, history' = Append(history, row),
           NEW t, NEW n
    PROVE  Recorded(t, n)' <=> Recorded(t, n) \/ (row.type = t /\ row.of = n)
<1> DEFINE k == Len(history) + 1
<1>1. /\ DOMAIN history' = DOMAIN history \cup {k} /\ \A i \in DOMAIN history : history'[i] = history[i]
      /\ history'[k] = row
  BY LatestOfAppend
<1> HIDE DEF k
<1> QED
  BY <1>1 DEF Recorded

\* While a call has a row before it, the history accounts for every package.
LEMMA AppendFindsRecorded ==
    ASSUME Turns, Packed, NEW e \in Pending, e.do = "append"
    PROVE  OutputsAreRecorded
<1>1. CASE e.value.type = "signed"
  <2>1. NothingIsOut /\ ~(0 \in Number)
    BY <1>1, SignoffAssumption DEF Packed, PackagesAreDue, Number
  <2> QED
    BY <2>1 DEF NothingIsOut, OutputsAreRecorded
<1>2. CASE e.value.type # "signed"
  <2>1. IsSigned
    BY <1>2 DEF Turns, AppendsAreDue
  <2>2. history # << >>
    BY <2>1, TurnsOfEmpty
  <2> QED
    BY <2>2 DEF Packed, OutputsFitHistory
<1> QED
  BY <1>1, <1>2

\* The handoff's checks find the archive of the same sign-off recorded.
LEMMA HandoffContext ==
    ASSUME Packed, Context("handoff")
    PROVE  Recorded(Exported("archive"), Latest)
<1> DEFINE n == out["archive"]["zip"]
<1>1. IsSigned /\ file["binding"] = Latest /\ n \in Number /\ file["binding"] = n
  BY DEF Context, SignedContext, Bound, Passes
<1>2. history # << >>
  BY <1>1, TurnsOfEmpty
<1>3. Recorded(Exported("archive"), n)
  BY <1>1, <1>2 DEF Packed, OutputsFitHistory, OutputsAreRecorded, Package
<1> QED
  BY <1>1, <1>3

\* A sign-off, request, approval, reset, export or build that begins.
LEMMA PackedEnters ==
    ASSUME Sound, Turns, Packed, SignEnters \/ SignedEnters
    PROVE  Packed'
<1>1. /\ UNCHANGED <<disk, cuts, losses>> /\ Latest' = Latest /\ (IsSigned' <=> IsSigned)
      /\ \A t, n : Recorded(t, n)' <=> Recorded(t, n)
  <2>1. UNCHANGED <<disk, cuts, losses>>
    BY SignedEntersFacts DEF SignEnters, Begins
  <2>2. history' = history
    BY <2>1 DEF disk
  <2> QED
    BY <2>1, <2>2, SameHistory DEF Recorded
<1>2. OutputsAreLatest' /\ OutputsFitHistory' /\ PackagedOnce' /\ HandoffFollowsArchive' /\ (NothingIsOut' <=> NothingIsOut)
  BY <1>1 DEF Packed, OutputsAreLatest, OutputsFitHistory, OutputsAreRecorded, PackagedOnce, HandoffFollowsArchive,
              NothingIsOut, disk
<1>3. CASE SignEnters
  <2>1. Pending' = SignDeeds(NextNumber)
    BY <1>3 DEF SignEnters, Begins
  <2>2. \A e \in Pending' : e.do # "output" /\ (e.do = "append" => e.value.type = "signed")
    BY <2>1, SignDeedFacts
  <2>3. NothingIsOut
    BY <1>3, MaySignFacts DEF SignEnters, NothingIsOut, Part
  <2>4. "signed" \notin Exports \cup Builds /\ Exported("handoff") # "signed"
    BY RowTypeFacts
  <2> QED
    BY <1>2, <2>2, <2>3, <2>4 DEF Packed, PackagesAreDue
<1>4. CASE RequestEnters \/ ApproveEnters
  <2>1. \A e \in Pending' : e.do \in {"request", "approval"}
    BY <1>4 DEF RequestEnters, ApproveEnters, Begins, MarkDeeds, ApproveDeeds, Deed
  <2> QED
    BY <1>2, <2>1 DEF Packed, PackagesAreDue
<1>5. CASE ResetEnters
  <2>1. PICK r \in Request : Pending' = ResetDeeds(r, Latest)
    BY <1>5 DEF ResetEnters, Begins
  <2>2. \A e \in Pending' : (e.do = "append" => e.value.type = "reset") /\ (e.do = "output" => e.of = 0)
    BY <2>1, ResetDeedFacts
  <2>3. 0 \notin Number
    BY SignoffAssumption DEF Number
  <2>4. "reset" \notin Exports \cup Builds /\ Exported("handoff") # "reset"
    BY RowTypeFacts
  <2> QED
    BY <1>2, <2>2, <2>3, <2>4 DEF Packed, PackagesAreDue
<1>6. ASSUME NEW p \in Package, NEW n \in Number, IsSigned, n = Latest, Context(p),
             \A e \in Pending' :
                /\ e.do \in {"append", "output"}
                /\ e.do = "append" => /\ e.of = n /\ e.value.type \in {Exported(p), Built(p)}
                                      /\ ~Recorded(e.value.type, n)
                /\ e.do = "output" => e.what = p /\ e.of \in {Bad, n},
             \/ Recorded(Exported(p), n)
             \/ \E f \in Pending' : f.do = "append" /\ f.value.type = Exported(p) /\ f.of = n
      PROVE  Packed'
  <2>1. p = "handoff" => Recorded(Exported("archive"), n)
    BY <1>6, HandoffContext
  <2>2. /\ Exported(p) # "signed" /\ Built(p) # "signed" /\ Built(p) # Exported("handoff")
        /\ p # "handoff" => Exported(p) # Exported("handoff")
    BY RowTypeFacts DEF Package
  <2>3. PackagesAreDue'
    <3> SUFFICES ASSUME NEW e \in Pending'
                 PROVE  /\ e.do = "append" => /\ e.value.type # "signed" /\ ~Recorded(e.value.type, e.of)
                                              /\ e.value.type = Exported("handoff") => Recorded(Exported("archive"), e.of)
                        /\ e.do = "output" /\ e.of \in Number =>
                             /\ IsSigned /\ e.of = Latest
                             /\ \/ Recorded(Exported(e.what), e.of)
                                \/ \E f \in Pending' : f.do = "append" /\ f.value.type = Exported(e.what) /\ f.of = e.of
      BY <1>1, <1>2 DEF PackagesAreDue
    <3>1. Bad \notin Number
      BY DEF Bad, Number
    <3>2. CASE e.do = "append"
      BY <1>6, <2>1, <2>2, <3>2
    <3>3. CASE e.do = "output"
      BY <1>6, <3>1, <3>3
    <3> QED
      BY <1>6, <3>2, <3>3
  <2> QED
    BY <1>2, <2>3 DEF Packed
<1>7. CASE ExportEnters /\ IsSigned /\ Latest \in Number
  <2>1. PICK p \in Package : Context(p) /\ ~Recorded(Exported(p), Latest) /\ Pending' = ExportDeeds(p, Latest)
    BY <1>7 DEF ExportEnters, Begins
  <2>2. PICK n \in Number : n = Latest
    BY <1>7
  <2> DEFINE f == AppendOf(Exported(p), n, None)
  <2>3. f \in Pending' /\ f.do = "append" /\ f.value.type = Exported(p) /\ f.of = n
    BY <2>1, <2>2 DEF ExportDeeds, AppendOf, Deed, Row
  <2>4. \A e \in Pending' :
            /\ e.do \in {"append", "output"}
            /\ e.do = "append" => e.of = n /\ e.value.type = Exported(p)
            /\ e.do = "output" => e.what = p /\ e.of \in {Bad, n}
    BY <2>1, <2>2, ExportDeedFacts
  <2> HIDE DEF f
  <2> QED
    BY <1>6, <1>7, <2>1, <2>2, <2>3, <2>4
<1>8. CASE BuildEnters /\ IsSigned /\ Latest \in Number
  <2>1. PICK p \in Package : /\ Context(p) /\ ~Recorded(Built(p), Latest) /\ Pending' = BuildDeeds(p, Latest)
                             /\ (out[p]["dir"] = 0) # Recorded(Exported(p), Latest)
    BY <1>8 DEF BuildEnters, Begins
  <2>2. PICK n \in Number : n = Latest
    BY <1>8
  <2> DEFINE f == AppendOf(Exported(p), n, None)
  <2>3. f.do = "append" /\ f.value.type = Exported(p) /\ f.of = n /\ (out[p]["dir"] = 0 => f \in Pending')
    BY <2>1, <2>2 DEF BuildDeeds, ExportDeeds, AppendOf, Deed, Row
  <2>4. \A e \in Pending' :
            /\ e.do \in {"append", "output"}
            /\ e.do = "append" => e.of = n /\ (e.value.type = Built(p) \/ (e.value.type = Exported(p) /\ out[p]["dir"] = 0))
            /\ e.do = "output" => e.what = p /\ e.of \in {Bad, n}
    BY <2>1, <2>2, BuildDeedFacts
  <2>5. out[p]["dir"] = 0 <=> ~Recorded(Exported(p), n)
    BY <2>1, <2>2 DEF Recorded
  <2> HIDE DEF f
  <2>6. \A e \in Pending' :
            /\ e.do \in {"append", "output"}
            /\ e.do = "append" => /\ e.of = n /\ e.value.type \in {Exported(p), Built(p)}
                                  /\ ~Recorded(e.value.type, n)
            /\ e.do = "output" => e.what = p /\ e.of \in {Bad, n}
    BY <2>1, <2>2, <2>4, <2>5
  <2>7. \/ Recorded(Exported(p), n)
        \/ \E g \in Pending' : g.do = "append" /\ g.value.type = Exported(p) /\ g.of = n
    BY <2>3, <2>5
  <2> QED
    BY <1>6, <1>8, <2>1, <2>2, <2>6, <2>7
<1> QED
  BY <1>3, <1>4, <1>5, <1>7, <1>8 DEF SignedEnters

\* A row that is written.
LEMMA PackedAppend ==
    ASSUME Sound, Turns, Packed, NEW e \in Deeds, Writes(e), e.do = "append"
    PROVE  Packed'
<1>0. /\ e \in Pending /\ Makes(e) /\ Pending' \subseteq Pending /\ Pending \subseteq Pending' \cup {e}
      /\ (\A f \in Pending' : Follows(e, f)) /\ UNCHANGED <<out, losses>>
      /\ history \in Seq(HistoryRow) /\ RowsAreNumbered
  BY HistoryType DEF Writes, Makes, Sound
<1>1. PICK row \in HistoryRow :
        /\ row.type = e.value.type /\ row.type \in RowTypes /\ row.of = e.of /\ row.of \in Number
        /\ history' = Append(history, row)
  BY <1>0 DEF Makes
<1>2. \A t, n : Recorded(t, n)' <=> Recorded(t, n) \/ (row.type = t /\ row.of = n)
  BY <1>0, <1>1, RecordedOfAppend
<1>3. OutputsAreRecorded'
  BY <1>0, <1>2, AppendFindsRecorded DEF OutputsAreRecorded
<1> DEFINE k == Len(history) + 1
<1>4. /\ k \in Nat /\ DOMAIN history = 1 .. k - 1 /\ DOMAIN history' = DOMAIN history \cup {k}
      /\ \A i \in DOMAIN history : history'[i] = history[i]
      /\ history'[k] = row
  BY <1>0, <1>1, LatestOfAppend
<1> HIDE DEF k
<1>5. PackagedOnce'
  <2>1. row.type \notin {"signed", "reset", "torn"} =>
          \A i \in DOMAIN history : ~(history[i].type = row.type /\ history[i].of = row.of)
    BY <1>0, <1>1 DEF Packed, PackagesAreDue, Recorded, RowTypes
  <2> QED
    BY <1>4, <2>1 DEF Packed, PackagedOnce
<1>6. HandoffFollowsArchive'
  <2>1. row.type = Exported("handoff") => Recorded(Exported("archive"), row.of)
    BY <1>0, <1>1 DEF Packed, PackagesAreDue
  <2> SUFFICES ASSUME NEW i \in DOMAIN history', history'[i].type = Exported("handoff")
               PROVE  \E j \in 1 .. i : history'[j].type = Exported("archive") /\ history'[j].of = history'[i].of
    BY DEF HandoffFollowsArchive
  <2>2. CASE i \in DOMAIN history
    <3>1. PICK j \in 1 .. i : history[j].type = Exported("archive") /\ history[j].of = history[i].of
      BY <1>4, <2>2 DEF Packed, HandoffFollowsArchive
    <3>2. j \in DOMAIN history
      BY <1>4, <2>2
    <3> QED
      BY <1>4, <2>2, <3>1, <3>2
  <2>3. CASE i = k
    <3>1. PICK j \in DOMAIN history : history[j].type = Exported("archive") /\ history[j].of = row.of
      BY <1>4, <2>1, <2>3 DEF Recorded
    <3>2. j \in 1 .. i
      BY <1>4, <2>3
    <3> QED
      BY <1>4, <2>3, <3>1, <3>2
  <2> QED
    BY <1>4, <2>2, <2>3
<1>7. CASE row.type = "signed"
  <2>1. NothingIsOut /\ row.type \notin Exports
    BY <1>0, <1>1, <1>7, RowTypeFacts DEF Packed, PackagesAreDue
  <2>2. OutputsAreLatest'
    BY <1>0, <2>1 DEF NothingIsOut, OutputsAreLatest
  <2>3. \A f \in Pending' : f.do \in {"document", "state"}
    BY <1>0, <1>1, <1>7 DEF Follows
  <2> QED
    BY <1>3, <1>5, <1>6, <2>2, <2>3 DEF Packed, PackagesAreDue, OutputsFitHistory
<1>8. CASE row.type = "reset"
  <2>1. ~IsSigned'
    BY <1>0, <1>1, <1>8, LatestOfAppend
  <2>2. \A f \in Pending' : f.do \in {"document", "state", "request"} \/ (f.do = "output" /\ f.of = 0)
    BY <1>0, <1>1, <1>8 DEF Follows
  <2>3. 0 \notin Number
    BY SignoffAssumption DEF Number
  <2> QED
    BY <1>3, <1>5, <1>6, <2>1, <2>2, <2>3 DEF Packed, PackagesAreDue, OutputsFitHistory, OutputsAreLatest
<1>9. CASE row.type \in Exports \cup Builds
  <2>1. Latest' = Latest /\ (IsSigned' <=> IsSigned)
    BY <1>0, <1>1, <1>9, LatestOfAppend, RowTypeFacts
  <2>2. OutputsAreLatest'
    BY <1>0, <2>1 DEF Packed, OutputsAreLatest
  <2>3. \A f \in Pending' : (f.do = "output" /\ f.of # 0) \/ (f.do = "append" /\ f.value.type \in Builds)
    BY <1>0, <1>1, <1>9 DEF Follows
  <2>4. Pending' # {} => row.type \in Exports
    BY <1>0, <1>1, <1>9 DEF Follows
  <2>5. Exports \cap Builds = {} /\ "signed" \notin Builds /\ Exported("handoff") \notin Builds
    BY RowTypeFacts
  <2>6. PackagesAreDue'
    <3> SUFFICES ASSUME NEW f \in Pending'
                 PROVE  /\ f.do = "append" /\ f.value.type \in Builds => ~Recorded(f.value.type, f.of)'
                        /\ f.do = "output" /\ f.of \in Number =>
                             /\ IsSigned' /\ f.of = Latest'
                             /\ \/ Recorded(Exported(f.what), f.of)'
                                \/ \E g \in Pending' : g.do = "append" /\ g.value.type = Exported(f.what) /\ g.of = f.of
      BY <2>3, <2>5 DEF PackagesAreDue
    <3>1. ASSUME f.do = "append", f.value.type \in Builds
          PROVE  ~Recorded(f.value.type, f.of)'
      <4>1. ~Recorded(f.value.type, f.of) /\ row.type # f.value.type
        BY <1>0, <2>4, <2>5, <3>1 DEF Packed, PackagesAreDue
      <4> QED
        BY <1>2, <4>1
    <3>2. ASSUME f.do = "output", f.of \in Number
          PROVE  /\ IsSigned' /\ f.of = Latest'
                 /\ \/ Recorded(Exported(f.what), f.of)'
                    \/ \E g \in Pending' : g.do = "append" /\ g.value.type = Exported(f.what) /\ g.of = f.of
      <4>1. /\ IsSigned /\ f.of = Latest
            /\ \/ Recorded(Exported(f.what), f.of)
               \/ \E g \in Pending : g.do = "append" /\ g.value.type = Exported(f.what) /\ g.of = f.of
        BY <1>0, <3>2 DEF Packed, PackagesAreDue
      <4>2. CASE Recorded(Exported(f.what), f.of)
        BY <1>2, <2>1, <4>1, <4>2
      <4>3. ASSUME NEW g \in Pending, g.do = "append", g.value.type = Exported(f.what), g.of = f.of
            PROVE  \/ Recorded(Exported(f.what), f.of)'
                   \/ \E x \in Pending' : x.do = "append" /\ x.value.type = Exported(f.what) /\ x.of = f.of
        <5>1. CASE g = e
          BY <1>1, <1>2, <4>3, <5>1
        <5>2. CASE g # e
          BY <1>0, <4>3, <5>2
        <5> QED
          BY <5>1, <5>2
      <4> QED
        BY <2>1, <4>1, <4>2, <4>3
    <3> QED
      BY <3>1, <3>2
  <2> QED
    BY <1>3, <1>5, <1>6, <2>2, <2>6 DEF Packed, OutputsFitHistory
<1> QED
  BY <1>1, <1>7, <1>8, <1>9 DEF RowTypes

\* A package that is written.
LEMMA PackedOutput ==
    ASSUME Sound, Turns, Packed, NEW e \in Deeds, Writes(e), e.do = "output"
    PROVE  Packed'
<1>0. /\ e \in Pending /\ Pending' \subseteq Pending /\ Pending \subseteq Pending' \cup {e}
      /\ (\A f \in Pending' : Follows(e, f)) /\ UNCHANGED <<history, losses>>
      /\ out' = [out EXCEPT ![e.what] = [@ EXCEPT ![e.value] = e.of]]
      /\ out \in [Package -> [Part -> Bad .. MaxSignoffs]]
      /\ e.what \in Package /\ e.value \in Part /\ e.of \in Bad .. MaxSignoffs
  BY DeedFacts DEF Writes, Makes, Perform, Sound, TypeOK
<1>1. /\ Latest' = Latest /\ (IsSigned' <=> IsSigned) /\ \A t, n : Recorded(t, n)' <=> Recorded(t, n)
      /\ PackagedOnce' /\ HandoffFollowsArchive'
  BY <1>0, SameHistory DEF Recorded, Packed, PackagedOnce, HandoffFollowsArchive
<1>2. \A p \in Package, x \in Part : out'[p][x] = out[p][x] \/ (p = e.what /\ out'[p][x] = e.of)
  BY <1>0
<1>3. \A f \in Pending' : \/ f.do = "output"
                          \/ f.do = "append" /\ f.value.type \in Builds
  BY <1>0 DEF Follows
<1>4. "signed" \notin Builds /\ Exported("handoff") \notin Builds /\ Exports \cap Builds = {}
        /\ Exported(e.what) \in Exports
  BY <1>0, RowTypeFacts
<1>5. PackagesAreDue'
  <2>1. \A f \in Pending : f.do = "append" => f \in Pending'
    BY <1>0
  <2> QED
    BY <1>0, <1>1, <1>3, <1>4, <2>1 DEF Packed, PackagesAreDue
<1>6. e.of \in Number => e.of = Latest /\ Recorded(Exported(e.what), e.of)
  <2> SUFFICES ASSUME e.of \in Number PROVE e.of = Latest /\ Recorded(Exported(e.what), e.of)
    OBVIOUS
  <2>1. e.of # 0
    BY SignoffAssumption DEF Number
  <2>2. \A f \in Pending' : ~(f.do = "append" /\ f.value.type = Exported(e.what))
    BY <1>0, <1>4, <2>1, <1>3
  <2> QED
    BY <1>0, <2>2 DEF Packed, PackagesAreDue
<1>7. e.of \in {0, Bad} \cup Number
  <2>1. e.of \in -1 .. MaxSignoffs /\ MaxSignoffs \in Nat
    BY <1>0, SignoffAssumption DEF Bad
  <2>2. e.of = -1 \/ e.of = 0 \/ e.of \in 1 .. MaxSignoffs
    BY <2>1
  <2> QED
    BY <2>2 DEF Bad, Number
<1>8. {"dir", "zip"} \subseteq Part
  BY DEF Part
<1>9. OutputsAreLatest'
  <2> SUFFICES ASSUME IsSigned, NEW p \in Package, NEW x \in {"dir", "zip"} PROVE out'[p][x] \in {0, Bad, Latest}
    BY <1>1 DEF OutputsAreLatest
  <2>1. out[p][x] \in {0, Bad, Latest}
    BY DEF Packed, OutputsAreLatest
  <2>2. e.of \in {0, Bad, Latest}
    BY <1>6, <1>7
  <2> QED
    BY <1>2, <1>8, <2>1, <2>2
<1>10. OutputsFitHistory'
  <2> SUFFICES ASSUME losses = 0 \/ history # << >>, NEW p \in Package, NEW x \in {"dir", "zip"},
                      NEW m \in Number, m = out'[p][x]
               PROVE  Recorded(Exported(p), m)'
    BY <1>0 DEF OutputsFitHistory, OutputsAreRecorded, Recorded
  <2>1. out[p][x] \in Number => Recorded(Exported(p), out[p][x])
    BY DEF Packed, OutputsFitHistory, OutputsAreRecorded
  <2>2. m = out[p][x] \/ (p = e.what /\ m = e.of)
    BY <1>2, <1>8
  <2>3. Recorded(Exported(p), m)
    BY <1>6, <2>1, <2>2
  <2> QED
    BY <1>1, <2>3
<1> QED
  BY <1>1, <1>5, <1>9, <1>10 DEF Packed

LEMMA PackedNext ==
    ASSUME Sound, Turns, Packed, [Next]_vars
    PROVE  Packed'
<1>1. history \in Seq(HistoryRow) /\ RowsAreNumbered /\ Pending \subseteq Deeds /\ losses \in Nat
        /\ {"dir", "zip"} \subseteq Part
  BY HistoryType, PendingIsTyped DEF Sound, TypeOK, Part
<1>2. CASE Rests \/ Reports
  <2>1. /\ UNCHANGED <<history, losses>> /\ Pending' = Pending
        /\ \A p \in Package, x \in {"dir", "zip"} : out'[p][x] = out[p][x]
    BY <1>2 DEF Rests, Reports, disk
  <2>2. Latest' = Latest /\ (IsSigned' <=> IsSigned) /\ \A t, n : Recorded(t, n)' <=> Recorded(t, n)
    BY <2>1, SameHistory DEF Recorded
  <2>3. NothingIsOut => NothingIsOut'
    BY <2>1 DEF NothingIsOut
  <2>4. PackagesAreDue'
    BY <2>1, <2>2, <2>3 DEF Packed, PackagesAreDue
  <2>5. OutputsAreLatest' /\ OutputsFitHistory'
    BY <2>1, <2>2 DEF Packed, OutputsAreLatest, OutputsFitHistory, OutputsAreRecorded
  <2>6. PackagedOnce' /\ HandoffFollowsArchive'
    BY <2>1 DEF Packed, PackagedOnce, HandoffFollowsArchive
  <2> QED
    BY <2>4, <2>5, <2>6 DEF Packed
<1>3. CASE Breaks
  <2>1. Pending' = {} /\ UNCHANGED <<out, losses>>
    BY <1>3 DEF Breaks
  <2>2. CASE history' = history
    BY <2>1, <2>2, SameHistory DEF Packed, PackagesAreDue, OutputsAreLatest, OutputsFitHistory, OutputsAreRecorded,
                                   PackagedOnce, HandoffFollowsArchive, Recorded
  <2>3. CASE history' # history
    <3>1. PICK row \in HistoryRow : row.type = "torn" /\ history' = Append(history, row)
      BY <1>3, <2>3 DEF Breaks
    <3>2. OutputsAreRecorded
      BY <1>3, <2>3, AppendFindsRecorded DEF Breaks
    <3>3. \A t, n : Recorded(t, n) => Recorded(t, n)'
      BY <1>1, <3>1, RecordedOfAppend
    <3>4. OutputsFitHistory'
      BY <2>1, <3>2, <3>3 DEF OutputsFitHistory, OutputsAreRecorded
    <3>5. Latest' = Latest /\ (IsSigned' <=> IsSigned)
      BY <1>1, <3>1, LatestOfAppend
    <3>6. OutputsAreLatest'
      BY <2>1, <3>5 DEF Packed, OutputsAreLatest
    <3> DEFINE k == Len(history) + 1
    <3>7. /\ k \in Nat /\ DOMAIN history = 1 .. k - 1 /\ DOMAIN history' = DOMAIN history \cup {k}
          /\ \A i \in DOMAIN history : history'[i] = history[i]
          /\ history'[k].type = "torn"
      BY <1>1, <3>1, LatestOfAppend
    <3> HIDE DEF k
    <3>8. PackagedOnce'
      BY <3>7 DEF Packed, PackagedOnce
    <3>9. HandoffFollowsArchive'
      <4> SUFFICES ASSUME NEW i \in DOMAIN history', history'[i].type = Exported("handoff")
                   PROVE  \E j \in 1 .. i : history'[j].type = Exported("archive") /\ history'[j].of = history'[i].of
        BY DEF HandoffFollowsArchive
      <4>1. i \in DOMAIN history
        BY <3>7, RowTypeFacts
      <4>2. PICK j \in 1 .. i : history[j].type = Exported("archive") /\ history[j].of = history[i].of
        BY <3>7, <4>1 DEF Packed, HandoffFollowsArchive
      <4>3. j \in DOMAIN history
        BY <3>7, <4>1
      <4> QED
        BY <3>7, <4>1, <4>2, <4>3
    <3> QED
      BY <2>1, <3>4, <3>6, <3>8, <3>9 DEF Packed, PackagesAreDue
  <2> QED
    BY <2>2, <2>3
<1>4. CASE Loses
  <2>1. /\ Pending' = {} /\ losses' # 0
        /\ history' = history \/ history' = << >>
        /\ \A p \in Package, x \in Part : out'[p][x] \in {0, out[p][x]}
    BY <1>1, <1>4 DEF Loses
  <2>2. CASE history' = history
    <3>1. Latest' = Latest /\ (IsSigned' <=> IsSigned) /\ \A t, n : Recorded(t, n)' <=> Recorded(t, n)
      BY <2>2, SameHistory DEF Recorded
    <3>2. OutputsAreLatest'
      BY <1>1, <2>1, <3>1 DEF Packed, OutputsAreLatest
    <3>3. OutputsFitHistory'
      <4> SUFFICES ASSUME history # << >>, NEW p \in Package, NEW x \in {"dir", "zip"},
                          NEW m \in Number, m = out'[p][x]
                   PROVE  Recorded(Exported(p), m)'
        BY <2>1, <2>2 DEF OutputsFitHistory, OutputsAreRecorded, Recorded
      <4>1. m = out[p][x]
        BY <1>1, <2>1, SignoffAssumption DEF Number
      <4>2. Recorded(Exported(p), m)
        BY <4>1 DEF Packed, OutputsFitHistory, OutputsAreRecorded
      <4> QED
        BY <3>1, <4>2
    <3>4. PackagedOnce' /\ HandoffFollowsArchive'
      BY <2>2 DEF Packed, PackagedOnce, HandoffFollowsArchive
    <3> QED
      BY <2>1, <3>2, <3>3, <3>4 DEF Packed, PackagesAreDue
  <2>3. CASE history' = << >>
    <3>1. (history = << >> => ~IsSigned)'
      BY TurnsOfEmpty, PTL
    <3>2. DOMAIN history' = {}
      BY <2>3, EmptySeq, LenProperties
    <3> QED
      BY <2>1, <2>3, <3>1, <3>2 DEF Packed, PackagesAreDue, OutputsAreLatest, OutputsFitHistory,
                                    PackagedOnce, HandoffFollowsArchive
  <2> QED
    BY <2>1, <2>2, <2>3
<1>5. CASE SignEnters \/ SignedEnters
  BY <1>5, PackedEnters
<1>6. ASSUME NEW e \in Deeds, Writes(e) PROVE Packed'
  <2>1. CASE e.do \notin {"append", "output"}
    <3>1. /\ UNCHANGED <<history, out, losses>> /\ Pending' \subseteq Pending /\ Pending \subseteq Pending' \cup {e}
      BY <1>6, <2>1 DEF Writes, Makes, Perform
    <3>2. Latest' = Latest /\ (IsSigned' <=> IsSigned) /\ \A t, n : Recorded(t, n)' <=> Recorded(t, n)
      BY <3>1, SameHistory DEF Recorded
    <3>3. NothingIsOut => NothingIsOut'
      BY <3>1 DEF NothingIsOut
    <3>4. \A f \in Pending : f.do = "append" => f \in Pending'
      BY <2>1, <3>1
    <3>5. PackagesAreDue'
      BY <3>1, <3>2, <3>3, <3>4 DEF Packed, PackagesAreDue
    <3>6. OutputsAreLatest' /\ OutputsFitHistory'
      BY <3>1, <3>2 DEF Packed, OutputsAreLatest, OutputsFitHistory, OutputsAreRecorded
    <3>7. PackagedOnce' /\ HandoffFollowsArchive'
      BY <3>1 DEF Packed, PackagedOnce, HandoffFollowsArchive
    <3> QED
      BY <3>5, <3>6, <3>7 DEF Packed
  <2> QED
    BY <1>6, <2>1, PackedAppend, PackedOutput
<1> QED
  BY <1>2, <1>3, <1>4, <1>5, <1>6, StepKinds

LEMMA PackedInit == Init => Packed
<1> SUFFICES ASSUME Init PROVE Packed
  OBVIOUS
<1>1. history = << >> /\ Pending = {} /\ \A p \in Package, x \in Part : out[p][x] = 0
  BY DEF Init, Pending
<1>2. DOMAIN history = {} /\ ~IsSigned
  BY <1>1, EmptySeq, LenProperties, TurnsOfEmpty
<1>3. 0 \notin Number /\ {"dir", "zip"} \subseteq Part
  BY SignoffAssumption DEF Number, Part
<1> QED
  BY <1>1, <1>2, <1>3 DEF Packed, PackagesAreDue, OutputsAreLatest, OutputsFitHistory, OutputsAreRecorded,
                          PackagedOnce, HandoffFollowsArchive

\* Under a sign-off whose documents are in force, no package of an earlier sign-off remains.
THEOREM SignoffOutputsAreCurrent == Spec => []OutputsAreCurrent
<1>1. Sound /\ Turns /\ Packed /\ [Next]_vars => (Sound /\ Turns /\ Packed)'
  BY SoundNext, TurnsNext, PackedNext
<1>2. Packed => OutputsAreCurrent
  BY DEF Packed, OutputsAreLatest, OutputsAreCurrent, Bound
<1> QED
  BY SoundInit, TurnsInit, PackedInit, <1>1, <1>2, PTL DEF Spec

\* Packages on disk and the history's account of them correspond: exported and built once,
\* recorded unless a file was deleted, and a handoff's only after the archive's.
THEOREM SignoffPackagesFitHistory == Spec => []PackagesFitHistory
<1>1. Sound /\ Turns /\ Packed /\ [Next]_vars => (Sound /\ Turns /\ Packed)'
  BY SoundNext, TurnsNext, PackedNext
<1>2. Packed => PackagesFitHistory
  BY DEF Packed, OutputsFitHistory, OutputsAreRecorded, PackagesAreRecorded, PackagesFitHistory
<1> QED
  BY SoundInit, TurnsInit, PackedInit, <1>1, <1>2, PTL DEF Spec

-----------------------------------------------------------------------------
(* Without faults the program can be signed, or its sign-off is in force    *)

\* Once the pending writes are made, document f will be that of sign-off n.
FileEnds(f, n) ==
    /\ \A e \in Pending : e.do = "document" /\ e.what = f => e.of = n
    /\ file[f] = n \/ \E e \in Pending : e.do = "document" /\ e.what = f

PolicyEnds ==
    /\ \A e \in Pending : e.do = "document" /\ e.what = "policy" => e.of # 0
    /\ file["policy"] # 0 \/ \E e \in Pending : e.do = "document" /\ e.what = "policy"

StateEnds(s, n) ==
    /\ \A e \in Pending : e.do = "state" => e.value = s /\ e.of = n
    /\ state = [status |-> s, of |-> n] \/ \E e \in Pending : e.do = "state"

PackagesEnd ==
    \A p \in Package, x \in {"dir", "zip"} :
        /\ \A e \in Pending : e.do = "output" /\ e.what = p /\ e.value = x => e.of = 0
        /\ out[p][x] = 0 \/ \E e \in Pending : e.do = "output" /\ e.what = p /\ e.value = x

\* Sign-off n is in force, or is being recorded.
ComesSigned(n) ==
    \/ \E e \in Pending : e.do = "append" /\ e.value.type = "signed" /\ e.of = n
    \/ IsSigned /\ Latest = n /\ \A e \in Pending : e.do = "append" => e.value.type # "reset"

\* Sign-off n was the last to be withdrawn, or is being withdrawn.
ComesReset(n) ==
    \/ \E e \in Pending : e.do = "append" /\ e.value.type = "reset" /\ e.of = n
    \/ /\ ~IsSigned /\ Latest = n /\ history # << >> /\ Last(history).type = "reset"
       /\ \A e \in Pending : e.do # "append"

\* Nothing was ever signed.
New ==
    /\ history = << >> /\ Pending = {} /\ file = [f \in Document |-> 0] /\ state.status = "none"
    /\ \A r \in Request : request[r].status = "none"
    /\ \A n \in Number : kept[n] = "none"
    /\ \A p \in Package, x \in {"dir", "zip"} : out[p][x] = 0

EndsSigned(n) ==
    /\ ComesSigned(n) /\ FileEnds("signoff", n) /\ FileEnds("binding", n) /\ PolicyEnds
    /\ \E s \in {"signed", "reset"} : StateEnds(s, n)

EndsReset(n) ==
    /\ ComesReset(n) /\ FileEnds("signoff", 0) /\ FileEnds("binding", 0) /\ FileEnds("proof", n)
    /\ StateEnds("reset", n) /\ PackagesEnd

\* Each call but a verification leaves one of three situations behind.
Intact == cuts = 0 /\ losses = 0 => New \/ \E n \in Number : EndsSigned(n) \/ EndsReset(n)

\* What a write does to the documents, the state and the outputs.
LEMMA MakesFacts ==
    ASSUME Sound, NEW e \in Deeds, Makes(e)
    PROVE  /\ e.do = "document" => file' = [file EXCEPT ![e.what] = e.of]
           /\ e.do # "document" => file' = file
           /\ e.do = "state" => state' = [status |-> e.value, of |-> e.of]
           /\ e.do # "state" => state' = state
           /\ e.do = "output" => out' = [out EXCEPT ![e.what][e.value] = e.of]
           /\ e.do # "output" => out' = out
           /\ e.do # "append" => history' = history
BY DEF Makes, Perform

\* Making a pending write leads to the same documents, state and outputs.
LEMMA FileEndsSame ==
    ASSUME Sound, NEW e, Writes(e), NEW f \in Document, NEW n, FileEnds(f, n)
    PROVE  FileEnds(f, n)'
<1>1. /\ e \in Deeds /\ e \in Pending /\ Makes(e)
      /\ Pending' \subseteq Pending /\ Pending \subseteq Pending' \cup {e}
  BY DEF Writes
<1>2. file \in [Document -> 0 .. MaxSignoffs]
  BY DEF Sound, TypeOK
<1>3. \A g \in Pending' : g.do = "document" /\ g.what = f => g.of = n
  BY <1>1 DEF FileEnds
<1>4. CASE e.do = "document" /\ e.what = f
  <2>1. e.of = n /\ file'[f] = e.of
    BY <1>1, <1>2, <1>4, MakesFacts DEF FileEnds
  <2> QED
    BY <1>3, <2>1 DEF FileEnds
<1>5. CASE ~(e.do = "document" /\ e.what = f)
  <2>1. file'[f] = file[f]
    BY <1>1, <1>2, <1>5, MakesFacts
  <2>2. \A g \in Pending : g.do = "document" /\ g.what = f => g \in Pending'
    BY <1>1, <1>5
  <2> QED
    BY <1>3, <2>1, <2>2 DEF FileEnds
<1> QED
  BY <1>4, <1>5

LEMMA PolicyEndsSame ==
    ASSUME Sound, NEW e, Writes(e), PolicyEnds
    PROVE  PolicyEnds'
<1>1. /\ e \in Deeds /\ e \in Pending /\ Makes(e)
      /\ Pending' \subseteq Pending /\ Pending \subseteq Pending' \cup {e}
  BY DEF Writes
<1>2. file \in [Document -> 0 .. MaxSignoffs] /\ "policy" \in Document
  BY DEF Sound, TypeOK, Document
<1>3. \A g \in Pending' : g.do = "document" /\ g.what = "policy" => g.of # 0
  BY <1>1 DEF PolicyEnds
<1>4. CASE e.do = "document" /\ e.what = "policy"
  <2>1. e.of # 0 /\ file'["policy"] = e.of
    BY <1>1, <1>2, <1>4, MakesFacts DEF PolicyEnds
  <2> QED
    BY <1>3, <2>1 DEF PolicyEnds
<1>5. CASE ~(e.do = "document" /\ e.what = "policy")
  <2>1. file'["policy"] = file["policy"]
    BY <1>1, <1>2, <1>5, MakesFacts
  <2>2. \A g \in Pending : g.do = "document" /\ g.what = "policy" => g \in Pending'
    BY <1>1, <1>5
  <2> QED
    BY <1>3, <2>1, <2>2 DEF PolicyEnds
<1> QED
  BY <1>4, <1>5

LEMMA StateEndsSame ==
    ASSUME Sound, NEW e, Writes(e), NEW s, NEW n, StateEnds(s, n)
    PROVE  StateEnds(s, n)'
<1>1. /\ e \in Deeds /\ e \in Pending /\ Makes(e)
      /\ Pending' \subseteq Pending /\ Pending \subseteq Pending' \cup {e}
  BY DEF Writes
<1>2. \A g \in Pending' : g.do = "state" => g.value = s /\ g.of = n
  BY <1>1 DEF StateEnds
<1>3. CASE e.do = "state"
  <2>1. state' = [status |-> s, of |-> n]
    BY <1>1, <1>3, MakesFacts DEF StateEnds
  <2> QED
    BY <1>2, <2>1 DEF StateEnds
<1>4. CASE e.do # "state"
  <2>1. state' = state /\ \A g \in Pending : g.do = "state" => g \in Pending'
    BY <1>1, <1>4, MakesFacts
  <2> QED
    BY <1>2, <2>1 DEF StateEnds
<1> QED
  BY <1>3, <1>4

LEMMA PackagesEndSame ==
    ASSUME Sound, NEW e, Writes(e), PackagesEnd
    PROVE  PackagesEnd'
<1>1. /\ e \in Deeds /\ e \in Pending /\ Makes(e)
      /\ Pending' \subseteq Pending /\ Pending \subseteq Pending' \cup {e}
  BY DEF Writes
<1>2. out \in [Package -> [Part -> Bad .. MaxSignoffs]] /\ {"dir", "zip"} \subseteq Part
  BY DEF Sound, TypeOK, Part
<1> SUFFICES ASSUME NEW p \in Package, NEW x \in {"dir", "zip"}
             PROVE  /\ \A g \in Pending' : g.do = "output" /\ g.what = p /\ g.value = x => g.of = 0
                    /\ out'[p][x] = 0 \/ \E g \in Pending' : g.do = "output" /\ g.what = p /\ g.value = x
  BY DEF PackagesEnd
<1>3. /\ \A g \in Pending : g.do = "output" /\ g.what = p /\ g.value = x => g.of = 0
      /\ out[p][x] = 0 \/ \E g \in Pending : g.do = "output" /\ g.what = p /\ g.value = x
  BY DEF PackagesEnd
<1>4. CASE e.do = "output" /\ e.what = p /\ e.value = x
  <2>1. e.of = 0 /\ out' = [out EXCEPT ![p] = [@ EXCEPT ![x] = 0]]
    BY <1>1, <1>3, <1>4, MakesFacts
  <2>2. out'[p][x] = 0
    BY <1>2, <2>1
  <2> QED
    BY <1>1, <1>3, <2>2
<1>5. CASE ~(e.do = "output" /\ e.what = p /\ e.value = x)
  <2>1. out'[p][x] = out[p][x]
    <3>1. CASE e.do = "output"
      <4>1. e.what \in Package /\ e.value \in Part /\ out' = [out EXCEPT ![e.what] = [@ EXCEPT ![e.value] = e.of]]
        BY <1>1, <3>1, DeedFacts, MakesFacts
      <4>2. CASE e.what # p
        BY <1>2, <4>1, <4>2
      <4>3. CASE e.what = p
        <5>1. out'[p] = [out[p] EXCEPT ![e.value] = e.of] /\ e.value # x
          BY <1>2, <1>5, <3>1, <4>1, <4>3
        <5> QED
          BY <1>2, <5>1
      <4> QED
        BY <4>2, <4>3
    <3>2. CASE e.do # "output"
      BY <1>1, <3>2, MakesFacts
    <3> QED
      BY <3>1, <3>2
  <2>2. \A g \in Pending : g.do = "output" /\ g.what = p /\ g.value = x => g \in Pending'
    BY <1>1, <1>5
  <2> QED
    BY <1>1, <1>3, <2>1, <2>2
<1> QED
  BY <1>4, <1>5

\* It also leads to the same sign-off.
LEMMA ComesSame ==
    ASSUME Sound, Turns, NEW e, Writes(e), NEW n
    PROVE  /\ ComesSigned(n) => ComesSigned(n)'
           /\ ComesReset(n) => ComesReset(n)'
<1>1. /\ e \in Deeds /\ e \in Pending /\ Makes(e)
      /\ Pending' \subseteq Pending /\ Pending \subseteq Pending' \cup {e}
      /\ \A f \in Pending' : Follows(e, f)
      /\ history \in Seq(HistoryRow) /\ RowsAreNumbered
  BY HistoryType DEF Writes, Sound
<1>2. CASE e.do # "append"
  <2>1. history' = history
    BY <1>1, <1>2, MakesFacts
  <2>2. \A f \in Pending : f.do = "append" => f \in Pending'
    BY <1>1, <1>2
  <2> QED
    BY <1>1, <2>1, <2>2, SameHistory DEF ComesSigned, ComesReset
<1>3. CASE e.do = "append"
  <2>1. PICK row \in HistoryRow :
          /\ row.type = e.value.type /\ row.type \in RowTypes /\ row.of = e.of /\ row.of \in Number
          /\ history' = Append(history, row)
    BY <1>1, <1>3 DEF Makes
  <2>2. /\ history' \in Seq(HistoryRow) /\ Len(history) \in Nat /\ Len(history') = Len(history) + 1
        /\ history'[Len(history) + 1] = row
        /\ row.type \in {"signed", "reset"} => Latest' = row.of /\ (IsSigned' <=> row.type = "signed")
        /\ row.type \notin {"signed", "reset"} => Latest' = Latest /\ (IsSigned' <=> IsSigned)
    BY <1>1, <2>1, LatestOfAppend
  <2>3. Last(history') = row /\ history' # << >>
    BY <2>2, EmptySeq DEF Last
  <2>4. ASSUME ComesSigned(n) PROVE ComesSigned(n)'
    <3>1. CASE \E f \in Pending' : f.do = "append" /\ f.value.type = "signed" /\ f.of = n
      BY <3>1 DEF ComesSigned
    <3>2. CASE e.value.type = "signed" /\ e.of = n
      <4>1. \A f \in Pending' : f.do # "append"
        BY <1>1, <1>3, <3>2 DEF Follows
      <4> QED
        BY <2>1, <2>2, <3>2, <4>1 DEF ComesSigned
    <3>3. CASE IsSigned /\ Latest = n /\ \A f \in Pending : f.do = "append" => f.value.type # "reset"
      <4>1. e.value.type \notin {"signed", "reset"}
        BY <1>1, <1>3, <3>3 DEF Turns, AppendsAreDue
      <4>2. IsSigned' /\ Latest' = n
        BY <2>1, <2>2, <3>3, <4>1
      <4> QED
        BY <1>1, <3>3, <4>2 DEF ComesSigned
    <3> QED
      BY <1>1, <2>4, <3>1, <3>2, <3>3 DEF ComesSigned
  <2>5. ASSUME ComesReset(n) PROVE ComesReset(n)'
    <3>1. CASE \E f \in Pending' : f.do = "append" /\ f.value.type = "reset" /\ f.of = n
      BY <3>1 DEF ComesReset
    <3>2. CASE e.value.type = "reset" /\ e.of = n
      <4>1. \A f \in Pending' : f.do # "append"
        BY <1>1, <1>3, <3>2 DEF Follows
      <4> QED
        BY <2>1, <2>2, <2>3, <3>2, <4>1 DEF ComesReset
    <3> QED
      BY <1>1, <1>3, <2>5, <3>1, <3>2 DEF ComesReset
  <2> QED
    BY <2>4, <2>5
<1> QED
  BY <1>2, <1>3

\* A call that signs leaves the sign-off in force, once it is done.
LEMMA SignEndsSigned ==
    ASSUME Sound, SignEnters, NEW n, n = NextNumber
    PROVE  EndsSigned(n)'
<1>1. Pending' = SignDeeds(n) /\ n # 0
  BY SignoffAssumption DEF SignEnters, Begins, Number
<1> DEFINE a == Deed("document", "signoff", n, evidence)
           b == AppendOf("signed", n, None)
           c == Deed("document", "binding", n, None)
           d == Deed("document", "policy", n, None)
           e == Deed("state", None, n, "signed")
<1>2. /\ a.do = "document" /\ a.what = "signoff" /\ a.of = n
      /\ b.do = "append" /\ b.value.type = "signed" /\ b.of = n
      /\ c.do = "document" /\ c.what = "binding" /\ c.of = n
      /\ d.do = "document" /\ d.what = "policy" /\ d.of = n
      /\ e.do = "state" /\ e.value = "signed" /\ e.of = n
  BY DEF Deed, AppendOf, Row
<1>3. Pending' = {a, b, c, d, e}
  BY <1>1 DEF SignDeeds
<1> HIDE DEF a, b, c, d, e
<1>4. ComesSigned(n)'
  BY <1>2, <1>3 DEF ComesSigned
<1>5. FileEnds("signoff", n)' /\ FileEnds("binding", n)' /\ PolicyEnds'
  BY <1>1, <1>2, <1>3 DEF FileEnds, PolicyEnds
<1>6. StateEnds("signed", n)'
  BY <1>2, <1>3 DEF StateEnds
<1> QED
  BY <1>4, <1>5, <1>6 DEF EndsSigned

\* The outputs that a reset takes away.
LEMMA ClearDeedFacts ==
    /\ \A e \in ClearDeeds : e.do = "output" /\ e.of = 0
    /\ \A p \in Package, x \in {"dir", "zip"} : \E e \in ClearDeeds : e.do = "output" /\ e.what = p /\ e.value = x
<1>1. \A p \in Package, x \in {"dir", "zip"} : Deed("output", p, 0, x) \in ClearDeeds
  BY DEF ClearDeeds, Puts, Package
<1>2. \A p \in Package, x \in {"dir", "zip"} :
         Deed("output", p, 0, x).do = "output" /\ Deed("output", p, 0, x).what = p /\ Deed("output", p, 0, x).value = x
  BY DEF Deed
<1> QED
  BY <1>1, <1>2, PlanOfClear

\* A call that resets leaves no sign-off in force, once it is done.
LEMMA ResetEndsReset ==
    ASSUME Sound, NEW r \in Request, NEW n, n = Latest, Begins(ResetDeeds(r, n))
    PROVE  EndsReset(n)'
<1> DEFINE b == AppendOf("reset", n, r)
           c == Deed("document", "proof", n, None)
           d == Deed("request", r, n, "applied")
           e == Deed("document", "signoff", 0, None)
           f == Deed("document", "binding", 0, None)
           g == Deed("state", None, n, "reset")
           K == KeepDeeds(n)
<1>1. /\ b.do = "append" /\ b.value.type = "reset" /\ b.of = n
      /\ c.do = "document" /\ c.what = "proof" /\ c.of = n
      /\ d.do = "request"
      /\ e.do = "document" /\ e.what = "signoff" /\ e.of = 0
      /\ f.do = "document" /\ f.what = "binding" /\ f.of = 0
      /\ g.do = "state" /\ g.value = "reset" /\ g.of = n
  BY DEF Deed, AppendOf, Row
<1>2. \A k \in K : k.do = "keep"
  BY DEF KeepDeeds, Deed
<1>3. Pending' = K \cup {b, c, d, e, f, g} \cup ClearDeeds
  BY DEF Begins, ResetDeeds
<1> HIDE DEF b, c, d, e, f, g, K
<1>4. ComesReset(n)'
  BY <1>1, <1>3 DEF ComesReset
<1>5. FileEnds("signoff", 0)' /\ FileEnds("binding", 0)' /\ FileEnds("proof", n)'
  <2>1. \A k \in Pending' : k.do = "document" => k \in {c, e, f}
    BY <1>1, <1>2, <1>3, ClearDeedFacts
  <2>2. {c, e, f} \subseteq Pending'
    BY <1>3
  <2> QED
    BY <1>1, <2>1, <2>2 DEF FileEnds
<1>6. StateEnds("reset", n)'
  <2>1. \A k \in Pending' : k.do = "state" => k = g
    BY <1>1, <1>2, <1>3, ClearDeedFacts
  <2> QED
    BY <1>1, <1>3, <2>1 DEF StateEnds
<1>7. PackagesEnd'
  <2>1. \A k \in Pending' : k.do = "output" => k \in ClearDeeds
    BY <1>1, <1>2, <1>3, ClearDeedFacts
  <2>2. ClearDeeds \subseteq Pending'
    BY <1>3
  <2> QED
    BY <2>1, <2>2, ClearDeedFacts DEF PackagesEnd
<1> QED
  BY <1>4, <1>5, <1>6, <1>7 DEF EndsReset

\* Any other call writes no document and no state, and records no reset.
LEMMA OtherDeeds ==
    ASSUME RequestEnters \/ ApproveEnters \/ ExportEnters \/ BuildEnters
    PROVE  /\ Begins(Pending')
           /\ \A e \in Pending' : e.do # "document" /\ e.do # "state"
           /\ \A e \in Pending' : e.do = "append" => e.value.type # "reset"
<1>1. CASE RequestEnters \/ ApproveEnters
  <2>1. Begins(Pending') /\ \A e \in Pending' : e.do \in {"request", "approval"}
    BY <1>1 DEF RequestEnters, ApproveEnters, Begins, MarkDeeds, ApproveDeeds, Deed
  <2> QED
    BY <2>1
<1>2. CASE ExportEnters
  <2>1. PICK p \in Package : Begins(ExportDeeds(p, Latest))
    BY <1>2 DEF ExportEnters
  <2>2. Pending' = ExportDeeds(p, Latest) /\ Begins(Pending')
    BY <2>1 DEF Begins
  <2>3. \A e \in Pending' : e.do \in {"append", "output"} /\ (e.do = "append" => e.value.type = Exported(p))
    BY <2>2, ExportDeedFacts
  <2> QED
    BY <2>2, <2>3, RowTypeFacts
<1>3. CASE BuildEnters
  <2>1. PICK p \in Package : Begins(BuildDeeds(p, Latest))
    BY <1>3 DEF BuildEnters
  <2>2. Pending' = BuildDeeds(p, Latest) /\ Begins(Pending')
    BY <2>1 DEF Begins
  <2>3. \A e \in Pending' : /\ e.do \in {"append", "output"}
                            /\ e.do = "append" => e.value.type \in {Built(p), Exported(p)}
    BY <2>2, BuildDeedFacts
  <2> QED
    BY <2>2, <2>3, RowTypeFacts
<1> QED
  BY <1>1, <1>2, <1>3

\* So the sign-off in force stays in force.
LEMMA OtherEndsSigned ==
    ASSUME Sound, SignedEnters, ~ResetEnters, NEW n, n = Latest
    PROVE  EndsSigned(n)'
<1>1. /\ Begins(Pending') /\ Bound /\ IsSigned
      /\ \A e \in Pending' : e.do # "document" /\ e.do # "state"
      /\ \A e \in Pending' : e.do = "append" => e.value.type # "reset"
  BY OtherDeeds DEF SignedEnters
<1>2. history' = history /\ file' = file /\ state' = state
  BY <1>1 DEF Begins, disk
<1>3. Latest' = n /\ IsSigned'
  BY <1>1, <1>2, SameHistory
<1>4. ComesSigned(n)'
  BY <1>1, <1>3 DEF ComesSigned
<1>5. FileEnds("signoff", n)' /\ FileEnds("binding", n)' /\ PolicyEnds'
  BY <1>1, <1>2 DEF FileEnds, PolicyEnds, Bound
<1>6. \E s \in {"signed", "reset"} : StateEnds(s, n)'
  <2>1. PICK s \in {"signed", "reset"} : state = [status |-> s, of |-> n]
    BY <1>1 DEF Sound, TypeOK, Bound
  <2>2. StateEnds(s, n)'
    BY <1>1, <1>2, <2>1 DEF StateEnds
  <2> QED
    BY <2>2
<1> QED
  BY <1>4, <1>5, <1>6 DEF EndsSigned

\* Every step keeps the three situations apart.
LEMMA IntactNext ==
    ASSUME Sound, Turns, Intact, [Next]_vars
    PROVE  Intact'
<1> SUFFICES ASSUME cuts' = 0, losses' = 0
             PROVE  New' \/ \E n \in Number : EndsSigned(n)' \/ EndsReset(n)'
  BY DEF Intact
<1>0. cuts \in Nat /\ losses \in Nat
  BY DEF Sound, TypeOK
<1>1. ASSUME New, Pending' = {}, UNCHANGED <<history, file, state, kept, request>>,
             \A p \in Package, x \in {"dir", "zip"} : out'[p][x] = out[p][x]
      PROVE  New'
  BY <1>1 DEF New
<1>2. ASSUME NEW n \in Number, EndsSigned(n) \/ EndsReset(n), Pending' = Pending, UNCHANGED <<history, file, state>>,
             \A p \in Package, x \in {"dir", "zip"} : out'[p][x] = out[p][x]
      PROVE  EndsSigned(n)' \/ EndsReset(n)'
  <2>1. Latest' = Latest /\ (IsSigned' <=> IsSigned)
    BY <1>2, SameHistory
  <2>2. /\ ComesSigned(n) => ComesSigned(n)'
        /\ ComesReset(n) => ComesReset(n)'
    BY <1>2, <2>1 DEF ComesSigned, ComesReset
  <2>3. /\ \A f \in Document : \A m \in 0 .. MaxSignoffs : FileEnds(f, m) => FileEnds(f, m)'
        /\ PolicyEnds => PolicyEnds'
        /\ \A s : StateEnds(s, n) => StateEnds(s, n)'
        /\ PackagesEnd => PackagesEnd'
    BY <1>2 DEF FileEnds, PolicyEnds, StateEnds, PackagesEnd
  <2>4. {"signoff", "binding", "proof"} \subseteq Document /\ n \in 0 .. MaxSignoffs /\ 0 \in 0 .. MaxSignoffs
    BY SignoffAssumption DEF Document, Number
  <2> QED
    BY <1>2, <2>2, <2>3, <2>4 DEF EndsSigned, EndsReset
<1>3. CASE Rests \/ Reports
  <2>1. /\ Pending' = Pending /\ cuts' = cuts /\ losses' = losses
        /\ UNCHANGED <<history, file, state, kept, request>>
        /\ \A p \in Package, x \in {"dir", "zip"} : out'[p][x] = out[p][x]
    BY <1>3 DEF Rests, Reports, disk
  <2>2. New \/ \E n \in Number : EndsSigned(n) \/ EndsReset(n)
    BY <2>1 DEF Intact
  <2>3. CASE New
    <3>1. Pending' = {}
      BY <2>1, <2>3 DEF New
    <3> QED
      BY <1>1, <2>1, <2>3, <3>1
  <2>4. CASE \E n \in Number : EndsSigned(n) \/ EndsReset(n)
    BY <1>2, <2>1, <2>4
  <2> QED
    BY <2>2, <2>3, <2>4
<1>4. CASE Breaks \/ Loses
  BY <1>0, <1>4 DEF Breaks, Loses
<1>5. CASE SignEnters
  BY <1>5, SignEndsSigned DEF SignEnters
<1>6. CASE SignedEnters
  <2>1. PICK n \in Number : n = Latest
    BY <1>6 DEF SignedEnters
  <2>2. CASE ResetEnters
    <3>1. \E r \in Request : Begins(ResetDeeds(r, n))
      BY <2>1, <2>2 DEF ResetEnters
    <3> QED
      BY <2>1, <3>1, ResetEndsReset
  <2>3. CASE ~ResetEnters
    BY <1>6, <2>1, <2>3, OtherEndsSigned
  <2> QED
    BY <2>2, <2>3
<1>7. ASSUME NEW e \in Deeds, Writes(e) PROVE New' \/ \E n \in Number : EndsSigned(n)' \/ EndsReset(n)'
  <2>1. e \in Pending /\ cuts' = cuts /\ losses' = losses
    BY <1>7 DEF Writes
  <2>2. PICK n \in Number : EndsSigned(n) \/ EndsReset(n)
    BY <2>1 DEF Intact, New
  <2>3. "signoff" \in Document /\ "binding" \in Document /\ "proof" \in Document
    BY DEF Document
  <2>4. CASE EndsSigned(n)
    <3>1. ComesSigned(n)' /\ FileEnds("signoff", n)' /\ FileEnds("binding", n)' /\ PolicyEnds'
      BY <1>7, <2>3, <2>4, ComesSame, FileEndsSame, PolicyEndsSame DEF EndsSigned
    <3>2. \E s \in {"signed", "reset"} : StateEnds(s, n)'
      BY <1>7, <2>4, StateEndsSame DEF EndsSigned
    <3> QED
      BY <3>1, <3>2 DEF EndsSigned
  <2>5. CASE EndsReset(n)
    <3>1. /\ ComesReset(n)' /\ FileEnds("signoff", 0)' /\ FileEnds("binding", 0)' /\ FileEnds("proof", n)'
      BY <1>7, <2>3, <2>5, ComesSame, FileEndsSame DEF EndsReset
    <3>2. StateEnds("reset", n)' /\ PackagesEnd'
      BY <1>7, <2>5, StateEndsSame, PackagesEndSame DEF EndsReset
    <3> QED
      BY <3>1, <3>2 DEF EndsReset
  <2> QED
    BY <2>2, <2>4, <2>5
<1> QED
  BY <1>3, <1>4, <1>5, <1>6, <1>7, StepKinds

LEMMA IntactInit == Init => Intact
<1> SUFFICES ASSUME Init PROVE New
  BY DEF Intact
<1>1. Pending = {} /\ {"dir", "zip"} \subseteq Part
  BY DEF Init, Pending, Part
<1> QED
  BY <1>1 DEF Init, New

\* Between the calls each of the three situations lets somebody go on.
LEMMA IntactGoesOn ==
    ASSUME Sound, Intact
    PROVE  NeverStuck
<1> SUFFICES ASSUME holder = None, cuts = 0, losses = 0
             PROVE  MaySign \/ Bound \/ (~IsSigned /\ \E p \in Package : out[p]["report"] # 0)
  BY DEF NeverStuck
<1>1. Pending = {} /\ Linked(history)
  BY DEF Pending, Sound, HistoryIsChain
<1>2. ASSUME \A p \in Package, x \in {"dir", "zip"} : out[p][x] = 0, \A p \in Package : out[p]["report"] = 0
      PROVE  ~Outputs
  BY <1>2 DEF Outputs, Part
<1>3. CASE New
  <2>1. ~IsSigned
    BY <1>3, TurnsOfEmpty DEF New
  <2> QED
    BY <1>2, <1>3, <2>1 DEF New, MaySign
<1>4. ASSUME NEW n \in Number, EndsSigned(n) PROVE Bound
  <2>1. IsSigned /\ Latest = n /\ file["signoff"] = n /\ file["binding"] = n /\ file["policy"] # 0
    BY <1>1, <1>4 DEF EndsSigned, ComesSigned, FileEnds, PolicyEnds
  <2>2. state.status # "none" /\ state.of = n
    BY <1>1, <1>4 DEF EndsSigned, StateEnds
  <2> QED
    BY <1>1, <2>1, <2>2 DEF Bound
<1>5. ASSUME NEW n \in Number, EndsReset(n)
      PROVE  MaySign \/ (~IsSigned /\ \E p \in Package : out[p]["report"] # 0)
  <2>1. /\ ~IsSigned /\ Latest = n /\ history # << >> /\ Last(history).type = "reset"
        /\ file["signoff"] = 0 /\ file["binding"] = 0 /\ file["proof"] = n
    BY <1>1, <1>5 DEF EndsReset, ComesReset, FileEnds
  <2>2. state = [status |-> "reset", of |-> n] /\ \A p \in Package, x \in {"dir", "zip"} : out[p][x] = 0
    BY <1>1, <1>5 DEF EndsReset, StateEnds, PackagesEnd
  <2> QED
    BY <1>1, <1>2, <2>1, <2>2 DEF MaySign
<1> QED
  BY <1>3, <1>4, <1>5 DEF Intact

\* Without faults no call but a verification leaves the program where it can neither be signed
\* nor worked on under the sign-off in force, whatever the order of the calls.
THEOREM SignoffNeverStuck == Spec => []NeverStuck
<1>1. Sound /\ Turns /\ Intact /\ [Next]_vars => (Sound /\ Turns /\ Intact)'
  BY SoundNext, TurnsNext, IntactNext
<1> QED
  BY SoundInit, TurnsInit, IntactInit, IntactGoesOn, <1>1, PTL DEF Spec

================================================================================
