----------------------------- MODULE OutboxProofs -----------------------------
(***************************************************************************)
(* Proofs about Outbox, for any number of entries and any values of the    *)
(* bounds: type correctness without further assumptions; that nothing is   *)
(* lost, the refinement of DeliveryQueue, and that what the user is told   *)
(* is true, under OneAtATime.                                              *)
(***************************************************************************)
EXTENDS Outbox, TLAPS

USE MirroredAssumption, TargetedAssumption, NoneAssumption, LateLoadAssumption,
    LateShareAssumption, KindsAssumption, FaultsAssumption

-----------------------------------------------------------------------------
(***************************************************************************)
(* Queues.                                                                 *)
(***************************************************************************)

\* A new id at the end of a queue.
LEMMA AppendFacts ==
    ASSUME NEW s \in Seq(Entries), NEW x \in Entries
    PROVE  /\ Append(s, x) \in Seq(Entries)
           /\ Append(s, x) # <<>>
           /\ Range(Append(s, x)) = Range(s) \cup {x}
           /\ s # <<>> => Head(Append(s, x)) = Head(s)
           /\ Unique(s) /\ x \notin Range(s) => Unique(Append(s, x))
<1>1. /\ Append(s, x) \in Seq(Entries)
      /\ Len(Append(s, x)) = Len(s) + 1
      /\ DOMAIN Append(s, x) = 1 .. Len(s) + 1
      /\ DOMAIN s = 1 .. Len(s)
      /\ Len(s) \in Nat
      /\ \A i \in 1 .. Len(s) : Append(s, x)[i] = s[i]
      /\ Append(s, x)[Len(s) + 1] = x
  OBVIOUS
<1>2. Range(Append(s, x)) = Range(s) \cup {x}
  <2>1. Range(Append(s, x)) \subseteq Range(s) \cup {x}
    BY <1>1 DEF Range
  <2>2. Range(s) \subseteq Range(Append(s, x))
    BY <1>1 DEF Range
  <2>3. x \in Range(Append(s, x))
    <3>1. Len(s) + 1 \in DOMAIN Append(s, x)
      BY <1>1
    <3> QED
      BY <3>1, <1>1 DEF Range
  <2> QED
    BY <2>1, <2>2, <2>3
<1>3. s # <<>> => Head(Append(s, x)) = Head(s)
  BY <1>1
<1>4. ASSUME Unique(s), x \notin Range(s) PROVE Unique(Append(s, x))
  <2>1. \A i \in 1 .. Len(s) : s[i] # x
    BY <1>1, <1>4 DEF Range
  <2> QED
    BY <1>1, <1>4, <2>1 DEF Unique, IsInjective
<1> QED
  BY <1>1, <1>2, <1>3, <1>4

\* The queue without its head.
LEMMA TailFacts ==
    ASSUME NEW s \in Seq(Entries), s # <<>>
    PROVE  /\ Tail(s) \in Seq(Entries)
           /\ Head(s) \in Range(s)
           /\ Range(s) \subseteq Entries
           /\ Range(s) = {Head(s)} \cup Range(Tail(s))
           /\ Unique(s) => Unique(Tail(s)) /\ Head(s) \notin Range(Tail(s))
<1>1. /\ Tail(s) \in Seq(Entries)
      /\ Len(s) \in Nat /\ Len(s) > 0
      /\ DOMAIN s = 1 .. Len(s)
      /\ DOMAIN Tail(s) = 1 .. Len(s) - 1
      /\ \A i \in 1 .. Len(s) - 1 : Tail(s)[i] = s[i + 1]
      /\ Head(s) = s[1]
  OBVIOUS
<1>2. Head(s) \in Range(s) /\ Range(s) \subseteq Entries
  BY <1>1 DEF Range
<1>3. Range(Tail(s)) \subseteq Range(s)
  <2>1. \A i \in 1 .. Len(s) - 1 : i + 1 \in 1 .. Len(s)
    BY <1>1
  <2> QED
    BY <1>1, <2>1 DEF Range
<1>4. Range(s) \subseteq {Head(s)} \cup Range(Tail(s))
  <2> SUFFICES ASSUME NEW i \in 1 .. Len(s), i # 1 PROVE s[i] \in Range(Tail(s))
    BY <1>1 DEF Range
  <2>1. i - 1 \in 1 .. Len(s) - 1 /\ Tail(s)[i - 1] = s[i]
    BY <1>1
  <2> QED
    BY <1>1, <2>1 DEF Range
<1>5. ASSUME Unique(s) PROVE Unique(Tail(s))
  <2> SUFFICES ASSUME NEW i \in 1 .. Len(s) - 1, NEW j \in 1 .. Len(s) - 1,
                      Tail(s)[i] = Tail(s)[j]
               PROVE  i = j
    BY <1>1 DEF Unique, IsInjective
  <2>1. i + 1 \in DOMAIN s /\ j + 1 \in DOMAIN s /\ s[i + 1] = s[j + 1]
    BY <1>1
  <2>2. i + 1 = j + 1
    BY <1>5, <2>1 DEF Unique, IsInjective
  <2> QED
    BY <2>2
<1>6. ASSUME Unique(s) PROVE Head(s) \notin Range(Tail(s))
  <2> SUFFICES ASSUME NEW i \in 1 .. Len(s) - 1, Tail(s)[i] = s[1]
               PROVE  FALSE
    BY <1>1 DEF Range
  <2>1. i + 1 \in DOMAIN s /\ 1 \in DOMAIN s /\ s[i + 1] = s[1] /\ i + 1 # 1
    BY <1>1
  <2> QED
    BY <1>6, <2>1 DEF Unique, IsInjective
<1> QED
  BY <1>1, <1>2, <1>3, <1>4, <1>5, <1>6

\* Concatenation.
LEMMA ConcatFacts ==
    ASSUME NEW a \in Seq(Entries), NEW b \in Seq(Entries)
    PROVE  /\ a \o b \in Seq(Entries)
           /\ Len(a \o b) = Len(a) + Len(b)
           /\ DOMAIN (a \o b) = 1 .. Len(a) + Len(b)
           /\ \A k \in 1 .. Len(a) + Len(b) :
                 (a \o b)[k] = IF k <= Len(a) THEN a[k] ELSE b[k - Len(a)]
OBVIOUS

\* The queue without the entry at place i.
LEMMA CutFacts ==
    ASSUME NEW s \in Seq(Entries), NEW i \in DOMAIN s
    PROVE  LET cut == SubSeq(s, 1, i - 1) \o SubSeq(s, i + 1, Len(s)) IN
           /\ cut \in Seq(Entries)
           /\ s[i] \in Range(s)
           /\ Range(s) = {s[i]} \cup Range(cut)
           /\ Unique(s) => Unique(cut) /\ s[i] \notin Range(cut)
           /\ i # 1 => Head(cut) = Head(s)
<1> DEFINE a == SubSeq(s, 1, i - 1)
           b == SubSeq(s, i + 1, Len(s))
           cut == a \o b
<1>1. DOMAIN s = 1 .. Len(s) /\ Len(s) \in Nat /\ i \in 1 .. Len(s)
  OBVIOUS
<1>2. /\ a \in Seq(Entries) /\ Len(a) = i - 1
      /\ \A k \in 1 .. i - 1 : a[k] = s[k]
  BY <1>1
<1>3. /\ b \in Seq(Entries) /\ Len(b) = Len(s) - i
      /\ \A k \in 1 .. Len(s) - i : b[k] = s[i + k]
  <2>1. b \in Seq(Entries)
    BY <1>1
  <2>2. Len(b) = Len(s) - i
    BY <1>1
  <2>3. \A k \in 1 .. Len(s) - i : b[k] = s[i + k]
    BY <1>1
  <2> QED
    BY <2>1, <2>2, <2>3
<1>4. cut \in Seq(Entries) /\ Len(cut) = Len(s) - 1 /\ DOMAIN cut = 1 .. Len(s) - 1
  <2>1. Len(a) + Len(b) = Len(s) - 1
    BY <1>1, <1>2, <1>3
  <2>2. a \in Seq(Entries) /\ b \in Seq(Entries)
    BY <1>2, <1>3
  <2>3. /\ cut \in Seq(Entries) /\ Len(cut) = Len(a) + Len(b)
        /\ DOMAIN cut = 1 .. Len(a) + Len(b)
    <3> HIDE DEF a, b
    <3> QED
      BY <2>2, ConcatFacts
  <2> HIDE DEF cut
  <2> QED
    BY <2>1, <2>3
<1>5. \A k \in 1 .. Len(s) - 1 : cut[k] = IF k < i THEN s[k] ELSE s[k + 1]
  <2> SUFFICES ASSUME NEW k \in 1 .. Len(s) - 1
               PROVE  cut[k] = IF k < i THEN s[k] ELSE s[k + 1]
    OBVIOUS
  <2>1. cut[k] = IF k <= Len(a) THEN a[k] ELSE b[k - Len(a)]
    <3>1. k \in 1 .. Len(a) + Len(b)
      BY <1>1, <1>2, <1>3
    <3> QED
      BY <1>2, <1>3, <3>1, ConcatFacts
  <2> HIDE DEF a, b, cut
  <2>2. CASE k < i
    BY <1>1, <1>2, <2>1, <2>2
  <2>3. CASE ~(k < i)
    <3>1. k - Len(a) \in 1 .. Len(s) - i /\ i + (k - Len(a)) = k + 1 /\ ~(k <= Len(a))
      BY <1>1, <1>2, <2>3
    <3>2. b[k - Len(a)] = s[i + (k - Len(a))]
      BY <1>3, <3>1
    <3> QED
      BY <2>1, <2>3, <3>1, <3>2
  <2> QED
    BY <2>2, <2>3
<1> HIDE DEF cut
<1>6. s[i] \in Range(s)
  BY DEF Range
<1>7. Range(cut) \subseteq Range(s)
  <2> SUFFICES ASSUME NEW k \in 1 .. Len(s) - 1 PROVE cut[k] \in Range(s)
    BY <1>4 DEF Range
  <2>1. k \in DOMAIN s /\ k + 1 \in DOMAIN s
    BY <1>1
  <2> QED
    BY <1>5, <2>1 DEF Range
<1>8. Range(s) \subseteq {s[i]} \cup Range(cut)
  <2> SUFFICES ASSUME NEW k \in 1 .. Len(s), k # i PROVE s[k] \in Range(cut)
    BY <1>1 DEF Range
  <2>1. CASE k < i
    <3>1. k \in DOMAIN cut /\ cut[k] = s[k]
      BY <1>1, <1>4, <1>5, <2>1
    <3> QED
      BY <3>1 DEF Range
  <2>2. CASE k > i
    <3>1. k - 1 \in DOMAIN cut /\ cut[k - 1] = s[k]
      BY <1>1, <1>4, <1>5, <2>2
    <3> QED
      BY <3>1 DEF Range
  <2> QED
    BY <1>1, <2>1, <2>2
<1>9. ASSUME Unique(s) PROVE Unique(cut)
  <2> SUFFICES ASSUME NEW k \in 1 .. Len(s) - 1, NEW l \in 1 .. Len(s) - 1,
                      cut[k] = cut[l]
               PROVE  k = l
    BY <1>4 DEF Unique, IsInjective
  <2>1. \A p, q \in DOMAIN s : s[p] = s[q] => p = q
    BY <1>9 DEF Unique, IsInjective
  <2>2. PICK p \in 1 .. Len(s) : cut[k] = s[p] /\ p = IF k < i THEN k ELSE k + 1
    BY <1>1, <1>5
  <2>3. PICK q \in 1 .. Len(s) : cut[l] = s[q] /\ q = IF l < i THEN l ELSE l + 1
    BY <1>1, <1>5
  <2> HIDE DEF cut
  <2>4. p = q
    BY <1>1, <2>1, <2>2, <2>3
  <2> QED
    BY <1>1, <2>2, <2>3, <2>4
<1>10. ASSUME Unique(s) PROVE s[i] \notin Range(cut)
  <2> SUFFICES ASSUME NEW k \in 1 .. Len(s) - 1, cut[k] = s[i]
               PROVE  FALSE
    BY <1>4 DEF Range
  <2>1. PICK p \in 1 .. Len(s) : cut[k] = s[p] /\ p # i
    BY <1>1, <1>5
  <2> QED
    BY <1>1, <1>10, <2>1 DEF Unique, IsInjective
<1>11. ASSUME i # 1 PROVE Head(cut) = Head(s)
  <2>1. cut[1] = s[1] /\ Head(s) = s[1]
    BY <1>1, <1>5, <1>11
  <2>2. cut \in Seq(Entries) /\ Len(cut) > 0
    BY <1>1, <1>4, <1>11
  <2>3. Head(cut) = cut[1]
    BY <2>2
  <2> QED
    BY <2>1, <2>3
<1> QED
  BY <1>4, <1>6, <1>7, <1>8, <1>9, <1>10, <1>11 DEF cut

\* The empty queue.
LEMMA EmptyFacts ==
    /\ Range(<<>>) = {}
    /\ Unique(<<>>)
    /\ <<>> \in Seq(Entries)
BY DEF Range, Unique, IsInjective

\* What persist() writes is what load() parses.
LEMMA PersistFacts ==
    ASSUME NEW s \in Seq(Entries), NEW t \in SUBSET Entries, Persist(s, t)
    PROVE  /\ stored' \in Value
           /\ stored' # None
           /\ Parsed(stored') = stored'
           /\ Parsed(stored').ids = s
           /\ Parsed(stored').tried = t \cap Range(s)
BY DEF Persist, Value, Parsed

\* Whatever is stored parses to a queue.
LEMMA ParsedFacts ==
    ASSUME NEW raw \in Value \cup {None}
    PROVE  /\ Parsed(raw).ids \in Seq(Entries)
           /\ Parsed(raw).tried \in SUBSET Entries
           /\ raw = None => Parsed(raw).ids = <<>>
BY DEF Parsed, Value

-----------------------------------------------------------------------------
(***************************************************************************)
(* Types.                                                                  *)
(***************************************************************************)

TypeInv == TypeOK /\ Known

\* The states of a flush.
LEMMA PostFacts ==
    /\ NoPost \in Post /\ NoPost.at = "idle"
    /\ \A at \in Working, x \in Entries : [at |-> at, id |-> x] \in Post
    /\ \A p \in Post : p.at \in Working \cup {"idle"}
    /\ \A p \in Post, at \in Working : p.at # "idle" =>
          /\ p.id \in Entries
          /\ [p EXCEPT !.at = at] \in Post
          /\ [p EXCEPT !.at = at].at = at
          /\ [p EXCEPT !.at = at].id = p.id
    /\ Working = {"posting", "accepted", "rejected", "denied", "shifted", "failed"}
    /\ "idle" \notin Working
BY DEF NoPost, Post, Working

\* A flush at work goes to its next state.
LEMMA AtTypes ==
    ASSUME post \in [Boxes -> Post], NEW b \in Boxes, post[b].at # "idle", NEW at \in Working
    PROVE  /\ [post EXCEPT ![b].at = at] \in [Boxes -> Post]
           /\ [post EXCEPT ![b].at = at][b].at = at
           /\ [post EXCEPT ![b].at = at][b].id = post[b].id
<1>1. [post[b] EXCEPT !.at = at] \in Post
  BY PostFacts
<1>2. [post EXCEPT ![b].at = at] = [post EXCEPT ![b] = [post[b] EXCEPT !.at = at]]
  OBVIOUS
<1> QED
  BY <1>1, <1>2, PostFacts

LEMMA TypeInit == Init => TypeInv
<1> SUFFICES ASSUME Init PROVE TypeInv
  OBVIOUS
<1>1. Parsed(None).ids = <<>>
  BY DEF Parsed
<1> QED
  <2>1. TypeOK
    <3>1. post \in [Boxes -> Post] /\ Unique(Parsed(stored).ids)
      BY <1>1, EmptyFacts, PostFacts DEF Init
    <3>2. \A b \in Boxes : Unique(entries[b]) /\ Unique(Parsed(read[b]).ids)
      BY <1>1, EmptyFacts DEF Init
    <3>3. entries \in [Boxes -> Seq(Entries)]
      BY EmptyFacts DEF Init
    <3>4. /\ stored \in Value \cup {None} /\ holder \in Boxes \cup {None}
          /\ phase \in [Boxes -> {"off", "made", "loading", "draining", "awake"}]
          /\ read \in [Boxes -> Value \cup {None}]
          /\ todo \in [Boxes -> SUBSET Mirrored]
          /\ tried \in [Boxes -> SUBSET Entries]
      BY DEF Init
    <3>5. /\ calls \in [Boxes -> Nat]
          /\ timer \in [Boxes -> BOOLEAN]
          /\ stopped \in [Boxes -> BOOLEAN]
          /\ faults \in 0 .. MaxFaults
      BY DEF Init
    <3>6. /\ mirror = {} /\ wire = {} /\ received = {} /\ sent = {} /\ posted = {}
          /\ refused = {} /\ cancelled = {} /\ lost = {}
          /\ targetGone = FALSE /\ signedIn = TRUE
      BY DEF Init
    <3> QED
      BY <3>1, <3>2, <3>3, <3>4, <3>5, <3>6 DEF TypeOK
  <2>2. Known
    BY <1>1, EmptyFacts, PostFacts DEF Init, Known, Flushing
  <2> QED
    BY <2>1, <2>2 DEF TypeInv

\* Push keeps the types: the new id is in no queue.
LEMMA PushTypes ==
    ASSUME TypeInv, NEW b \in Boxes, NEW x \in Entries, x \notin Range(entries[b]), Push(b, x)
    PROVE  /\ stored' \in Value \cup {None}
           /\ entries' \in [Boxes -> Seq(Entries)]
           /\ calls' \in [Boxes -> Nat]
           /\ sent' \subseteq Entries
           /\ sent \subseteq sent'
           /\ Unique(Parsed(stored').ids)
           /\ \A c \in Boxes : Unique(entries'[c])
           /\ Range(Parsed(stored').ids) \subseteq sent'
           /\ \A c \in Boxes : Range(entries'[c]) \subseteq sent'
<1> DEFINE s == Append(entries[b], x)
<1>1. entries[b] \in Seq(Entries) /\ Unique(entries[b]) /\ Range(entries[b]) \subseteq sent
  BY DEF TypeInv, TypeOK, Known, Flushing
<1>2. s \in Seq(Entries) /\ Unique(s) /\ Range(s) = Range(entries[b]) \cup {x}
  BY <1>1, AppendFacts
<1>3. entries' = [entries EXCEPT ![b] = s] /\ entries'[b] = s
  BY DEF Push, TypeInv, TypeOK
<1>4. Persist(s, tried[b]) /\ tried[b] \in SUBSET Entries
  BY <1>3 DEF Push, TypeInv, TypeOK
<1> HIDE DEF s
<1>5. stored' \in Value /\ Parsed(stored').ids = s
  BY <1>2, <1>4, PersistFacts
<1>6. sent' = sent \cup {x} /\ calls' \in [Boxes -> Nat]
  BY DEF Push, TypeInv, TypeOK
<1> QED
  BY <1>1, <1>2, <1>3, <1>5, <1>6 DEF TypeInv, TypeOK, Known, Flushing

\* Shift keeps the types.
LEMMA ShiftTypes ==
    ASSUME TypeInv, NEW b \in Boxes, post[b].at \in {"accepted", "rejected"}, Shift(b)
    PROVE  /\ stored' \in Value \cup {None}
           /\ entries' \in [Boxes -> Seq(Entries)]
           /\ tried' \in [Boxes -> SUBSET Entries]
           /\ post' \in [Boxes -> Post]
           /\ \A c \in Boxes : post'[c].at # "idle" => post'[c].id \in posted
           /\ Unique(Parsed(stored').ids)
           /\ \A c \in Boxes : Unique(entries'[c])
           /\ Range(Parsed(stored').ids) \subseteq sent
           /\ \A c \in Boxes : Range(entries'[c]) \subseteq sent
<1> DEFINE s == IF entries[b] = <<>> THEN entries[b] ELSE Tail(entries[b])
<1>1. entries[b] \in Seq(Entries) /\ Unique(entries[b]) /\ Range(entries[b]) \subseteq sent
  BY DEF TypeInv, TypeOK, Known, Flushing
<1>2. s \in Seq(Entries) /\ Unique(s) /\ Range(s) \subseteq sent
  BY <1>1, TailFacts
<1>3. entries' = [entries EXCEPT ![b] = s] /\ entries'[b] = s
  BY DEF Shift, TypeInv, TypeOK
<1> HIDE DEF s
<1>4. tried' \in [Boxes -> SUBSET Entries]
  BY DEF Shift, TypeInv, TypeOK
<1>5. Persist(s, tried'[b]) /\ tried'[b] \in SUBSET Entries
  BY <1>3, <1>4 DEF Shift
<1>6. stored' \in Value /\ Parsed(stored').ids = s
  BY <1>2, <1>5, PersistFacts
<1>7. /\ post' \in [Boxes -> Post]
      /\ post'[b].id = post[b].id
      /\ \A c \in Boxes : c # b => post'[c] = post[c]
  <2>1. post \in [Boxes -> Post] /\ post' = [post EXCEPT ![b].at = "shifted"]
    BY DEF Shift, TypeInv, TypeOK
  <2>2. "shifted" \in Working
    BY PostFacts
  <2>3. /\ post' \in [Boxes -> Post]
        /\ post'[b].id = post[b].id
    BY <2>1, <2>2, AtTypes
  <2>4. \A c \in Boxes : c # b => post'[c] = post[c]
    BY <2>1
  <2> QED
    BY <2>3, <2>4
<1> QED
  BY <1>1, <1>2, <1>3, <1>4, <1>6, <1>7 DEF TypeInv, TypeOK, Known, Flushing

\* Loop keeps the types.
LEMMA LoopTypes ==
    ASSUME TypeInv, NEW b \in Boxes, Loop(b, entries[b])
    PROVE  /\ post' \in [Boxes -> Post]
           /\ posted' \subseteq Entries
           /\ posted \subseteq posted'
           /\ \A c \in Boxes : post'[c].at # "idle" => post'[c].id \in posted'
<1>1. entries[b] \in Seq(Entries) /\ (entries[b] # <<>> => Head(entries[b]) \in Entries)
  BY TailFacts DEF TypeInv, TypeOK
<1> QED
  <2>1. CASE entries[b] # <<>> /\ ~stopped[b]
    <3>1. [at |-> "posting", id |-> Head(entries[b])] \in Post
      BY <1>1, <2>1, PostFacts
    <3>2. post' = [post EXCEPT ![b] = [at |-> "posting", id |-> Head(entries[b])]]
      BY <2>1 DEF Loop
    <3> QED
      BY <1>1, <2>1, <3>1, <3>2 DEF Loop, TypeInv, TypeOK, Known, Flushing
  <2>2. CASE ~(entries[b] # <<>> /\ ~stopped[b])
    <3>1. post' = [post EXCEPT ![b] = NoPost] /\ posted' = posted
      BY <2>2 DEF Loop
    <3>2. NoPost \in Post /\ NoPost.at = "idle"
      BY PostFacts
    <3> QED
      BY <3>1, <3>2 DEF TypeInv, TypeOK, Known, Flushing
  <2> QED
    BY <2>1, <2>2

LEMMA FlushTypes ==
    ASSUME TypeInv, NEW b \in Boxes, Flush(b)
    PROVE  /\ post' \in [Boxes -> Post]
           /\ posted' \subseteq Entries
           /\ posted \subseteq posted'
           /\ \A c \in Boxes : post'[c].at # "idle" => post'[c].id \in posted'
BY LoopTypes DEF Flush, TypeInv, TypeOK, Known, Flushing

LEMMA LetGoTypes ==
    ASSUME TypeInv, LetGo
    PROVE  /\ holder' \in Boxes \cup {None}
           /\ stopped' \in [Boxes -> BOOLEAN]
           /\ timer' \in [Boxes -> BOOLEAN]
BY DEF LetGo, TypeInv, TypeOK

LEMMA FaultTypes ==
    ASSUME TypeInv, NEW kind, Fault(kind)
    PROVE  faults' \in 0 .. MaxFaults
BY DEF Fault, TypeInv, TypeOK

\* What is left alone keeps its type.
LEMMA TypeSame ==
    ASSUME TypeInv, UNCHANGED vars
    PROVE  TypeInv'
BY DEF TypeInv, TypeOK, Known, Flushing, vars, boxVars, netVars, history

\* The steps of an instance.
LEMMA TypeBox ==
    ASSUME TypeInv, NEW b \in Boxes, Step(b)
    PROVE  TypeInv'
<1> USE DEF TypeInv, TypeOK, Known, Flushing, netVars, history
<1>1. CASE Load(b)
  BY <1>1 DEF Load
<1>2. CASE Loaded(b)
  <2>1. /\ Parsed(read[b]).ids \in Seq(Entries)
        /\ Parsed(read[b]).tried \in SUBSET Entries
        /\ Parsed(None).ids = <<>>
    BY ParsedFacts
  <2> QED
    BY <1>2, <2>1, EmptyFacts DEF Loaded, Peek
<1>3. CASE Drained(b)
  <2>1. /\ mirror' \subseteq Mirrored
        /\ todo' \in [Boxes -> SUBSET Mirrored]
        /\ phase' \in [Boxes -> {"off", "made", "loading", "draining", "awake"}]
        /\ calls' \in [Boxes -> Nat]
    <3>1. /\ mirror \subseteq Mirrored
          /\ todo \in [Boxes -> SUBSET Mirrored]
          /\ phase \in [Boxes -> {"off", "made", "loading", "draining", "awake"}]
          /\ calls \in [Boxes -> Nat]
      OBVIOUS
    <3> HIDE DEF TypeInv
    <3> QED
      BY <1>3, <3>1 DEF Drained
  <2>2. TypeOK'
    BY <1>3, <2>1 DEF Drained
  <2>3. Known'
    BY <1>3, <2>1 DEF Drained
  <2> QED
    BY <2>2, <2>3
<1>4. ASSUME NEW x \in Mirrored, Enqueue(b, x) PROVE TypeInv'
  <2>1. CASE Queued(b, x)
    BY <1>4, <2>1 DEF Enqueue
  <2>2. CASE ~Queued(b, x)
    <3>1. x \in Entries /\ x \notin Range(entries[b]) /\ Push(b, x)
      BY <1>4, <2>2 DEF Enqueue, Queued
    <3> HIDE DEF TypeInv
    <3>2. /\ stored' \in Value \cup {None}
          /\ entries' \in [Boxes -> Seq(Entries)]
          /\ calls' \in [Boxes -> Nat]
          /\ sent' \subseteq Entries
          /\ sent \subseteq sent'
          /\ Unique(Parsed(stored').ids)
          /\ \A c \in Boxes : Unique(entries'[c])
          /\ Range(Parsed(stored').ids) \subseteq sent'
          /\ \A c \in Boxes : Range(entries'[c]) \subseteq sent'
      BY <3>1, PushTypes
    <3> QED
      BY <1>4, <3>2 DEF Enqueue, TypeInv
  <2> QED
    BY <2>1, <2>2
<1>5. CASE Called(b)
  <2>1. post' \in [Boxes -> Post] /\ posted' \subseteq Entries /\ posted \subseteq posted'
      /\ (\A c \in Boxes : post'[c].at # "idle" => post'[c].id \in posted')
    <3> HIDE DEF TypeInv
    <3> QED
      BY <1>5, FlushTypes DEF Called
  <2>2. calls' \in [Boxes -> Nat]
    BY <1>5 DEF Called
  <2> QED
    BY <1>5, <2>1, <2>2 DEF Called
<1>6. CASE TimerFires(b)
  <2>1. post' \in [Boxes -> Post] /\ posted' \subseteq Entries /\ posted \subseteq posted'
      /\ (\A c \in Boxes : post'[c].at # "idle" => post'[c].id \in posted')
    <3> HIDE DEF TypeInv
    <3> QED
      BY <1>6, FlushTypes DEF TimerFires
  <2> QED
    BY <1>6, <2>1 DEF TimerFires
<1>7. CASE Answer(b)
  <2>1. /\ post' \in [Boxes -> Post]
        /\ post'[b].id = post[b].id
        /\ \A c \in Boxes : c # b => post'[c] = post[c]
    <3>1. post \in [Boxes -> Post] /\ post[b].at # "idle"
      BY <1>7 DEF Answer
    <3>2. \E at \in Working : post' = [post EXCEPT ![b].at = at]
      BY <1>7, PostFacts DEF Answer
    <3> HIDE DEF TypeInv
    <3> QED
      BY <3>1, <3>2, AtTypes
  <2>2. post[b].id \in Entries /\ post[b].id \in posted
    BY <1>7, PostFacts DEF Answer
  <2> QED
    BY <1>7, <2>1, <2>2 DEF Answer
<1>8. CASE Accepted(b)
  <2>1. /\ stored' \in Value \cup {None}
        /\ entries' \in [Boxes -> Seq(Entries)]
        /\ tried' \in [Boxes -> SUBSET Entries]
        /\ post' \in [Boxes -> Post]
        /\ \A c \in Boxes : post'[c].at # "idle" => post'[c].id \in posted
        /\ Unique(Parsed(stored').ids)
        /\ \A c \in Boxes : Unique(entries'[c])
        /\ Range(Parsed(stored').ids) \subseteq sent
        /\ \A c \in Boxes : Range(entries'[c]) \subseteq sent
    <3> HIDE DEF TypeInv
    <3> QED
      BY <1>8, ShiftTypes DEF Accepted
  <2> QED
    BY <1>8, <2>1 DEF Accepted
<1>9. CASE Rejected(b)
  <2>1. /\ stored' \in Value \cup {None}
        /\ entries' \in [Boxes -> Seq(Entries)]
        /\ tried' \in [Boxes -> SUBSET Entries]
        /\ post' \in [Boxes -> Post]
        /\ \A c \in Boxes : post'[c].at # "idle" => post'[c].id \in posted
        /\ Unique(Parsed(stored').ids)
        /\ \A c \in Boxes : Unique(entries'[c])
        /\ Range(Parsed(stored').ids) \subseteq sent
        /\ \A c \in Boxes : Range(entries'[c]) \subseteq sent
    <3> HIDE DEF TypeInv
    <3> QED
      BY <1>9, ShiftTypes DEF Rejected
  <2>2. post[b].id \in Entries
    BY <1>9, PostFacts DEF Rejected
  <2> QED
    BY <1>9, <2>1, <2>2 DEF Rejected
<1>10. CASE Shifted(b)
  <2>1. post' \in [Boxes -> Post] /\ posted' \subseteq Entries /\ posted \subseteq posted'
      /\ (\A c \in Boxes : post'[c].at # "idle" => post'[c].id \in posted')
    <3> HIDE DEF TypeInv
    <3> QED
      BY <1>10, LoopTypes DEF Shifted
  <2> QED
    BY <1>10, <2>1 DEF Shifted
<1>11. CASE Denied(b)
  <2>1. /\ post' \in [Boxes -> Post]
        /\ post'[b].at = "idle"
        /\ \A c \in Boxes : c # b => post'[c] = post[c]
    <3>1. post \in [Boxes -> Post] /\ post' = [post EXCEPT ![b] = NoPost]
      BY <1>11 DEF Denied
    <3> HIDE DEF TypeInv
    <3> QED
      BY <3>1, PostFacts
  <2>2. TypeOK'
    BY <1>11, <2>1 DEF Denied
  <2>3. Known'
    BY <1>11, <2>1 DEF Denied
  <2> QED
    BY <2>2, <2>3
<1>12. CASE Failed(b)
  <2>1. /\ post' \in [Boxes -> Post]
        /\ post'[b].at = "idle"
        /\ \A c \in Boxes : c # b => post'[c] = post[c]
    <3>1. post \in [Boxes -> Post] /\ post' = [post EXCEPT ![b] = NoPost]
      BY <1>12 DEF Failed
    <3> HIDE DEF TypeInv
    <3> QED
      BY <3>1, PostFacts
  <2>2. TypeOK'
    BY <1>12, <2>1 DEF Failed, RetryLater
  <2>3. Known'
    BY <1>12, <2>1 DEF Failed, RetryLater
  <2> QED
    BY <2>2, <2>3
<1> QED
  BY <1>1, <1>2, <1>3, <1>4, <1>5, <1>6, <1>7, <1>8, <1>9, <1>10, <1>11, <1>12 DEF Step

\* The steps of the environment.
LEMMA TypeEnvironment ==
    ASSUME TypeInv, Environment
    PROVE  TypeInv'
<1> USE DEF TypeInv, TypeOK, Known, Flushing, netVars, history
<1>1. ASSUME NEW b \in Boxes, Create(b) PROVE TypeInv'
  BY <1>1, EmptyFacts DEF Create
<1>2. ASSUME NEW b \in Boxes, Nudge(b) PROVE TypeInv'
  <2>1. post' \in [Boxes -> Post] /\ posted' \subseteq Entries /\ posted \subseteq posted'
      /\ (\A c \in Boxes : post'[c].at # "idle" => post'[c].id \in posted')
    <3> HIDE DEF TypeInv
    <3> QED
      BY <1>2, FlushTypes DEF Nudge
  <2> QED
    BY <1>2, <2>1 DEF Nudge
<1>3. ASSUME NEW b \in Boxes, PostFails(b) PROVE TypeInv'
  <2>1. post[b].id \in Entries /\ post[b].at # "idle"
    BY <1>3, PostFacts DEF PostFails
  <2>2. entries[b] \in Seq(Entries) /\ tried' \in [Boxes -> SUBSET Entries]
    BY <1>3, <2>1 DEF PostFails
  <2>3. stored' \in Value /\ Parsed(stored').ids = entries[b]
    BY <1>3, <2>2, PersistFacts DEF PostFails
  <2>4. /\ post' \in [Boxes -> Post]
        /\ post'[b].id = post[b].id
        /\ \A c \in Boxes : c # b => post'[c] = post[c]
        /\ faults' \in 0 .. MaxFaults
    <3>1. post \in [Boxes -> Post] /\ post' = [post EXCEPT ![b].at = "failed"]
      BY <1>3 DEF PostFails
    <3> HIDE DEF TypeInv
    <3> QED
      <4>1. faults' \in 0 .. MaxFaults
        BY <1>3, FaultTypes DEF PostFails
      <4>2. "failed" \in Working
        BY PostFacts
      <4> QED
        BY <2>1, <3>1, <4>1, <4>2, AtTypes
  <2>5. wire' \subseteq Entries /\ wire' \subseteq posted /\ post[b].id \in posted
    BY <1>3, <2>1 DEF PostFails
  <2> QED
    BY <1>3, <2>1, <2>2, <2>3, <2>4, <2>5 DEF PostFails
<1>4. ASSUME NEW b \in Boxes, AnswerCut(b) PROVE TypeInv'
  <2>1. post[b].id \in Entries
    BY <1>4, PostFacts DEF AnswerCut
  <2>2. /\ post' \in [Boxes -> Post]
        /\ post'[b].at = "idle"
        /\ \A c \in Boxes : c # b => post'[c] = post[c]
    <3>1. post \in [Boxes -> Post] /\ post' = [post EXCEPT ![b] = NoPost]
      BY <1>4 DEF AnswerCut
    <3> HIDE DEF TypeInv
    <3> QED
      BY <3>1, PostFacts
  <2>3. faults' \in 0 .. MaxFaults
    BY <1>4 DEF AnswerCut, Fault
  <2> QED
    BY <1>4, <2>1, <2>2, <2>3 DEF AnswerCut
<1>5. ASSUME NEW b \in Boxes, NEW x \in Entries, Send(b, x) PROVE TypeInv'
  <2>1. x \notin Range(entries[b]) /\ Push(b, x)
    BY <1>5 DEF Send
  <2> HIDE DEF TypeInv
  <2>2. /\ stored' \in Value \cup {None}
        /\ entries' \in [Boxes -> Seq(Entries)]
        /\ calls' \in [Boxes -> Nat]
        /\ sent' \subseteq Entries
        /\ sent \subseteq sent'
        /\ Unique(Parsed(stored').ids)
        /\ \A c \in Boxes : Unique(entries'[c])
        /\ Range(Parsed(stored').ids) \subseteq sent'
        /\ \A c \in Boxes : Range(entries'[c]) \subseteq sent'
    BY <2>1, PushTypes
  <2>3. TypeOK'
    BY <1>5, <2>2 DEF Send, TypeInv
  <2>4. Known'
    BY <1>5, <2>2 DEF Send, TypeInv
  <2> QED
    BY <2>3, <2>4 DEF TypeInv
<1>6. ASSUME NEW b \in Boxes, NEW i \in DOMAIN entries[b], Cancel(b, i) PROVE TypeInv'
  <2> DEFINE s == entries[b]
             cut == SubSeq(s, 1, i - 1) \o SubSeq(s, i + 1, Len(s))
  <2>1. s \in Seq(Entries) /\ Unique(s) /\ Range(s) \subseteq sent
    OBVIOUS
  <2>2. cut \in Seq(Entries) /\ Unique(cut) /\ Range(cut) \subseteq sent /\ s[i] \in sent
    BY <2>1, CutFacts
  <2>3. entries' = [entries EXCEPT ![b] = cut] /\ entries'[b] = cut
    BY <1>6 DEF Cancel
  <2> HIDE DEF cut
  <2>4. tried' \in [Boxes -> SUBSET Entries] /\ Persist(cut, tried'[b])
    BY <1>6, <2>3 DEF Cancel
  <2>5. stored' \in Value /\ Parsed(stored').ids = cut
    BY <2>2, <2>4, PersistFacts
  <2>6. /\ entries' \in [Boxes -> Seq(Entries)]
        /\ \A c \in Boxes : Unique(entries'[c]) /\ Range(entries'[c]) \subseteq sent
        /\ cancelled' \subseteq Entries
    <3>1. entries \in [Boxes -> Seq(Entries)] /\ sent \subseteq Entries /\ cancelled \subseteq Entries
      OBVIOUS
    <3>2. \A c \in Boxes : Unique(entries[c]) /\ Range(entries[c]) \subseteq sent
      OBVIOUS
    <3>3. cancelled' = cancelled \cup {s[i]}
      BY <1>6 DEF Cancel
    <3> HIDE DEF TypeInv, TypeOK, Known
    <3> QED
      BY <2>2, <2>3, <3>1, <3>2, <3>3
  <2> QED
    BY <1>6, <2>2, <2>4, <2>5, <2>6 DEF Cancel
<1>7. ASSUME NEW x \in Entries, Share(x) PROVE TypeInv'
  BY <1>7 DEF Share, boxVars
<1>8. ASSUME NEW x \in Entries, Late(x) PROVE TypeInv'
  BY <1>8 DEF Late, boxVars
<1>9. CASE Sleep
  <2>1. /\ holder' \in Boxes \cup {None}
        /\ stopped' \in [Boxes -> BOOLEAN]
        /\ timer' \in [Boxes -> BOOLEAN]
    BY <1>9 DEF Sleep, LetGo
  <2> QED
    BY <1>9, <2>1 DEF Sleep
<1>10. CASE SignIn
  <2>1. /\ holder' \in Boxes \cup {None}
        /\ stopped' \in [Boxes -> BOOLEAN]
        /\ timer' \in [Boxes -> BOOLEAN]
    BY <1>10 DEF SignIn, LetGo
  <2> QED
    BY <1>10, <2>1 DEF SignIn
<1>11. CASE RevokeToken
  <2>0. faults' \in 0 .. MaxFaults
    BY <1>11 DEF RevokeToken, Fault
  <2>1. TypeOK'
    BY <1>11, <2>0 DEF RevokeToken, boxVars
  <2>2. Known'
    BY <1>11 DEF RevokeToken, boxVars
  <2> QED
    BY <2>1, <2>2
<1>12. CASE RevokeTarget
  <2>0. faults' \in 0 .. MaxFaults
    BY <1>12 DEF RevokeTarget, Fault
  <2>1. TypeOK'
    BY <1>12, <2>0 DEF RevokeTarget, boxVars
  <2>2. Known'
    BY <1>12 DEF RevokeTarget, boxVars
  <2> QED
    BY <2>1, <2>2
<1>13. CASE Crash
  <2>1. /\ Parsed(None).ids = <<>>
        /\ post' \in [Boxes -> Post]
        /\ \A c \in Boxes : post'[c].at = "idle"
    BY <1>13, ParsedFacts, PostFacts DEF Crash
  <2>2. \A c \in Boxes : post[c].at # "idle" => post[c].id \in Entries
    BY PostFacts
  <2>3. wire' \subseteq Entries /\ wire' \subseteq posted
    BY <1>13, <2>2 DEF Crash
  <2>4. lost' \subseteq Entries \X {"net", "cut", "crash"}
    BY <1>13, <2>2 DEF Crash
  <2>5. faults' \in 0 .. MaxFaults
    BY <1>13 DEF Crash, Fault
  <2>6. /\ entries' = [c \in Boxes |-> <<>>]
        /\ read' = [c \in Boxes |-> None]
    BY <1>13 DEF Crash
  <2>7. /\ entries' \in [Boxes -> Seq(Entries)]
        /\ \A c \in Boxes : Unique(entries'[c]) /\ Range(entries'[c]) = {}
        /\ \A c \in Boxes : Unique(Parsed(read'[c]).ids) /\ Range(Parsed(read'[c]).ids) = {}
    BY <2>1, <2>6, EmptyFacts
  <2> QED
    BY <1>13, <2>1, <2>3, <2>4, <2>5, <2>6, <2>7 DEF Crash
<1> QED
  BY <1>1, <1>2, <1>3, <1>4, <1>5, <1>6, <1>7, <1>8, <1>9, <1>10, <1>11, <1>12, <1>13
     DEF Environment

\* TypeOK of Outbox holds in every behaviour: queues without repetition, flushes
\* with an entry, counters in range, for any instances, entries and faults.
THEOREM TypeCorrect == Spec => []TypeOK
<1>1. Init => TypeInv
  BY TypeInit
<1>2. TypeInv /\ [Next]_vars => TypeInv'
  BY TypeBox, TypeEnvironment, TypeSame DEF Next
<1>3. TypeInv => TypeOK
  BY DEF TypeInv
<1> QED
  BY <1>1, <1>2, <1>3, PTL DEF Spec

-----------------------------------------------------------------------------
(***************************************************************************)
(* Nothing is lost.                                                        *)
(***************************************************************************)

Safe == QueueOnDisk /\ Unborn /\ HeadPosted /\ HandedOver /\ NothingLost

LEMMA SafeInit == Init => Safe
<1> SUFFICES ASSUME Init PROVE Safe
  OBVIOUS
<1>1. \A b \in Boxes : phase[b] = "off" /\ entries[b] = <<>> /\ post[b] = NoPost
  BY DEF Init
<1>2. QueueOnDisk /\ Unborn /\ HeadPosted /\ HandedOver
  BY <1>1, PostFacts DEF QueueOnDisk, Unborn, HeadPosted, HandedOver
<1>3. NothingLost
  BY DEF Init, NothingLost
<1> QED
  BY <1>2, <1>3 DEF Safe

\* An outcome is final.
LEMMA DoneStays ==
    ASSUME NEW x, Done(x),
           received \subseteq received', refused \subseteq refused', cancelled \subseteq cancelled'
    PROVE  Done(x)'
BY DEF Done

\* An instance that flushes, or has entries, has loaded its queue.
LEMMA AwakeFacts ==
    ASSUME TypeInv, Safe, NEW b \in Boxes, post[b].at # "idle" \/ entries[b] # <<>>
    PROVE  phase[b] \in {"draining", "awake"} /\ entries[b] = Parsed(stored).ids
<1>1. phase[b] \in {"off", "made", "loading", "draining", "awake"}
  BY DEF TypeInv, TypeOK
<1> QED
  BY <1>1, PostFacts DEF Safe, Unborn, QueueOnDisk

\* Push appends on disk what it appends in memory.
LEMMA PushFacts ==
    ASSUME TypeInv, Safe, NEW b \in Boxes, phase[b] \in {"draining", "awake"},
           NEW x \in Entries, Push(b, x)
    PROVE  /\ entries'[b] = Parsed(stored').ids
           /\ Range(Parsed(stored').ids) = Range(Parsed(stored).ids) \cup {x}
           /\ entries'[b] # <<>>
           /\ entries[b] # <<>> => Head(entries'[b]) = Head(entries[b])
           /\ sent' = sent \cup {x}
           /\ Parsed(stored').ids = Append(Parsed(stored).ids, x)
<1> DEFINE s == Append(entries[b], x)
<1>1. entries[b] \in Seq(Entries) /\ entries[b] = Parsed(stored).ids
  BY DEF TypeInv, TypeOK, Safe, QueueOnDisk
<1>2. /\ s \in Seq(Entries) /\ s # <<>> /\ Range(s) = Range(entries[b]) \cup {x}
      /\ entries[b] # <<>> => Head(s) = Head(entries[b])
  BY <1>1, AppendFacts
<1>3. entries'[b] = s /\ Persist(s, tried[b]) /\ tried[b] \in SUBSET Entries
  BY DEF Push, TypeInv, TypeOK
<1> HIDE DEF s
<1>4. Parsed(stored').ids = s
  BY <1>2, <1>3, PersistFacts
<1> QED
  BY <1>1, <1>2, <1>3, <1>4 DEF Push, s

\* Shift takes the posted entry, and no other, from memory and disk.
LEMMA ShiftFacts ==
    ASSUME TypeInv, Safe, NEW b \in Boxes, post[b].at \in {"accepted", "rejected"}, Shift(b)
    PROVE  /\ entries'[b] = Parsed(stored').ids
           /\ Range(Parsed(stored).ids) = Range(Parsed(stored').ids) \cup {post[b].id}
           /\ post'[b].at = "shifted"
           /\ entries[b] = Parsed(stored).ids
           /\ entries'[b] = Tail(entries[b])
           /\ phase[b] \in {"draining", "awake"}
<1> DEFINE s == Tail(entries[b])
<1>1. /\ entries[b] \in Seq(Entries) /\ entries[b] = Parsed(stored).ids
      /\ entries[b] # <<>> /\ Head(entries[b]) = post[b].id
      /\ phase[b] \in {"draining", "awake"}
  BY AwakeFacts DEF TypeInv, TypeOK, Safe, HeadPosted
<1>2. s \in Seq(Entries) /\ Range(entries[b]) = {Head(entries[b])} \cup Range(s)
  BY <1>1, TailFacts
<1>3. entries'[b] = s
  BY <1>1 DEF Shift, TypeInv, TypeOK
<1> HIDE DEF s
<1>4. tried' \in [Boxes -> SUBSET Entries]
  BY DEF Shift, TypeInv, TypeOK
<1>5. Persist(s, tried'[b]) /\ tried'[b] \in SUBSET Entries
  BY <1>3, <1>4 DEF Shift
<1>6. Parsed(stored').ids = s
  BY <1>2, <1>5, PersistFacts
<1>7. post'[b].at = "shifted"
  BY DEF Shift, TypeInv, TypeOK
<1> QED
  BY <1>1, <1>2, <1>3, <1>6, <1>7 DEF s

\* Loop posts the head, if any.
LEMMA LoopFacts ==
    ASSUME TypeInv, Safe, NEW b \in Boxes, Loop(b, entries[b])
    PROVE  \/ post'[b] = NoPost /\ posted' = posted
           \/ /\ entries[b] # <<>> /\ Head(entries[b]) \in Range(Parsed(stored).ids)
              /\ post'[b].at = "posting" /\ post'[b].id = Head(entries[b])
              /\ posted' = posted \cup {Head(entries[b])}
              /\ phase[b] \in {"draining", "awake"}
<1>1. CASE post' = [post EXCEPT ![b] = NoPost] /\ posted' = posted
  BY <1>1 DEF TypeInv, TypeOK
<1>2. CASE /\ entries[b] # <<>>
           /\ post' = [post EXCEPT ![b] = [at |-> "posting", id |-> Head(entries[b])]]
           /\ posted' = posted \cup {Head(entries[b])}
  <2>1. phase[b] \in {"draining", "awake"} /\ entries[b] = Parsed(stored).ids
    BY <1>2, AwakeFacts
  <2>2. Head(entries[b]) \in Range(entries[b])
    BY <1>2, TailFacts DEF TypeInv, TypeOK
  <2>3. post'[b] = [at |-> "posting", id |-> Head(entries[b])]
    BY <1>2 DEF TypeInv, TypeOK
  <2> QED
    BY <1>2, <2>1, <2>2, <2>3
<1> QED
  BY <1>1, <1>2 DEF Loop

LEMMA FlushFacts ==
    ASSUME TypeInv, Safe, NEW b \in Boxes, Flush(b)
    PROVE  \/ post' = post /\ posted' = posted
           \/ post'[b] = NoPost /\ posted' = posted
           \/ /\ entries[b] # <<>> /\ Head(entries[b]) \in Range(Parsed(stored).ids)
              /\ post'[b].at = "posting" /\ post'[b].id = Head(entries[b])
              /\ posted' = posted \cup {Head(entries[b])}
              /\ phase[b] \in {"draining", "awake"}
BY LoopFacts DEF Flush

\* The steps of the one instance.
LEMMA SafeBox ==
    ASSUME OneAtATime, TypeInv, TypeInv', Safe, NEW b \in Boxes, Step(b)
    PROVE  Safe'
<1> USE DEF Safe, QueueOnDisk, Unborn, HeadPosted, HandedOver, NothingLost, Done, netVars, history
<1>0. /\ \A c \in Boxes : c = b
      /\ phase \in [Boxes -> {"off", "made", "loading", "draining", "awake"}]
      /\ read \in [Boxes -> Value \cup {None}]
      /\ todo \in [Boxes -> SUBSET Mirrored]
      /\ entries \in [Boxes -> Seq(Entries)]
      /\ post \in [Boxes -> Post]
  BY DEF OneAtATime, TypeInv, TypeOK
<1>n. NoPost.at = "idle"
  BY PostFacts
<1>h. post[b].at \in {"posting", "accepted", "rejected"} =>
         /\ entries[b] # <<>>
         /\ Head(entries[b]) = post[b].id
         /\ post[b].at = "accepted" => post[b].id \in received
  OBVIOUS
<1>1. CASE Load(b)
  BY <1>0, <1>1 DEF Load
<1>2. CASE Loaded(b)
  <2>1. post[b] = NoPost /\ read[b] = stored
    BY <1>2 DEF Loaded
  <2>2. /\ phase'[b] = "draining"
        /\ entries'[b] = Parsed(stored).ids
        /\ todo'[b] = mirror
    BY <1>0, <1>2, <2>1 DEF Loaded, Peek
  <2>3. UNCHANGED <<stored, mirror, post, received, refused, cancelled, sent, posted>>
    BY <1>2 DEF Loaded, Peek
  <2> QED
    BY <1>0, <1>n, <2>1, <2>2, <2>3
<1>3. CASE Drained(b)
  BY <1>0, <1>3 DEF Drained
<1>4. ASSUME NEW x \in Mirrored, Enqueue(b, x), Queued(b, x) PROVE Safe'
  BY <1>0, <1>4 DEF Enqueue, Queued
<1>5. ASSUME NEW x \in Mirrored, Enqueue(b, x), ~Queued(b, x) PROVE Safe'
  <2>1. /\ entries'[b] = Parsed(stored').ids
        /\ Range(Parsed(stored').ids) = Range(Parsed(stored).ids) \cup {x}
        /\ entries'[b] # <<>>
        /\ entries[b] # <<>> => Head(entries'[b]) = Head(entries[b])
        /\ sent' = sent \cup {x}
    <3> HIDE DEF Safe
    <3> QED
      BY <1>5, PushFacts DEF Enqueue
  <2> QED
    BY <1>0, <1>5, <2>1 DEF Enqueue
<1>6. CASE Called(b)
  <2>1. \/ post' = post /\ posted' = posted
        \/ post'[b] = NoPost /\ posted' = posted
        \/ /\ entries[b] # <<>> /\ Head(entries[b]) \in Range(Parsed(stored).ids)
           /\ post'[b].at = "posting" /\ post'[b].id = Head(entries[b])
           /\ posted' = posted \cup {Head(entries[b])}
           /\ phase[b] \in {"draining", "awake"}
    <3> HIDE DEF Safe
    <3> QED
      BY <1>6, FlushFacts DEF Called
  <2>2. post'[b].at \in {"posting", "accepted", "rejected"} =>
           /\ entries[b] # <<>>
           /\ Head(entries[b]) = post'[b].id
           /\ post'[b].at = "accepted" => post'[b].id \in received
    <3> HIDE DEF Safe, QueueOnDisk, Unborn, HeadPosted, HandedOver, NothingLost, Done
    <3> QED
      BY <1>h, <1>n, <2>1
  <2>3. phase[b] \in {"off", "made", "loading"} => post'[b] = NoPost
    <3>1. phase[b] \in {"off", "made", "loading"} => post[b] = NoPost
      OBVIOUS
    <3> HIDE DEF Safe, QueueOnDisk, Unborn, HeadPosted, HandedOver, NothingLost, Done
    <3> QED
      BY <2>1, <3>1
  <2>4. \A x \in posted' : x \in posted \/ x \in Range(Parsed(stored).ids)
    BY <2>1
  <2>11. QueueOnDisk'
    BY <1>0, <1>6 DEF Called
  <2>12. Unborn'
    BY <1>0, <1>6, <2>3 DEF Called
  <2>13. HeadPosted'
    BY <1>0, <1>6, <2>2 DEF Called
  <2>14. HandedOver'
    BY <1>0, <1>6 DEF Called
  <2>15. NothingLost'
    BY <1>0, <1>6, <2>4 DEF Called
  <2> QED
    BY <2>11, <2>12, <2>13, <2>14, <2>15
<1>7. CASE TimerFires(b)
  <2>1. \/ post' = post /\ posted' = posted
        \/ post'[b] = NoPost /\ posted' = posted
        \/ /\ entries[b] # <<>> /\ Head(entries[b]) \in Range(Parsed(stored).ids)
           /\ post'[b].at = "posting" /\ post'[b].id = Head(entries[b])
           /\ posted' = posted \cup {Head(entries[b])}
           /\ phase[b] \in {"draining", "awake"}
    <3> HIDE DEF Safe
    <3> QED
      BY <1>7, FlushFacts DEF TimerFires
  <2>2. post'[b].at \in {"posting", "accepted", "rejected"} =>
           /\ entries[b] # <<>>
           /\ Head(entries[b]) = post'[b].id
           /\ post'[b].at = "accepted" => post'[b].id \in received
    <3> HIDE DEF Safe, QueueOnDisk, Unborn, HeadPosted, HandedOver, NothingLost, Done
    <3> QED
      BY <1>h, <1>n, <2>1
  <2>3. phase[b] \in {"off", "made", "loading"} => post'[b] = NoPost
    <3>1. phase[b] \in {"off", "made", "loading"} => post[b] = NoPost
      OBVIOUS
    <3> HIDE DEF Safe, QueueOnDisk, Unborn, HeadPosted, HandedOver, NothingLost, Done
    <3> QED
      BY <2>1, <3>1
  <2>4. \A x \in posted' : x \in posted \/ x \in Range(Parsed(stored).ids)
    BY <2>1
  <2>11. QueueOnDisk'
    BY <1>0, <1>7 DEF TimerFires
  <2>12. Unborn'
    BY <1>0, <1>7, <2>3 DEF TimerFires
  <2>13. HeadPosted'
    BY <1>0, <1>7, <2>2 DEF TimerFires
  <2>14. HandedOver'
    BY <1>0, <1>7 DEF TimerFires
  <2>15. NothingLost'
    BY <1>0, <1>7, <2>4 DEF TimerFires
  <2> QED
    BY <2>11, <2>12, <2>13, <2>14, <2>15
<1>8. CASE Answer(b)
  <2>1. /\ post'[b].id = post[b].id
        /\ post'[b].at # "idle"
        /\ post'[b].at = "accepted" => post[b].id \in received'
        /\ post[b].at = "posting"
        /\ received \subseteq received'
    <3>1. post[b].at = "posting" /\ post[b] \in Post
      BY <1>0, <1>8 DEF Answer
    <3>2. CASE post' = [post EXCEPT ![b].at = "accepted"] /\ received' = received \cup {post[b].id}
      <4>1. post'[b] = [post[b] EXCEPT !.at = "accepted"]
        BY <1>0, <3>2
      <4> QED
        BY <3>1, <3>2, <4>1, <1>n
    <3>3. ASSUME NEW at \in {"denied", "rejected"}, post' = [post EXCEPT ![b].at = at],
                 received' = received
          PROVE  /\ post'[b].id = post[b].id
                 /\ post'[b].at # "idle"
                 /\ post'[b].at # "accepted"
      <4>1. post'[b] = [post[b] EXCEPT !.at = at]
        BY <1>0, <3>3
      <4> QED
        BY <3>1, <3>3, <4>1, <1>n
    <3> QED
      BY <1>8, <3>2, <3>3 DEF Answer
  <2>11. QueueOnDisk'
    BY <1>0, <1>8, <2>1, <1>n DEF Answer
  <2>12. Unborn'
    BY <1>0, <1>8, <2>1, <1>n DEF Answer
  <2>13. HeadPosted'
    <3>1. entries[b] # <<>> /\ Head(entries[b]) = post'[b].id
      BY <1>h, <2>1
    <3> QED
      BY <1>0, <1>8, <2>1, <3>1 DEF Answer
  <2>14. HandedOver'
    BY <1>0, <1>8, <2>1, <1>n DEF Answer
  <2>15. NothingLost'
    BY <1>0, <1>8, <2>1, <1>n DEF Answer
  <2> QED
    BY <2>11, <2>12, <2>13, <2>14, <2>15
<1>9. CASE Accepted(b)
  <2>1. /\ entries'[b] = Parsed(stored').ids
        /\ Range(Parsed(stored).ids) = Range(Parsed(stored').ids) \cup {post[b].id}
        /\ post'[b].at = "shifted"
        /\ phase[b] \in {"draining", "awake"}
    <3> HIDE DEF Safe
    <3> QED
      BY <1>9, ShiftFacts DEF Accepted
  <2> QED
    BY <1>0, <1>9, <2>1 DEF Accepted
<1>10. CASE Rejected(b)
  <2>1. /\ entries'[b] = Parsed(stored').ids
        /\ Range(Parsed(stored).ids) = Range(Parsed(stored').ids) \cup {post[b].id}
        /\ post'[b].at = "shifted"
        /\ phase[b] \in {"draining", "awake"}
    <3> HIDE DEF Safe
    <3> QED
      BY <1>10, ShiftFacts DEF Rejected
  <2> QED
    BY <1>0, <1>10, <2>1 DEF Rejected
<1>11. CASE Shifted(b)
  <2>1. \/ post' = post /\ posted' = posted
        \/ post'[b] = NoPost /\ posted' = posted
        \/ /\ entries[b] # <<>> /\ Head(entries[b]) \in Range(Parsed(stored).ids)
           /\ post'[b].at = "posting" /\ post'[b].id = Head(entries[b])
           /\ posted' = posted \cup {Head(entries[b])}
           /\ phase[b] \in {"draining", "awake"}
    <3> HIDE DEF Safe
    <3> QED
      BY <1>11, LoopFacts DEF Shifted
  <2>2. post'[b].at \in {"posting", "accepted", "rejected"} =>
           /\ entries[b] # <<>>
           /\ Head(entries[b]) = post'[b].id
           /\ post'[b].at = "accepted" => post'[b].id \in received
    <3> HIDE DEF Safe, QueueOnDisk, Unborn, HeadPosted, HandedOver, NothingLost, Done
    <3> QED
      BY <1>h, <1>n, <2>1
  <2>3. phase[b] \in {"off", "made", "loading"} => post'[b] = NoPost
    <3>1. phase[b] \in {"off", "made", "loading"} => post[b] = NoPost
      OBVIOUS
    <3> HIDE DEF Safe, QueueOnDisk, Unborn, HeadPosted, HandedOver, NothingLost, Done
    <3> QED
      BY <2>1, <3>1
  <2>4. \A x \in posted' : x \in posted \/ x \in Range(Parsed(stored).ids)
    BY <2>1
  <2>11. QueueOnDisk'
    BY <1>0, <1>11 DEF Shifted
  <2>12. Unborn'
    BY <1>0, <1>11, <2>3 DEF Shifted
  <2>13. HeadPosted'
    BY <1>0, <1>11, <2>2 DEF Shifted
  <2>14. HandedOver'
    BY <1>0, <1>11 DEF Shifted
  <2>15. NothingLost'
    BY <1>0, <1>11, <2>4 DEF Shifted
  <2> QED
    BY <2>11, <2>12, <2>13, <2>14, <2>15
<1>12. CASE Denied(b)
  <2>1. post'[b] = NoPost
    BY <1>0, <1>12 DEF Denied
  <2> QED
    BY <1>0, <1>12, <1>n, <2>1 DEF Denied
<1>13. CASE Failed(b)
  <2>1. post'[b] = NoPost
    BY <1>0, <1>13 DEF Failed
  <2> QED
    BY <1>0, <1>13, <1>n, <2>1 DEF Failed
<1> QED
  BY <1>1, <1>2, <1>3, <1>4, <1>5, <1>6, <1>7, <1>8, <1>9, <1>10, <1>11, <1>12, <1>13
     DEF Step

\* What the user, the system and the network do.
LEMMA SafeEnvironment ==
    ASSUME OneAtATime, TypeInv, TypeInv', Safe, Environment
    PROVE  Safe'
<1> USE DEF Safe, QueueOnDisk, Unborn, HeadPosted, HandedOver, NothingLost, Done, netVars, history, boxVars
<1>0. /\ \A b, c \in Boxes : c = b
      /\ phase \in [Boxes -> {"off", "made", "loading", "draining", "awake"}]
      /\ read \in [Boxes -> Value \cup {None}]
      /\ todo \in [Boxes -> SUBSET Mirrored]
      /\ entries \in [Boxes -> Seq(Entries)]
      /\ tried \in [Boxes -> SUBSET Entries]
      /\ post \in [Boxes -> Post]
  BY DEF OneAtATime, TypeInv, TypeOK
<1>n. NoPost.at = "idle"
  BY PostFacts
<1>1. ASSUME NEW b \in Boxes, Create(b) PROVE Safe'
  <2>1. post[b] = NoPost
    BY <1>0, <1>1 DEF Create, Flushing, Post, NoPost, Working
  <2>2. \A c \in Boxes : phase'[c] = "made" /\ entries'[c] = <<>> /\ post'[c] = NoPost
    BY <1>0, <1>1, <2>1 DEF Create
  <2>3. UNCHANGED <<stored, mirror, received, refused, cancelled, sent, posted>>
    BY <1>1 DEF Create
  <2> QED
    BY <2>2, <2>3, <1>n
<1>2. ASSUME NEW b \in Boxes, Nudge(b) PROVE Safe'
  <2>1. \/ post' = post /\ posted' = posted
        \/ post'[b] = NoPost /\ posted' = posted
        \/ /\ entries[b] # <<>> /\ Head(entries[b]) \in Range(Parsed(stored).ids)
           /\ post'[b].at = "posting" /\ post'[b].id = Head(entries[b])
           /\ posted' = posted \cup {Head(entries[b])}
           /\ phase[b] \in {"draining", "awake"}
    <3> HIDE DEF Safe
    <3> QED
      BY <1>2, FlushFacts DEF Nudge
  <2>2. post'[b].at \in {"posting", "accepted", "rejected"} =>
           /\ entries[b] # <<>>
           /\ Head(entries[b]) = post'[b].id
           /\ post'[b].at = "accepted" => post'[b].id \in received
    <3>1. post[b].at \in {"posting", "accepted", "rejected"} =>
             /\ entries[b] # <<>>
             /\ Head(entries[b]) = post[b].id
             /\ post[b].at = "accepted" => post[b].id \in received
      OBVIOUS
    <3> HIDE DEF Safe, QueueOnDisk, Unborn, HeadPosted, HandedOver, NothingLost, Done
    <3> QED
      BY <1>n, <2>1, <3>1
  <2>3. phase[b] = "awake"
    BY <1>2 DEF Nudge
  <2>4. \A x \in posted' : x \in posted \/ x \in Range(Parsed(stored).ids)
    BY <2>1
  <2>11. QueueOnDisk'
    BY <1>0, <1>2 DEF Nudge
  <2>12. Unborn'
    BY <1>0, <1>2, <2>3 DEF Nudge
  <2>13. HeadPosted'
    BY <1>0, <1>2, <2>2 DEF Nudge
  <2>14. HandedOver'
    BY <1>0, <1>2 DEF Nudge
  <2>15. NothingLost'
    BY <1>0, <1>2, <2>4 DEF Nudge
  <2> QED
    BY <2>11, <2>12, <2>13, <2>14, <2>15
<1>3. ASSUME NEW b \in Boxes, PostFails(b) PROVE Safe'
  <2>1. /\ phase[b] \in {"draining", "awake"}
        /\ entries[b] = Parsed(stored).ids
    <3> HIDE DEF Safe
    <3> QED
      BY <1>3, AwakeFacts DEF PostFails
  <2>2. Parsed(stored').ids = entries[b]
    <3>1. tried' \in [Boxes -> SUBSET Entries]
      BY <1>3 DEF PostFails, TypeInv, TypeOK
    <3> HIDE DEF Safe
    <3> QED
      BY <1>0, <1>3, <3>1, PersistFacts DEF PostFails
  <2>3. post'[b].at = "failed"
    BY <1>0, <1>3 DEF PostFails
  <2> QED
    BY <1>0, <1>3, <2>1, <2>2, <2>3 DEF PostFails
<1>4. ASSUME NEW b \in Boxes, AnswerCut(b) PROVE Safe'
  <2>1. post'[b] = NoPost
    BY <1>0, <1>4 DEF AnswerCut
  <2>2. QueueOnDisk' /\ HandedOver' /\ NothingLost'
    BY <1>4 DEF AnswerCut
  <2>3. Unborn' /\ HeadPosted'
    BY <1>0, <1>4, <1>n, <2>1 DEF AnswerCut
  <2> QED
    BY <2>2, <2>3
<1>5. ASSUME NEW b \in Boxes, NEW x \in Entries, Send(b, x) PROVE Safe'
  <2>1. phase[b] \in {"draining", "awake"}
    BY <1>5 DEF Send, OneAtATime
  <2>2. /\ entries'[b] = Parsed(stored').ids
        /\ Range(Parsed(stored').ids) = Range(Parsed(stored).ids) \cup {x}
        /\ entries'[b] # <<>>
        /\ entries[b] # <<>> => Head(entries'[b]) = Head(entries[b])
        /\ sent' = sent \cup {x}
    <3> HIDE DEF Safe
    <3> QED
      BY <1>5, <2>1, PushFacts DEF Send
  <2> QED
    BY <1>0, <1>5, <2>1, <2>2 DEF Send
<1>6. ASSUME NEW b \in Boxes, NEW i \in DOMAIN entries[b], Cancel(b, i) PROVE Safe'
  <2> DEFINE cut == SubSeq(entries[b], 1, i - 1) \o SubSeq(entries[b], i + 1, Len(entries[b]))
  <2>1. /\ cut \in Seq(Entries)
        /\ entries[b][i] \in Range(entries[b])
        /\ Range(entries[b]) = {entries[b][i]} \cup Range(cut)
    BY <1>0, CutFacts
  <2>2. /\ entries'[b] = cut
        /\ tried'[b] \in SUBSET Entries
        /\ Persist(cut, tried'[b])
    BY <1>0, <1>6 DEF Cancel
  <2> HIDE DEF cut
  <2>3. Parsed(stored').ids = cut
    <3> HIDE DEF Safe
    <3> QED
      BY <2>1, <2>2, PersistFacts
  <2>4. phase[b] = "awake" /\ post[b].at = "idle" /\ entries[b] = Parsed(stored).ids
    BY <1>0, <1>6 DEF Cancel, Cancellable, Flushing
  <2>5. /\ cancelled' = cancelled \cup {entries[b][i]}
        /\ UNCHANGED <<mirror, phase, post, received, refused, sent, posted>>
    BY <1>6 DEF Cancel
  <2>6. QueueOnDisk' /\ Unborn' /\ HeadPosted' /\ HandedOver'
    <3>1. \A c \in Boxes : /\ phase'[c] = "awake" /\ post'[c].at = "idle"
                            /\ entries'[c] = Parsed(stored').ids
      BY <1>0, <2>2, <2>3, <2>4, <2>5
    <3> QED
      BY <3>1
  <2>7. NothingLost'
    BY <2>1, <2>3, <2>4, <2>5
  <2> QED
    BY <2>6, <2>7
<1>7. ASSUME NEW x \in Entries, Share(x) PROVE Safe'
  <2>1. \A b \in Boxes : phase[b] # "draining"
    BY <1>7 DEF Share, OneAtATime
  <2> QED
    BY <1>7, <2>1 DEF Share
<1>8. ASSUME NEW x \in Entries, Late(x) PROVE Safe'
  BY <1>8 DEF Late
<1>9. CASE Sleep
  BY <1>9 DEF Sleep, LetGo
<1>10. CASE SignIn
  BY <1>10 DEF SignIn, LetGo
<1>11. CASE RevokeToken
  BY <1>11 DEF RevokeToken
<1>12. CASE RevokeTarget
  BY <1>12 DEF RevokeTarget
<1>13. CASE Crash
  <2>1. \A b \in Boxes : phase'[b] = "off" /\ entries'[b] = <<>> /\ post'[b] = NoPost
    BY <1>13 DEF Crash
  <2>2. UNCHANGED <<stored, mirror, received, refused, cancelled, sent, posted>>
    BY <1>13 DEF Crash
  <2> QED
    BY <2>1, <2>2, <1>n
<1> QED
  BY <1>1, <1>2, <1>3, <1>4, <1>5, <1>6, <1>7, <1>8, <1>9, <1>10, <1>11, <1>12, <1>13
     DEF Environment

LEMMA SafeSame == Safe /\ UNCHANGED vars => Safe'
BY DEF Safe, QueueOnDisk, Unborn, HeadPosted, HandedOver, NothingLost, Done, vars, netVars,
       history, boxVars

\* QueueInv of Outbox is inductive when there is one instance, which the user does
\* not send to while it loads, and nothing is shared while the mirror is drained:
\* disk and memory agree, the entry POSTed is the head, the mirror is handed over.
THEOREM Inductive ==
    ASSUME OneAtATime
    PROVE  Spec => []QueueInv
<1>1. Init => TypeInv /\ Safe
  BY TypeInit, SafeInit
<1>2. TypeInv /\ [Next]_vars => TypeInv'
  BY TypeBox, TypeEnvironment, TypeSame DEF Next
<1>3. TypeInv /\ TypeInv' /\ Safe /\ [Next]_vars => Safe'
  BY SafeBox, SafeEnvironment, SafeSame DEF Next
<1>4. TypeInv /\ Safe => QueueInv
  BY DEF TypeInv, Safe, QueueInv
<1> QED
  BY <1>1, <1>2, <1>3, <1>4, PTL DEF Spec

\* NothingLost of Outbox: with one instance at a time, an entry that was sent or
\* left in the mirror is on disk until the server has it, refused it or the user
\* took it back, whatever fails or crashes in between.
THEOREM NeverLost ==
    ASSUME OneAtATime
    PROVE  Spec => []NothingLost
<1>1. QueueInv => NothingLost
  BY DEF QueueInv
<1> QED
  BY <1>1, Inductive, PTL

-----------------------------------------------------------------------------
(***************************************************************************)
(* The refinement: every step is one of DeliveryQueue, or none.            *)
(***************************************************************************)

Implements == [Promise!Next]_(Promise!vars)

\* The steps of the one instance.
LEMMA ImplementsBox ==
    ASSUME OneAtATime, TypeInv, TypeInv', Safe, NEW b \in Boxes, Step(b)
    PROVE  Implements
<1> USE DEF netVars, history
<1>1. CASE Load(b)
  BY <1>1 DEF Load, Promise!vars, Implements
<1>2. CASE Loaded(b)
  BY <1>2 DEF Loaded, Promise!vars, Implements
<1>3. CASE Drained(b)
  BY <1>3 DEF Drained, Promise!vars, Implements
<1>4. ASSUME NEW x \in Mirrored, Enqueue(b, x) PROVE Implements
  <2>1. CASE Queued(b, x) /\ UNCHANGED <<stored, sent>>
    BY <1>4, <2>1 DEF Enqueue, Promise!vars, Implements
  <2>2. CASE ~Queued(b, x) /\ Push(b, x)
    <3>1. phase[b] = "draining" /\ x \in Entries
      BY <1>4 DEF Enqueue
    <3>2. /\ sent' = sent \cup {x}
          /\ Parsed(stored').ids = Append(Parsed(stored).ids, x)
      BY <2>2, <3>1, PushFacts
    <3>3. x \notin Range(Parsed(stored).ids)
      BY <2>2, <3>1 DEF Queued, Safe, QueueOnDisk
    <3>4. UNCHANGED <<posted, received, refused, cancelled>>
      BY <1>4 DEF Enqueue
    <3>5. Promise!Put(x)
      BY <3>2, <3>3, <3>4 DEF Promise!Put, Promise!Range, Range
    <3> QED
      BY <3>1, <3>5 DEF Promise!Next, Implements
  <2> QED
    BY <1>4, <2>1, <2>2 DEF Enqueue
<1>5. CASE Called(b)
  <2>1. \/ post' = post /\ posted' = posted
        \/ post'[b] = NoPost /\ posted' = posted
        \/ /\ entries[b] # <<>> /\ Head(entries[b]) \in Range(Parsed(stored).ids)
           /\ post'[b].at = "posting" /\ post'[b].id = Head(entries[b])
           /\ posted' = posted \cup {Head(entries[b])}
           /\ phase[b] \in {"draining", "awake"}
    BY <1>5, FlushFacts DEF Called
  <2>2. posted' = posted \/ /\ Parsed(stored).ids # <<>>
                            /\ posted' = posted \cup {Head(Parsed(stored).ids)}
    BY <2>1 DEF Safe, QueueOnDisk
  <2> QED
    BY <1>5, <2>2 DEF Called, Promise!Next, Promise!Offer, Promise!vars, Implements
<1>6. CASE TimerFires(b)
  <2>1. \/ post' = post /\ posted' = posted
        \/ post'[b] = NoPost /\ posted' = posted
        \/ /\ entries[b] # <<>> /\ Head(entries[b]) \in Range(Parsed(stored).ids)
           /\ post'[b].at = "posting" /\ post'[b].id = Head(entries[b])
           /\ posted' = posted \cup {Head(entries[b])}
           /\ phase[b] \in {"draining", "awake"}
    BY <1>6, FlushFacts DEF TimerFires
  <2>2. posted' = posted \/ /\ Parsed(stored).ids # <<>>
                            /\ posted' = posted \cup {Head(Parsed(stored).ids)}
    BY <2>1 DEF Safe, QueueOnDisk
  <2> QED
    BY <1>6, <2>2 DEF TimerFires, Promise!Next, Promise!Offer, Promise!vars, Implements
<1>7. CASE Answer(b)
  <2>1. UNCHANGED <<stored, sent, posted, refused, cancelled>>
    BY <1>7 DEF Answer
  <2>2. CASE received' = received
    BY <2>1, <2>2 DEF Promise!vars, Implements
  <2>3. CASE received' = received \cup {post[b].id}
    <3>1. post[b].id \in posted /\ post[b].id \in Entries
      BY <1>7 DEF Answer, TypeInv, TypeOK, Known, Flushing
    <3>2. Promise!Arrive(post[b].id)
      BY <2>1, <2>3, <3>1 DEF Promise!Arrive
    <3> QED
      BY <3>1, <3>2 DEF Promise!Next, Implements
  <2> QED
    BY <1>7, <2>2, <2>3 DEF Answer
<1>8. CASE Accepted(b)
  <2>1. /\ Parsed(stored').ids = Tail(Parsed(stored).ids)
        /\ Parsed(stored).ids = entries[b]
    BY <1>8, ShiftFacts DEF Accepted
  <2>2. entries[b] # <<>> /\ Head(entries[b]) \in received
    BY <1>8 DEF Accepted, Safe, HeadPosted
  <2>3. UNCHANGED <<sent, posted, received, refused, cancelled>>
    BY <1>8 DEF Accepted
  <2>4. Promise!Settle
    BY <2>1, <2>2, <2>3 DEF Promise!Settle
  <2> QED
    BY <2>4 DEF Promise!Next, Implements
<1>9. CASE Rejected(b)
  <2>1. /\ Parsed(stored').ids = Tail(Parsed(stored).ids)
        /\ Parsed(stored).ids = entries[b]
    BY <1>9, ShiftFacts DEF Rejected
  <2>2. entries[b] # <<>> /\ Head(entries[b]) = post[b].id
    BY <1>9 DEF Rejected, Safe, HeadPosted
  <2>3. post[b].id \in posted
    BY <1>9 DEF Rejected, TypeInv, Known, Flushing
  <2>4. UNCHANGED <<sent, posted, received, cancelled>> /\ refused' = refused \cup {post[b].id}
    BY <1>9 DEF Rejected
  <2>5. Promise!Settle
    BY <2>1, <2>2, <2>3, <2>4 DEF Promise!Settle
  <2> QED
    BY <2>5 DEF Promise!Next, Implements
<1>10. CASE Shifted(b)
  <2>1. \/ post' = post /\ posted' = posted
        \/ post'[b] = NoPost /\ posted' = posted
        \/ /\ entries[b] # <<>> /\ Head(entries[b]) \in Range(Parsed(stored).ids)
           /\ post'[b].at = "posting" /\ post'[b].id = Head(entries[b])
           /\ posted' = posted \cup {Head(entries[b])}
           /\ phase[b] \in {"draining", "awake"}
    BY <1>10, LoopFacts DEF Shifted
  <2>2. posted' = posted \/ /\ Parsed(stored).ids # <<>>
                            /\ posted' = posted \cup {Head(Parsed(stored).ids)}
    BY <2>1 DEF Safe, QueueOnDisk
  <2> QED
    BY <1>10, <2>2 DEF Shifted, Promise!Next, Promise!Offer, Promise!vars, Implements
<1>11. CASE Denied(b)
  BY <1>11 DEF Denied, Promise!vars, Implements
<1>12. CASE Failed(b)
  BY <1>12 DEF Failed, Promise!vars, Implements
<1> QED
  BY <1>1, <1>2, <1>3, <1>4, <1>5, <1>6, <1>7, <1>8, <1>9, <1>10, <1>11, <1>12 DEF Step

\* What the user, the system and the network do.
LEMMA ImplementsEnvironment ==
    ASSUME OneAtATime, TypeInv, TypeInv', Safe, Environment
    PROVE  Implements
<1> USE DEF netVars, history
<1>1. ASSUME NEW b \in Boxes, Create(b) PROVE Implements
  BY <1>1 DEF Create, Promise!vars, Implements
<1>2. ASSUME NEW b \in Boxes, Nudge(b) PROVE Implements
  <2>1. \/ post' = post /\ posted' = posted
        \/ post'[b] = NoPost /\ posted' = posted
        \/ /\ entries[b] # <<>> /\ Head(entries[b]) \in Range(Parsed(stored).ids)
           /\ post'[b].at = "posting" /\ post'[b].id = Head(entries[b])
           /\ posted' = posted \cup {Head(entries[b])}
           /\ phase[b] \in {"draining", "awake"}
    BY <1>2, FlushFacts DEF Nudge
  <2>2. posted' = posted \/ /\ Parsed(stored).ids # <<>>
                            /\ posted' = posted \cup {Head(Parsed(stored).ids)}
    BY <2>1 DEF Safe, QueueOnDisk
  <2> QED
    BY <1>2, <2>2 DEF Nudge, Promise!Next, Promise!Offer, Promise!vars, Implements
<1>3. ASSUME NEW b \in Boxes, PostFails(b) PROVE Implements
  <2>1. entries[b] = Parsed(stored).ids /\ entries[b] \in Seq(Entries)
    BY <1>3, AwakeFacts DEF PostFails, TypeInv, TypeOK
  <2>2. tried' \in [Boxes -> SUBSET Entries]
    BY <1>3 DEF PostFails, TypeInv, TypeOK
  <2>3. Parsed(stored').ids = entries[b]
    BY <1>3, <2>1, <2>2, PersistFacts DEF PostFails
  <2> QED
    BY <1>3, <2>1, <2>3 DEF PostFails, Promise!vars, Implements
<1>4. ASSUME NEW b \in Boxes, AnswerCut(b) PROVE Implements
  BY <1>4 DEF AnswerCut, Promise!vars, Implements
<1>5. ASSUME NEW b \in Boxes, NEW x \in Entries, Send(b, x) PROVE Implements
  <2>1. phase[b] \in {"draining", "awake"}
    BY <1>5 DEF Send, OneAtATime
  <2>2. /\ sent' = sent \cup {x}
        /\ Parsed(stored').ids = Append(Parsed(stored).ids, x)
    BY <1>5, <2>1, PushFacts DEF Send
  <2>3. x \notin sent /\ x \notin Range(Parsed(stored).ids)
    BY <1>5 DEF Send, TypeInv, Known
  <2>4. UNCHANGED <<posted, received, refused, cancelled>>
    BY <1>5 DEF Send
  <2>5. Promise!Put(x)
    BY <2>2, <2>3, <2>4 DEF Promise!Put, Promise!Range, Range
  <2> QED
    BY <2>5 DEF Promise!Next, Implements
<1>6. ASSUME NEW b \in Boxes, NEW i \in DOMAIN entries[b], Cancel(b, i) PROVE Implements
  <2> DEFINE cut == SubSeq(entries[b], 1, i - 1) \o SubSeq(entries[b], i + 1, Len(entries[b]))
  <2>1. cut \in Seq(Entries)
    BY CutFacts DEF TypeInv, TypeOK
  <2>2. tried'[b] \in SUBSET Entries /\ Persist(cut, tried'[b])
    BY <1>6 DEF Cancel, TypeInv, TypeOK
  <2>3. entries[b] = Parsed(stored).ids
    BY <1>6 DEF Cancel, Safe, QueueOnDisk
  <2>4. Parsed(stored').ids = cut
    <3> HIDE DEF cut
    <3> QED
      BY <2>1, <2>2, PersistFacts
  <2>5. cancelled' = cancelled \cup {entries[b][i]} /\ UNCHANGED <<sent, posted, received, refused>>
    BY <1>6 DEF Cancel
  <2>6. Promise!Cancel(i) /\ i \in DOMAIN Parsed(stored).ids
    BY <2>3, <2>4, <2>5 DEF Promise!Cancel
  <2> QED
    BY <2>6 DEF Promise!Next, Implements
<1>7. ASSUME NEW x \in Entries, Share(x) PROVE Implements
  <2>1. Promise!OfferElsewhere(x)
    BY <1>7 DEF Share, Promise!OfferElsewhere
  <2> QED
    BY <2>1 DEF Promise!Next, Implements
<1>8. ASSUME NEW x \in Entries, Late(x) PROVE Implements
  <2>1. Promise!Arrive(x)
    BY <1>8 DEF Late, TypeInv, Known, Promise!Arrive
  <2> QED
    BY <2>1 DEF Promise!Next, Implements
<1>9. CASE Sleep
  BY <1>9 DEF Sleep, Promise!vars, Implements
<1>10. CASE SignIn
  BY <1>10 DEF SignIn, Promise!vars, Implements
<1>11. CASE RevokeToken
  BY <1>11 DEF RevokeToken, Promise!vars, Implements
<1>12. CASE RevokeTarget
  BY <1>12 DEF RevokeTarget, Promise!vars, Implements
<1>13. CASE Crash
  BY <1>13 DEF Crash, Promise!vars, Implements
<1> QED
  BY <1>1, <1>2, <1>3, <1>4, <1>5, <1>6, <1>7, <1>8, <1>9, <1>10, <1>11, <1>12, <1>13
     DEF Environment

\* KeepsPromise of Outbox: with one instance at a time the queue on disk is the
\* durable FIFO queue of DeliveryQueue.  Whatever fails, crashes or is retried,
\* only its head is offered to the server, and entries leave in order and with an
\* outcome.
THEOREM PromiseKept ==
    ASSUME OneAtATime
    PROVE  Spec => KeepsPromise
<1>1. Init => Promise!Init
  BY DEF Init, Parsed, Promise!Init
<1>2. Init => TypeInv /\ Safe
  BY TypeInit, SafeInit
<1>3. TypeInv /\ [Next]_vars => TypeInv'
  BY TypeBox, TypeEnvironment, TypeSame DEF Next
<1>4. TypeInv /\ TypeInv' /\ Safe /\ [Next]_vars => Safe'
  BY SafeBox, SafeEnvironment, SafeSame DEF Next
<1>5. TypeInv /\ TypeInv' /\ Safe /\ [Next]_vars => [Promise!Next]_(Promise!vars)
  <2>1. UNCHANGED vars => Implements
    BY DEF vars, history, netVars, Promise!vars, Implements
  <2> QED
    BY <2>1, ImplementsBox, ImplementsEnvironment DEF Next, Implements
<1> QED
  BY <1>1, <1>2, <1>3, <1>4, <1>5, PTL DEF Spec, KeepsPromise, Promise!Spec

-----------------------------------------------------------------------------
(***************************************************************************)
(* What the user is told is true.                                          *)
(***************************************************************************)

\* The answer to a POST of x got lost; the outbox has a record of the failed ones.
Lost(x) == \E how \in {"net", "cut", "crash"} : <<x, how>> \in lost
Recorded(x) == <<x, "net">> \in lost
Unrecorded(x) == <<x, "cut">> \in lost \/ <<x, "crash">> \in lost

Queue == Range(Parsed(stored).ids)
Awake(b) == phase[b] \in {"draining", "awake"}

\* What the share extension hands over it has POSTed in vain.
HandedLost ==
    /\ \A x \in mirror : Recorded(x)
    /\ \A b \in Boxes : \A x \in todo[b] : Recorded(x)

\* A POST nobody waits for is one whose answer got lost.
WireLost == \A x \in wire : Lost(x)

\* Only what was sent or shared is received, or lost.
Origins == \A x \in Entries : x \in received \/ Lost(x) => x \in sent \cup Mirrored

\* An entry whose POST failed stays the head, and is marked on disk and in memory.
FailedIsHead ==
    \A x \in Queue \ Mirrored : Recorded(x) =>
        /\ x = Head(Parsed(stored).ids)
        /\ x \in Parsed(stored).tried
        /\ \A b \in Boxes : Awake(b) => x \in tried[b]

\* An entry the server has and that is queued still is one whose answer got lost, or
\* is on its way back.
TakenAnswered ==
    \A x \in received \cap Queue :
        Lost(x) \/ \E b \in Boxes : post[b].at = "accepted" /\ post[b].id = x

\* Refused and cancelled entries have left for good.
RefusedLeft ==
    \A x \in refused : x \in sent /\ (Lost(x) \/ x \notin received \cup Queue)
CancelledLeft ==
    \A x \in cancelled : /\ x \in sent \ (Mirrored \cup Queue)
                         /\ Unrecorded(x) \/ (x \notin received /\ ~Recorded(x))

Told ==
    /\ HandedLost /\ WireLost /\ Origins /\ FailedIsHead /\ TakenAnswered
    /\ RefusedLeft /\ CancelledLeft

LEMMA ToldInit == Init => Told
<1> SUFFICES ASSUME Init PROVE Told
  OBVIOUS
<1>1. Queue = {}
  BY EmptyFacts DEF Init, Queue, Parsed
<1>2. /\ mirror = {} /\ wire = {} /\ received = {} /\ lost = {} /\ refused = {} /\ cancelled = {}
      /\ \A b \in Boxes : todo[b] = {}
  BY DEF Init
<1> QED
  BY <1>1, <1>2 DEF Told, HandedLost, WireLost, Origins, FailedIsHead, TakenAnswered,
                    RefusedLeft, CancelledLeft, Lost

\* A step that tells nobody anything.
Unsaid ==
    /\ UNCHANGED <<stored, wire, received, sent, refused, cancelled, lost>>
    /\ mirror' \subseteq mirror \cup UNION {todo[b] : b \in Boxes}
    /\ \A b \in Boxes :
          /\ todo'[b] \subseteq todo[b] \cup mirror
          /\ Awake(b)' => \/ tried'[b] = Parsed(stored).tried
                          \/ tried'[b] = tried[b] /\ Awake(b)
          /\ post[b].at = "accepted" => post'[b] = post[b]

LEMMA UnsaidKeeps ==
    ASSUME Told, Unsaid
    PROVE  Told'
<1>1. Queue' = Queue /\ \A x : /\ Lost(x)' <=> Lost(x)
                               /\ Recorded(x)' <=> Recorded(x)
                               /\ Unrecorded(x)' <=> Unrecorded(x)
  BY DEF Unsaid, Queue, Lost, Recorded, Unrecorded
<1>2. HandedLost'
  BY <1>1 DEF Told, HandedLost, Unsaid
<1>3. FailedIsHead'
  BY <1>1 DEF Told, FailedIsHead, Unsaid
<1>4. TakenAnswered'
  BY <1>1 DEF Told, TakenAnswered, Unsaid
<1>5. WireLost' /\ Origins' /\ RefusedLeft' /\ CancelledLeft'
  BY <1>1 DEF Told, WireLost, Origins, RefusedLeft, CancelledLeft, Unsaid
<1> QED
  BY <1>2, <1>3, <1>4, <1>5 DEF Told

LEMMA UnsaidSteps ==
    ASSUME TypeInv, NEW b \in Boxes,
           \/ Load(b) \/ Loaded(b) \/ Drained(b) \/ Called(b) \/ TimerFires(b)
           \/ Nudge(b) \/ Shifted(b) \/ Denied(b) \/ Failed(b) \/ Create(b)
           \/ \E x \in Mirrored : Enqueue(b, x) /\ Queued(b, x),
           Safe
    PROVE  Unsaid
<1> USE DEF Unsaid, Awake, netVars, history
<1>0. TypeOK
  BY DEF TypeInv
<1>1. CASE Load(b)
  BY <1>0, <1>1 DEF Load, TypeOK
<1>2. CASE Loaded(b)
  <2>1. read[b] = stored
    BY <1>2 DEF Loaded, Safe, QueueOnDisk
  <2> QED
    BY <1>0, <1>2, <2>1 DEF Loaded, Peek, TypeOK
<1>3. CASE Drained(b)
  BY <1>0, <1>3 DEF Drained, TypeOK
<1>4. CASE Called(b) \/ TimerFires(b) \/ Nudge(b)
  <2>1. \A c \in Boxes : post[c].at = "accepted" => post'[c] = post[c]
    BY <1>0, <1>4 DEF Called, TimerFires, Nudge, Flush, Loop, Flushing, TypeOK
  <2> QED
    BY <1>4, <2>1 DEF Called, TimerFires, Nudge
<1>5. CASE Shifted(b)
  <2>1. \A c \in Boxes : post[c].at = "accepted" => post'[c] = post[c]
    BY <1>0, <1>5 DEF Shifted, Loop, TypeOK
  <2> QED
    BY <1>5, <2>1 DEF Shifted
<1>6. CASE Denied(b) \/ Failed(b)
  BY <1>0, <1>6 DEF Denied, Failed, TypeOK
<1>7. CASE Create(b)
  BY <1>0, <1>7 DEF Create, TypeOK
<1>8. ASSUME NEW x \in Mirrored, Enqueue(b, x), Queued(b, x) PROVE Unsaid
  BY <1>0, <1>8 DEF Enqueue, Queued, TypeOK
<1> QED
  BY <1>1, <1>2, <1>3, <1>4, <1>5, <1>6, <1>7, <1>8

LEMMA UnsaidOthers ==
    ASSUME Sleep \/ SignIn \/ RevokeToken \/ RevokeTarget \/ UNCHANGED vars
    PROVE  Unsaid
BY DEF Unsaid, Awake, Sleep, SignIn, RevokeToken, RevokeTarget, vars, boxVars, netVars, history

LEMMA PushTold ==
    ASSUME TypeInv, Safe, Told, NEW b \in Boxes, NEW x \in Entries, Awake(b), Push(b, x),
           x \in Mirrored => Recorded(x),
           x \notin Mirrored => x \notin sent,
           UNCHANGED <<post, lost, received, refused, cancelled, wire, mirror, phase, tried>>,
           \A c \in Boxes : todo'[c] \subseteq todo[c]
    PROVE  Told'
<1>1. /\ Queue' = Queue \cup {x} /\ sent' = sent \cup {x}
      /\ Parsed(stored').ids = Append(Parsed(stored).ids, x)
  BY PushFacts DEF Awake, Queue
<1>2. \A y : /\ Lost(y)' <=> Lost(y)
             /\ Recorded(y)' <=> Recorded(y)
             /\ Unrecorded(y)' <=> Unrecorded(y)
  BY DEF Lost, Recorded, Unrecorded
<1>3. HandedLost' /\ WireLost' /\ Origins'
  BY <1>1, <1>2 DEF Told, HandedLost, WireLost, Origins
<1>4. TakenAnswered'
  <2>1. x \in received => Lost(x)
    BY DEF Told, Origins, Lost, Recorded
  <2> QED
    BY <1>1, <1>2, <2>1 DEF Told, TakenAnswered
<1>5. RefusedLeft'
  BY <1>1, <1>2 DEF Told, RefusedLeft, Lost, Recorded
<1>6. CancelledLeft'
  BY <1>1, <1>2 DEF Told, CancelledLeft
<1>7. FailedIsHead'
  <2> SUFFICES ASSUME NEW y \in Queue \cup {x}, y \notin Mirrored, Recorded(y)
               PROVE  /\ y = Head(Parsed(stored').ids)
                      /\ y \in Parsed(stored').tried
                      /\ \A c \in Boxes : Awake(c) => y \in tried[c]
    BY <1>1, <1>2 DEF FailedIsHead, Awake
  <2>1. y # x
    <3>1. y \in Entries
      <4>1. Parsed(stored).ids \in Seq(Entries)
        BY ParsedFacts DEF TypeInv, TypeOK
      <4> QED
        BY <4>1 DEF Queue, Range
    <3>2. y \in sent
      BY <3>1 DEF Told, Origins, Lost, Recorded
    <3> QED
      BY <3>2
  <2>2. /\ y = Head(Parsed(stored).ids) /\ y \in Queue
        /\ \A c \in Boxes : Awake(c) => y \in tried[c]
    BY <2>1 DEF Told, FailedIsHead
  <2>3. Parsed(stored).ids \in Seq(Entries) /\ Parsed(stored).ids # <<>>
    BY <2>2, ParsedFacts, EmptyFacts DEF TypeInv, TypeOK, Queue
  <2>4. Head(Parsed(stored').ids) = Head(Parsed(stored).ids)
    BY <1>1, <2>3, AppendFacts
  <2>5. Parsed(stored').tried = tried[b] \cap Queue'
    <3>1. entries'[b] \in Seq(Entries) /\ entries'[b] = Parsed(stored').ids
      <4>1. entries[b] \in Seq(Entries) /\ entries'[b] = Append(entries[b], x)
        BY DEF Push, TypeInv, TypeOK
      <4> QED
        BY <4>1, PushFacts DEF Awake
    <3>2. Persist(entries'[b], tried[b]) /\ tried[b] \in SUBSET Entries
      BY DEF Push, TypeInv, TypeOK
    <3> HIDE DEF TypeInv
    <3> QED
      BY <3>1, <3>2, PersistFacts DEF Queue
  <2> QED
    BY <1>1, <2>2, <2>4, <2>5
<1> QED
  BY <1>3, <1>4, <1>5, <1>6, <1>7 DEF Told


\* The queued ids were sent, and each is there once.
LEMMA QueueFacts ==
    ASSUME TypeInv
    PROVE  /\ Parsed(stored).ids \in Seq(Entries) /\ Unique(Parsed(stored).ids)
           /\ Queue \subseteq sent /\ Queue \subseteq Entries
<1>1. Parsed(stored).ids \in Seq(Entries)
  BY ParsedFacts DEF TypeInv, TypeOK
<1>2. Queue \subseteq Entries
  BY <1>1 DEF Queue, Range
<1> QED
  BY <1>1, <1>2 DEF TypeInv, TypeOK, Known, Queue

\* The entry that is POSTed is the head of what is stored.
LEMMA PostedQueued ==
    ASSUME TypeInv, Safe, NEW b \in Boxes, post[b].at \in {"posting", "accepted", "rejected"}
    PROVE  /\ Awake(b) /\ post[b].id \in Queue /\ post[b].id \in Entries
           /\ entries[b] = Parsed(stored).ids /\ Parsed(stored).ids # <<>>
           /\ Head(Parsed(stored).ids) = post[b].id
<1>1. entries[b] # <<>> /\ Head(entries[b]) = post[b].id
  BY DEF Safe, HeadPosted
<1>2. Awake(b) /\ entries[b] = Parsed(stored).ids
  BY <1>1, AwakeFacts DEF Awake
<1> QED
  BY <1>1, <1>2, QueueFacts, TailFacts DEF Queue

\* The posted entry leaves the queue; what is left is not it, and no POST of it failed.
LEMMA ShiftTold ==
    ASSUME OneAtATime, TypeInv, Safe, Told, NEW b \in Boxes,
           post[b].at \in {"accepted", "rejected"}, Shift(b),
           UNCHANGED <<mirror, phase, todo, wire, received, sent, cancelled, lost>>,
           \/ refused' = refused
           \/ post[b].at = "rejected" /\ refused' = refused \cup {post[b].id}
    PROVE  Told'
<1> DEFINE x == post[b].id
<1>1. x \in Queue /\ Head(Parsed(stored).ids) = x
  BY PostedQueued
<1>2. Queue = Queue' \cup {x} /\ x \notin Queue'
  <2>1. /\ Queue = Queue' \cup {x} /\ entries'[b] = Tail(entries[b])
        /\ entries[b] = Parsed(stored).ids /\ entries'[b] = Parsed(stored').ids
    BY ShiftFacts DEF Queue
  <2>2. Parsed(stored).ids # <<>>
    BY PostedQueued
  <2> QED
    BY <1>1, <2>1, <2>2, QueueFacts, TailFacts DEF Queue
<1>3. \A y : /\ Lost(y)' <=> Lost(y)
             /\ Recorded(y)' <=> Recorded(y)
             /\ Unrecorded(y)' <=> Unrecorded(y)
  BY DEF Lost, Recorded, Unrecorded
<1> HIDE DEF x
<1>4. HandedLost' /\ WireLost' /\ Origins'
  BY <1>3 DEF Told, HandedLost, WireLost, Origins
<1>5. FailedIsHead'
  BY <1>1, <1>2, <1>3 DEF Told, FailedIsHead
<1>6. \A y \in received \cap Queue : Lost(y) \/ (post[b].at = "accepted" /\ y = x)
  BY DEF Told, TakenAnswered, OneAtATime, x
<1>7. TakenAnswered'
  BY <1>2, <1>3, <1>6 DEF TakenAnswered
<1>8. RefusedLeft'
  <2>1. \A y \in refused : y \in sent /\ (Lost(y) \/ y \notin received \cup Queue')
    BY <1>2 DEF Told, RefusedLeft
  <2>2. post[b].at = "rejected" => x \in sent /\ (Lost(x) \/ x \notin received \cup Queue')
    BY <1>1, <1>2, <1>6, QueueFacts
  <2> QED
    BY <1>3, <2>1, <2>2 DEF RefusedLeft, x
<1>9. CancelledLeft'
  BY <1>2, <1>3 DEF Told, CancelledLeft
<1> QED
  BY <1>4, <1>5, <1>7, <1>8, <1>9 DEF Told

\* Only an entry that no POST of which was recorded as failed can be taken back; a
\* flush under way cannot be interfered with.
LEMMA CancelTold ==
    ASSUME TypeInv, Safe, OneAtATime, Told, NEW b \in Boxes, NEW i \in DOMAIN entries[b],
           Cancel(b, i)
    PROVE  Told'
<1> DEFINE s == entries[b]
           x == entries[b][i]
           cut == SubSeq(s, 1, i - 1) \o SubSeq(s, i + 1, Len(s))
<1>0. /\ Awake(b) /\ s = Parsed(stored).ids /\ s \in Seq(Entries) /\ Unique(s)
      /\ \A c \in Boxes : c = b
  BY DEF Cancel, Awake, Safe, QueueOnDisk, TypeInv, TypeOK, OneAtATime
<1>1. /\ cut \in Seq(Entries) /\ Range(s) = {x} \cup Range(cut) /\ x \notin Range(cut)
      /\ i # 1 => Head(cut) = Head(s)
      /\ x \in Range(s)
  BY <1>0, CutFacts
<1>2. /\ i = 1 => Head(s) = x
      /\ \A y : y = Head(s) /\ y # x => i # 1
  BY <1>0
<1>3. /\ entries'[b] = cut
      /\ tried' = [tried EXCEPT ![b] = @ \ {x}]
      /\ Persist(entries'[b], tried'[b])
  BY DEF Cancel, TypeInv, TypeOK
<1>4. tried'[b] = tried[b] \ {x} /\ tried'[b] \in SUBSET Entries
  BY <1>3 DEF TypeInv, TypeOK
<1>5. /\ x \notin Mirrored /\ cancelled' = cancelled \cup {x}
      /\ post[b].at = "idle" /\ ~(i = 1 /\ x \in tried[b])
      /\ UNCHANGED <<mirror, phase, todo, post, wire, received, sent, refused, lost>>
  BY DEF Cancel, Cancellable, Flushing, netVars
<1> HIDE DEF s, x, cut
<1>6. Parsed(stored').ids = cut /\ Parsed(stored').tried = tried'[b] \cap Range(cut)
  BY <1>1, <1>3, <1>4, PersistFacts
<1>7. Queue = Queue' \cup {x} /\ x \notin Queue' /\ x \in sent
  BY <1>0, <1>1, <1>6, QueueFacts DEF Queue
<1>8. \A y : /\ Lost(y)' <=> Lost(y)
             /\ Recorded(y)' <=> Recorded(y)
             /\ Unrecorded(y)' <=> Unrecorded(y)
  BY <1>5 DEF Lost, Recorded, Unrecorded
<1>9. ~Recorded(x)
  <2> SUFFICES ASSUME Recorded(x) PROVE FALSE
    OBVIOUS
  <2>1. x = Head(s) /\ x \in tried[b]
    BY <1>0, <1>5, <1>7 DEF Told, FailedIsHead
  <2>2. i = 1
    BY <1>0, <2>1 DEF s, x, Unique, IsInjective
  <2> QED
    BY <1>5, <2>1, <2>2
<1>10. x \in received => Unrecorded(x)
  BY <1>0, <1>5, <1>7, <1>9 DEF Told, TakenAnswered, Lost, Recorded, Unrecorded
<1>11. FailedIsHead'
  <2> SUFFICES ASSUME NEW y \in Queue', y \notin Mirrored, Recorded(y)
               PROVE  /\ y = Head(Parsed(stored').ids)
                      /\ y \in Parsed(stored').tried
                      /\ \A c \in Boxes : Awake(c)' => y \in tried'[c]
    BY <1>8 DEF FailedIsHead
  <2>1. y # x /\ y = Head(s) /\ y \in tried[b]
    BY <1>0, <1>7 DEF Told, FailedIsHead
  <2>2. y \in Range(cut)
    BY <1>6 DEF Queue
  <2> QED
    BY <1>0, <1>1, <1>2, <1>4, <1>6, <2>1, <2>2
<1>12. HandedLost' /\ WireLost' /\ Origins' /\ TakenAnswered'
  BY <1>5, <1>7, <1>8 DEF Told, HandedLost, WireLost, Origins, TakenAnswered
<1>13. RefusedLeft' /\ CancelledLeft'
  BY <1>5, <1>7, <1>8, <1>9, <1>10 DEF Told, RefusedLeft, CancelledLeft
<1> QED
  BY <1>11, <1>12, <1>13 DEF Told

\* A POST fails: its entry is the head, and is marked.
LEMMA PostFailsTold ==
    ASSUME TypeInv, Safe, OneAtATime, Told, NEW b \in Boxes, PostFails(b)
    PROVE  Told'
<1> DEFINE x == post[b].id
<1>1. /\ x \in Queue /\ x \in Entries /\ Head(Parsed(stored).ids) = x
      /\ entries[b] = Parsed(stored).ids /\ entries[b] \in Seq(Entries)
      /\ \A c \in Boxes : c = b
  BY PostedQueued DEF PostFails, OneAtATime, TypeInv, TypeOK
<1>2. /\ tried' = [tried EXCEPT ![b] = @ \cup ({x} \cap Range(entries[b]))]
      /\ Persist(entries[b], tried'[b])
      /\ tried \in [Boxes -> SUBSET Entries]
  BY DEF PostFails, TypeInv, TypeOK
<1>3. /\ lost' = lost \cup {<<x, "net">>} /\ wire' \subseteq wire \cup {x}
      /\ UNCHANGED <<mirror, phase, todo, received, sent, refused, cancelled>>
  BY DEF PostFails
<1>p. \A c \in Boxes : post[c].at = "accepted" => post[c].id = x
  BY <1>1
<1> HIDE DEF x
<1>4. tried'[b] = tried[b] \cup {x} /\ tried'[b] \in SUBSET Entries
  BY <1>1, <1>2 DEF Queue
<1>5. /\ Parsed(stored').ids = Parsed(stored).ids
      /\ Parsed(stored').tried = tried'[b] \cap Queue
  BY <1>1, <1>2, <1>4, PersistFacts DEF Queue
<1>6. Queue' = Queue
  BY <1>5 DEF Queue
<1>7. \A y : /\ Lost(y)' <=> Lost(y) \/ y = x
             /\ Recorded(y)' <=> Recorded(y) \/ y = x
             /\ Unrecorded(y)' <=> Unrecorded(y)
  BY <1>3 DEF Lost, Recorded, Unrecorded
<1>8. FailedIsHead'
  <2> SUFFICES ASSUME NEW y \in Queue, y \notin Mirrored, Recorded(y) \/ y = x
               PROVE  /\ y = Head(Parsed(stored).ids)
                      /\ y \in tried'[b]
    BY <1>1, <1>5, <1>6, <1>7 DEF FailedIsHead
  <2>1. CASE y = x
    BY <1>1, <1>4, <2>1
  <2>2. CASE y # x
    <3>1. Awake(b)
      BY PostedQueued DEF PostFails
    <3> QED
      BY <1>4, <2>2, <3>1 DEF Told, FailedIsHead
  <2> QED
    BY <2>1, <2>2
<1>9. HandedLost' /\ WireLost'
  BY <1>3, <1>7 DEF Told, HandedLost, WireLost
<1>10. Origins'
  <2>1. x \in sent
    BY <1>1, QueueFacts
  <2> QED
    BY <1>3, <1>7, <2>1 DEF Told, Origins
<1>11. TakenAnswered' /\ RefusedLeft'
  <2>1. TakenAnswered'
    BY <1>3, <1>6, <1>7, <1>p DEF Told, TakenAnswered
  <2>2. RefusedLeft'
    BY <1>3, <1>6, <1>7 DEF Told, RefusedLeft
  <2> QED
    BY <2>1, <2>2
<1>12. CancelledLeft'
  BY <1>1, <1>3, <1>6, <1>7 DEF Told, CancelledLeft
<1> QED
  BY <1>8, <1>9, <1>10, <1>11, <1>12 DEF Told

\* An answer that breaks off and a crash leave no mark, and say so.
LEMMA UnrecordedTold ==
    ASSUME TypeInv, Safe, OneAtATime, Told,
           \/ \E b \in Boxes : AnswerCut(b)
           \/ Crash
    PROVE  Told'
<1> DEFINE gone == {x \in Entries : Unrecorded(x)' /\ ~Unrecorded(x)}
<1>1. /\ lost \subseteq lost' /\ \A y : Recorded(y)' <=> Recorded(y)
      /\ UNCHANGED <<stored, mirror, received, sent, refused, cancelled>>
  <2>1. ASSUME NEW b \in Boxes, AnswerCut(b)
        PROVE  /\ lost \subseteq lost' /\ \A y : Recorded(y)' <=> Recorded(y)
               /\ UNCHANGED <<stored, mirror, received, sent, refused, cancelled>>
    BY <2>1 DEF AnswerCut, Recorded
  <2>2. CASE Crash
    BY <2>2 DEF Crash, Recorded
  <2> QED
    BY <2>1, <2>2
<1>2. \A y : (Lost(y) => Lost(y)') /\ (Unrecorded(y) => Unrecorded(y)') /\ (Unrecorded(y)' => Lost(y)')
  BY <1>1 DEF Lost, Unrecorded
<1>3. \A b \in Boxes : post[b].at = "accepted" => 
         \/ post'[b] = post[b]
         \/ <<post[b].id, "cut">> \in lost' \/ <<post[b].id, "crash">> \in lost'
  <2>1. ASSUME NEW c \in Boxes, AnswerCut(c)
        PROVE  \A b \in Boxes : <<post[b].id, "cut">> \in lost'
    BY <2>1 DEF AnswerCut, OneAtATime
  <2>2. CASE Crash
    BY <2>2 DEF Crash
  <2> QED
    BY <2>1, <2>2
<1>4. \A x \in wire' : x \in wire \/ Unrecorded(x)'
  <2>1. ASSUME NEW b \in Boxes, AnswerCut(b) PROVE wire' = wire
    BY <2>1 DEF AnswerCut
  <2>2. CASE Crash
    BY <2>2 DEF Crash, Unrecorded
  <2> QED
    BY <2>1, <2>2
<1>5. \A x : Lost(x)' => Lost(x) \/ x \in Queue
  <2>1. ASSUME NEW b \in Boxes, AnswerCut(b), NEW x, Lost(x)' PROVE Lost(x) \/ x \in Queue
    <3>1. x = post[b].id \/ Lost(x)
      BY <2>1 DEF AnswerCut, Lost
    <3> QED
      BY <2>1, <3>1, PostedQueued DEF AnswerCut
  <2>2. ASSUME Crash, NEW x, Lost(x)' PROVE Lost(x) \/ x \in Queue
    <3>1. Lost(x) \/ \E b \in Boxes : post[b].at \in {"posting", "accepted"} /\ x = post[b].id
      BY <2>2 DEF Crash, Lost
    <3> QED
      BY <3>1, PostedQueued
  <2> QED
    BY <2>1, <2>2
<1>6. \A b \in Boxes : /\ todo'[b] \subseteq todo[b]
                       /\ Awake(b)' => Awake(b) /\ tried'[b] = tried[b]
  <2>1. ASSUME NEW c \in Boxes, AnswerCut(c)
        PROVE  UNCHANGED <<todo, phase, tried>>
    BY <2>1 DEF AnswerCut
  <2>2. CASE Crash
    BY <2>2 DEF Crash, Awake
  <2> QED
    BY <2>1, <2>2 DEF Awake
<1>7. Queue' = Queue
  BY <1>1 DEF Queue
<1>8. HandedLost' /\ WireLost'
  BY <1>1, <1>2, <1>4, <1>6 DEF Told, HandedLost, WireLost
<1>9. Origins'
  BY <1>1, <1>5, QueueFacts DEF Told, Origins
<1>10. FailedIsHead'
  BY <1>1, <1>6, <1>7 DEF Told, FailedIsHead
<1>11. TakenAnswered'
  BY <1>1, <1>2, <1>3, <1>7 DEF Told, TakenAnswered, Lost
<1>12. RefusedLeft' /\ CancelledLeft'
  BY <1>1, <1>2, <1>7 DEF Told, RefusedLeft, CancelledLeft
<1> QED
  BY <1>8, <1>9, <1>10, <1>11, <1>12 DEF Told

LEMMA ShareTold ==
    ASSUME Told, NEW x \in Entries, Share(x)
    PROVE  Told'
<1>1. /\ x \in Mirrored /\ mirror' = mirror \cup {x} /\ wire' = wire \cup {x}
      /\ lost' = lost \cup {<<x, "net">>}
      /\ UNCHANGED <<stored, boxVars, received, sent, refused, cancelled>>
  BY DEF Share
<1>2. \A y : /\ Lost(y)' <=> Lost(y) \/ y = x
             /\ Recorded(y)' <=> Recorded(y) \/ y = x
             /\ Unrecorded(y)' <=> Unrecorded(y)
  BY <1>1 DEF Lost, Recorded, Unrecorded
<1>3. Queue' = Queue /\ UNCHANGED <<phase, todo, tried, post>>
  BY <1>1 DEF Queue, boxVars
<1>4. HandedLost' /\ WireLost' /\ Origins'
  BY <1>1, <1>2, <1>3 DEF Told, HandedLost, WireLost, Origins
<1>5. FailedIsHead' /\ TakenAnswered'
  BY <1>1, <1>2, <1>3 DEF Told, FailedIsHead, Awake, TakenAnswered
<1>6. RefusedLeft' /\ CancelledLeft'
  BY <1>1, <1>2, <1>3 DEF Told, RefusedLeft, CancelledLeft
<1> QED
  BY <1>4, <1>5, <1>6 DEF Told

\* The account takes an entry: the one whose POST is answered, or one that is lost.
LEMMA ReceiveTold ==
    ASSUME TypeInv, Safe, OneAtATime, Told,
           \/ \E b \in Boxes : Answer(b)
           \/ \E x \in Entries : Late(x)
    PROVE  Told'
<1>1. /\ wire' \subseteq wire
      /\ UNCHANGED <<stored, mirror, sent, refused, cancelled, lost, phase, todo, tried>>
  BY DEF Answer, Late, boxVars, history
<1>2. Queue' = Queue /\ \A y : /\ Lost(y)' <=> Lost(y)
                               /\ Recorded(y)' <=> Recorded(y)
                               /\ Unrecorded(y)' <=> Unrecorded(y)
  BY <1>1 DEF Queue, Lost, Recorded, Unrecorded
<1>3. \A x \in received' :
         \/ x \in received
         \/ Lost(x)
         \/ x \in Queue /\ \E b \in Boxes : post'[b].at = "accepted" /\ post'[b].id = x
  <2>1. ASSUME NEW b \in Boxes, Answer(b), NEW x \in received', x \notin received
        PROVE  x \in Queue /\ post'[b].at = "accepted" /\ post'[b].id = x
    <3>1. x = post[b].id /\ post' = [post EXCEPT ![b].at = "accepted"] /\ post[b].at = "posting"
      BY <2>1 DEF Answer
    <3>2. x \in Queue
      BY <3>1, PostedQueued
    <3>3. post'[b].at = "accepted" /\ post'[b].id = post[b].id
      BY <3>1, AtTypes, PostFacts DEF TypeInv, TypeOK
    <3> QED
      BY <3>1, <3>2, <3>3
  <2>2. ASSUME NEW y \in Entries, Late(y), NEW x \in received', x \notin received
        PROVE  Lost(x)
    BY <2>2 DEF Late, Told, WireLost
  <2> QED
    BY <2>1, <2>2
<1>4. \A b \in Boxes : post[b].at = "accepted" => post'[b] = post[b]
  BY DEF Answer, Late, OneAtATime, boxVars
<1>5. HandedLost' /\ WireLost'
  BY <1>1, <1>2 DEF Told, HandedLost, WireLost
<1>6. Origins'
  BY <1>1, <1>2, <1>3, QueueFacts DEF Told, Origins
<1>7. FailedIsHead'
  BY <1>1, <1>2 DEF Told, FailedIsHead, Awake
<1>8. TakenAnswered'
  BY <1>1, <1>2, <1>3, <1>4 DEF Told, TakenAnswered
<1>9. RefusedLeft'
  BY <1>1, <1>2, <1>3 DEF Told, RefusedLeft
<1>10. CancelledLeft'
  <2>1. \A x \in cancelled : Lost(x) => Unrecorded(x)
    BY DEF Told, CancelledLeft, Lost, Recorded, Unrecorded
  <2> QED
    BY <1>1, <1>2, <1>3, <2>1 DEF Told, CancelledLeft
<1> QED
  BY <1>5, <1>6, <1>7, <1>8, <1>9, <1>10 DEF Told

LEMMA ToldStep ==
    ASSUME OneAtATime, TypeInv, Safe, Told, [Next]_vars
    PROVE  Told'
<1>1. ASSUME Sleep \/ SignIn \/ RevokeToken \/ RevokeTarget \/ UNCHANGED vars PROVE Told'
  BY <1>1, UnsaidOthers, UnsaidKeeps
<1>2. ASSUME NEW b \in Boxes, Step(b) PROVE Told'
  <2>1. ASSUME \/ Load(b) \/ Loaded(b) \/ Drained(b) \/ Called(b) \/ TimerFires(b)
               \/ Shifted(b) \/ Denied(b) \/ Failed(b)
        PROVE  Told'
    BY <2>1, UnsaidSteps, UnsaidKeeps
  <2>2. ASSUME NEW x \in Mirrored, Enqueue(b, x) PROVE Told'
    <3>1. CASE Queued(b, x)
      BY <2>2, <3>1, UnsaidSteps, UnsaidKeeps
    <3>2. CASE ~Queued(b, x)
      <4>1. Push(b, x) /\ Awake(b) /\ x \in todo[b]
        BY <2>2, <3>2 DEF Enqueue, Awake
      <4>3. Recorded(x) /\ x \in Entries
        BY <4>1, MirroredAssumption DEF Told, HandedLost
      <4>2. \A c \in Boxes : todo'[c] \subseteq todo[c]
        BY <2>2 DEF Enqueue, TypeInv, TypeOK
      <4> QED
        BY <2>2, <4>1, <4>2, <4>3, PushTold DEF Enqueue, netVars
    <3> QED
      BY <3>1, <3>2
  <2>3. ASSUME Answer(b) PROVE Told'
    BY <2>3, ReceiveTold
  <2>4. ASSUME Accepted(b) \/ Rejected(b) PROVE Told'
    BY <2>4, ShiftTold DEF Accepted, Rejected, netVars, history
  <2> QED
    BY <1>2, <2>1, <2>2, <2>3, <2>4 DEF Step
<1>3. ASSUME NEW b \in Boxes, Create(b) \/ Nudge(b) PROVE Told'
  BY <1>3, UnsaidSteps, UnsaidKeeps
<1>4. ASSUME NEW b \in Boxes, PostFails(b) PROVE Told'
  BY <1>4, PostFailsTold
<1>5. ASSUME Crash \/ \E b \in Boxes : AnswerCut(b) PROVE Told'
  BY <1>5, UnrecordedTold
<1>6. ASSUME NEW b \in Boxes, NEW x \in Entries, Send(b, x) PROVE Told'
  <2>1. Awake(b) /\ Push(b, x) /\ x \notin sent \cup Mirrored
    BY <1>6 DEF Send, Awake, OneAtATime
  <2> QED
    BY <1>6, <2>1, PushTold DEF Send, netVars
<1>7. ASSUME NEW b \in Boxes, NEW i \in DOMAIN entries[b], Cancel(b, i) PROVE Told'
  BY <1>7, CancelTold
<1>8. ASSUME NEW x \in Entries, Share(x) PROVE Told'
  BY <1>8, ShareTold
<1>9. ASSUME NEW x \in Entries, Late(x) PROVE Told'
  BY <1>9, ReceiveTold
<1> QED
  BY <1>1, <1>2, <1>3, <1>4, <1>5, <1>6, <1>7, <1>8, <1>9 DEF Next, Environment

\* ToldTruth of Outbox: with one instance at a time, an entry reported as cancelled is
\* not in the account unless an answer broke off or the process ended while it was
\* POSTed, and one reported as rejected is not unless some answer to it got lost.
THEOREM ToldIsTrue ==
    ASSUME OneAtATime
    PROVE  Spec => []ToldTruth
<1>1. Init => TypeInv /\ Safe /\ Told
  BY TypeInit, SafeInit, ToldInit
<1>2. TypeInv /\ [Next]_vars => TypeInv'
  BY TypeBox, TypeEnvironment, TypeSame DEF Next
<1>3. TypeInv /\ TypeInv' /\ Safe /\ [Next]_vars => Safe'
  BY SafeBox, SafeEnvironment, SafeSame DEF Next
<1>4. TypeInv /\ Safe /\ Told /\ [Next]_vars => Told'
  BY ToldStep
<1>5. Told => ToldTruth
  BY DEF Told, RefusedLeft, CancelledLeft, Lost, Unrecorded, ToldTruth
<1> QED
  BY <1>1, <1>2, <1>3, <1>4, <1>5, PTL DEF Spec
===============================================================================
