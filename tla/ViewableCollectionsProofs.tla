------------------------ MODULE ViewableCollectionsProofs ------------------------
(***************************************************************************)
(* Theorems about the observable list, map and set, for every number of    *)
(* views, keys, elements and nested calls.                                 *)
(***************************************************************************)
EXTENDS ViewableCollections, SequenceTheorems, TLAPS

-----------------------------------------------------------------------------
(***************************************************************************)
(* The inductive invariant: the types.  A call is one of eight, and a view  *)
(* that is told what the collection holds is told of it once.               *)
(***************************************************************************)

Items  == [key : ItemKeys \union {NoKey}, stamp : Nat \ {0}]
ViewEvents == [op : {"add", "update", "remove"}, at : Nat \ {0}, new : Items, old : Items]

ViewFrames ==
    [do : {"user"}]
      \union [do : {"fire"}, event : ViewEvents, next : Nat \ {0}]
      \union [do : {"erase"}, key : ItemKeys]
      \union [do : {"clear"}, events : Seq(ViewEvents)]
      \union [do : {"addTo"}, of : Watchers, event : ViewEvents]
      \union [do : {"replay"}, of : Watchers, next : Nat \ {0}]
      \union [do : {"addAll"}, at : Nat, left : Nat]
      \union [do : {"removeAll"}, at : Nat, these : SUBSET Items]

Listed(x) == \E i \in DOMAIN watchers : watchers[i] = x

Reports(f, x) == f.do = "replay" /\ f.of = x

IsKnown(f) ==
    /\ f.do = "fire" => f.next <= Len(watchers) + 1
    /\ f.do \in {"addTo", "replay"} => f.of \in subscribed
    /\ f.do = "replay" /\ kind = "set" => ~Listed(f.of)

ViewTypes ==
    /\ kind \in {"list", "map", "set"} /\ made \in Nat
    /\ elements \in Seq(Items) /\ kept \in [Watchers -> Seq(Items)]
    /\ watchers \in Seq(Watchers) /\ subscribed \subseteq Watchers
    /\ frames \in Seq(ViewFrames)
    /\ \A i \in DOMAIN watchers : watchers[i] \in subscribed
    /\ \A i, j \in DOMAIN watchers : watchers[i] = watchers[j] => i = j
    /\ \A x \in Watchers \ subscribed : kept[x] = <<>>
    /\ \A i \in DOMAIN frames : IsKnown(frames[i])
    /\ \A i, j \in DOMAIN frames :
         frames[i].do = "replay" /\ Reports(frames[j], frames[i].of) => i = j

-----------------------------------------------------------------------------
(***************************************************************************)
(* The inductive invariant of a map and of a set.  What a view keeps and    *)
(* what the collection holds differ by what the calls that are under way    *)
(* have yet to bring, and each of these is somewhere on the stack: as long  *)
(* as no call stands to run through what another has erased (Fatal), and    *)
(* nothing is on its way to the view that is gone by now (Late).  Either    *)
(* of these ends in a call that is broken.                                  *)
(***************************************************************************)

\* What frame f means to x: an event it has not heard yet, an element that
\* comes, and a report of what the collection holds.
Told(f, x, ws)   == \E i \in 1 .. f.next - 1 : ws[i] = x
Untold(f, x, ws) == f.do = "fire" /\ ~Told(f, x, ws)
Brings(f, x, ws) == \/ Untold(f, x, ws) /\ f.event.op \in {"add", "update"}
                    \/ f.do = "addTo" /\ f.of = x
Renews(f, x, ws) == Untold(f, x, ws) /\ f.event.op = "update"

ErasesKey(f, k)    == f.do = "erase" /\ f.key = k
Tells(f, op, k) == f.do = "fire" /\ f.event.op = op /\ f.event.new.key = k

\* A call that will drop elements, and one that is broken when they are.
WillDrop(f) == f.do \in {"erase", "clear"}
Holds(f) == \/ f.do = "replay"
            \/ kind = "set" /\ f.do = "erase"
            \/ kind = "map" /\ f.do = "fire" /\ f.event.op = "update"

Fatal == \E j \in DOMAIN frames : WillDrop(frames[j]) /\ \E i \in 1 .. j - 1 : Holds(frames[i])
\* What is on its way to x is not there any more.
Late(x) == \E i \in DOMAIN frames :
              Brings(frames[i], x, watchers) /\ frames[i].event.new \notin ToSet(elements)

KeyedOnce(s) == \A i, j \in DOMAIN s : s[i].key = s[j].key => i = j

IsKeyed(f) ==
    /\ f.do \notin {"addAll", "removeAll"}
    /\ f.do \in {"fire", "addTo"} =>
         f.event.new.stamp <= made /\ f.event.old.key = f.event.new.key
    /\ f.do = "clear" =>
         \A j \in DOMAIN f.events :
            LET ev == f.events[j] IN
            ev.old = ev.new /\ ev.new.stamp <= made /\ ev.op = "remove"

KeyTypes ==
    /\ KeyedOnce(elements)
    /\ \A i \in DOMAIN elements : elements[i].key \in ItemKeys /\ elements[i].stamp <= made
    /\ \A x \in Watchers : KeyedOnce(kept[x])
    /\ \A i \in DOMAIN frames : IsKeyed(frames[i])
    /\ \A x \in subscribed \ ended : Listed(x) \/ \E i \in DOMAIN frames : Reports(frames[i], x)
    /\ kind # "set" => \A x \in subscribed : Listed(x)

\* An event of a removal is fired by the call below it.
RemovalsAreFired ==
    /\ \A i \in DOMAIN frames : frames[i].do = "fire" /\ frames[i].event.op = "remove" =>
         i > 1 /\ (frames[i - 1].do = "clear" \/ ErasesKey(frames[i - 1], frames[i].event.new.key))
    /\ \A i \in DOMAIN frames : frames[i].do = "erase" /\ i < Len(frames) =>
         Tells(frames[i + 1], "remove", frames[i].key)

ClearsAlone ==
    \A j \in DOMAIN frames : frames[j].do = "clear" =>
       /\ \A i \in DOMAIN frames : frames[i].do # "erase"
       /\ \A i \in j + 1 .. Len(frames) :
            \/ frames[i].do = "user"
            \/ i = j + 1 /\ frames[i].do = "fire" /\ frames[i].event.op = "remove"

ErasedOnce ==
    /\ \A j \in DOMAIN frames : frames[j].do = "erase" => HasKey(elements, frames[j].key)
    /\ \A i, j \in DOMAIN frames :
         frames[i].do = "erase" /\ ErasesKey(frames[j], frames[i].key) => i = j
    /\ \A i \in DOMAIN frames : \A j \in 1 .. i - 1 :
         /\ frames[j].do = "erase"
         /\ frames[i].do = "addTo" \/ (frames[i].do = "fire" /\ frames[i].event.op # "remove")
         => frames[i].event.new.key # frames[j].key

ReportsAlone ==
    kind = "set" => \A i \in DOMAIN frames : \A j \in 1 .. i - 1 :
                       frames[j].do = "replay" => frames[i].do # "fire"

Ordered == RemovalsAreFired /\ ClearsAlone /\ ErasedOnce /\ ReportsAlone

\* What x keeps is there, or x will hear that another took its place.
KeptIsThere(x) ==
    \A p \in DOMAIN kept[x] :
       \/ kept[x][p] \in ToSet(elements)
       \/ \E i \in DOMAIN frames :
             Renews(frames[i], x, watchers) /\ frames[i].event.new.key = kept[x][p].key

\* What is there x keeps, or it will come to x, or it is about to go.
Promises(f, x, ws, p, k) ==
    \/ Brings(f, x, ws) /\ f.event.new.key = k
    \/ Reports(f, x) /\ f.next <= p
    \/ ErasesKey(f, k)
    \/ f.do = "clear"

ThereIsKept(x) ==
    \A p \in DOMAIN elements :
       \/ HasKey(kept[x], elements[p].key)
       \/ \E i \in DOMAIN frames : Promises(frames[i], x, watchers, p, elements[p].key)

\* What is about to go x does not keep any more, or it will hear of that.
ClearedIsTold(x) ==
    \A j \in DOMAIN frames : frames[j].do = "clear" =>
       \A p \in DOMAIN kept[x] :
          \/ \E i \in DOMAIN frames[j].events : frames[j].events[i].new.key = kept[x][p].key
          \/ /\ j < Len(frames) /\ Untold(frames[j + 1], x, watchers)
             /\ Tells(frames[j + 1], "remove", kept[x][p].key)

ErasedIsTold(x) ==
    \A j \in DOMAIN frames : frames[j].do = "erase" /\ HasKey(kept[x], frames[j].key) =>
       j < Len(frames) /\ Untold(frames[j + 1], x, watchers)

KeysMirror(x) == KeptIsThere(x) /\ ThereIsKept(x) /\ ClearedIsTold(x) /\ ErasedIsTold(x)

KeysInv ==
    /\ ViewTypes /\ KeyTypes
    /\ ~Fatal => /\ Ordered
                 /\ \A x \in subscribed \ ended : ~Late(x) => KeysMirror(x)

-----------------------------------------------------------------------------
(***************************************************************************)
(* The inductive invariant of a list.  Its positions mean something only    *)
(* while one event at a time is under way: a view keeps the list as it was  *)
(* before that event, or as it is; in the middle of a clear, or of a        *)
(* report to a new view, a beginning of it.                                 *)
(***************************************************************************)

\* What the list was before an event of it.
Before(ev) ==
    CASE ev.op = "add"    -> RemoveAt(elements, ev.at)
      [] ev.op = "remove" -> InsertAt(elements, ev.at, ev.old)
      [] ev.op = "update" -> ReplaceAt(elements, ev.at, ev.old)

IsMade(ev) == IF ev.op = "remove" THEN ev.at \in 1 .. Len(elements) + 1
              ELSE ev.at \in DOMAIN elements /\ elements[ev.at] = ev.new

\* A call that is not over for some view, one that means nothing to x.
Busy(f) == \/ f.do \in {"clear", "addTo", "replay"}
           \/ f.do = "fire" /\ f.next <= Len(watchers)
Silent(f, x, ws) ==
    ~Reports(f, x) /\ ~Brings(f, x, ws) /\ ~Untold(f, x, ws) /\ f.do # "clear"

\* Of the calls that are not over one is inside another only if it is the
\* event of a clear, or the second half of an update.
OneAtATime ==
    /\ \A x \in subscribed : Listed(x)
    /\ \A j \in DOMAIN frames : frames[j].do # "erase"
    /\ \A i, j \in DOMAIN frames :
         frames[i].do = "replay" => frames[j].do \notin {"fire", "clear", "addTo"}
    /\ \A j \in DOMAIN frames : frames[j].do = "addTo" =>
         /\ \E i \in 1 .. j - 1 : frames[i].do = "fire"
         /\ \A i \in DOMAIN frames : ~Untold(frames[i], frames[j].of, watchers)
    /\ \A j \in DOMAIN frames : \A i \in 1 .. j - 1 :
         Busy(frames[i]) /\ Busy(frames[j]) /\ frames[i].do # "replay" =>
            \/ frames[i].do = "clear" /\ frames[j].do = "fire"
            \/ frames[i].do = "fire" /\ frames[j].do = "addTo"

ListReported(x) ==
    \A i \in DOMAIN frames : Reports(frames[i], x) =>
       frames[i].next <= Len(elements) + 1 /\ kept[x] = SubSeq(elements, 1, frames[i].next - 1)

ListHalfTold(x) ==
    \A i \in DOMAIN frames : frames[i].do = "addTo" /\ frames[i].of = x =>
       /\ frames[i].event.op # "remove" /\ IsMade(frames[i].event)
       /\ kept[x] = RemoveAt(elements, frames[i].event.at)

ListUntold(x) ==
    \A i \in DOMAIN frames :
       Untold(frames[i], x, watchers) /\ (\A j \in DOMAIN frames : frames[j].do # "clear") =>
          IsMade(frames[i].event) /\ kept[x] = Before(frames[i].event)

\* The events of a clear go from the end of the list to its beginning.
ListCleared(x) ==
    \A i \in DOMAIN frames : frames[i].do = "clear" =>
       LET n == Len(frames[i].events) IN
       /\ \A j \in 1 .. n : /\ n + 1 - j \in DOMAIN elements
                            /\ frames[i].events[j] = Removed(n + 1 - j, elements[n + 1 - j])
       /\ \A j \in DOMAIN frames : Untold(frames[j], x, watchers) =>
             /\ n + 1 \in DOMAIN elements /\ frames[j].event = Removed(n + 1, elements[n + 1])
             /\ kept[x] = SubSeq(elements, 1, n + 1)
       /\ (\A j \in DOMAIN frames : ~Untold(frames[j], x, watchers)) =>
             kept[x] = SubSeq(elements, 1, n)

ListQuiet(x) == (\A i \in DOMAIN frames : Silent(frames[i], x, watchers)) => kept[x] = elements

ListMirrors(x) ==
    ListReported(x) /\ ListHalfTold(x) /\ ListUntold(x) /\ ListCleared(x) /\ ListQuiet(x)

ListsInv ==
    /\ ViewTypes /\ OneAtATime
    /\ \A x \in subscribed \ ended : ListMirrors(x)

ViewsInv == ~broken /\ ~crossed => IF kind = "list" THEN ListsInv ELSE KeysInv

\* The first b calls of the stack go on, those above them do not.
GoOn(b) ==
    /\ b \in 0 .. Len(frames) /\ b <= Len(frames') /\ frames' \in Seq(ViewFrames)
    /\ \A i \in 1 .. b : frames'[i] = frames[i]
    /\ watchers' = watchers \/ \E y \in Watchers : watchers' = Append(watchers, y)

-----------------------------------------------------------------------------
(***************************************************************************)
(* Sequences, and sequences that have each key once                         *)
(***************************************************************************)

\* What a push does to a stack.
LEMMA Pushed ==
    ASSUME NEW S, NEW s \in Seq(S), NEW f \in S
    PROVE  /\ Append(s, f) \in Seq(S)
           /\ Len(Append(s, f)) = Len(s) + 1 /\ Len(s) \in Nat
           /\ DOMAIN Append(s, f) = 1 .. Len(s) + 1 /\ DOMAIN s = 1 .. Len(s)
           /\ \A i \in 1 .. Len(s) : Append(s, f)[i] = s[i]
           /\ Append(s, f)[Len(s) + 1] = f
           /\ Append(s, f) # <<>>
OBVIOUS

\* Two pushes at once.
LEMMA PushedTwice ==
    ASSUME NEW S, NEW s \in Seq(S), NEW f \in S, NEW g \in S
    PROVE  s \o <<f, g>> = Append(Append(s, f), g)
<1>1. <<f, g>> \in Seq(S) /\ Append(s, f) \in Seq(S)
  OBVIOUS
<1>2. /\ s \o <<f, g>> \in Seq(S) /\ Append(Append(s, f), g) \in Seq(S)
      /\ Len(s \o <<f, g>>) = Len(Append(Append(s, f), g))
  BY <1>1
<1>3. \A i \in 1 .. Len(s \o <<f, g>>) : (s \o <<f, g>>)[i] = Append(Append(s, f), g)[i]
  BY <1>1
<1>4. QED
  BY <1>2, <1>3, SeqEqual

\* What a pop does to a stack.
LEMMA Popped ==
    ASSUME NEW S, NEW s \in Seq(S), s # <<>>
    PROVE  /\ Front(s) \in Seq(S)
           /\ Len(s) \in Nat \ {0} /\ Len(Front(s)) = Len(s) - 1
           /\ DOMAIN Front(s) = 1 .. Len(s) - 1 /\ DOMAIN s = 1 .. Len(s)
           /\ \A i \in 1 .. Len(s) - 1 : Front(s)[i] = s[i]
           /\ Last(s) = s[Len(s)] /\ Last(s) \in S
<1>1. Len(s) \in Nat \ {0}
  OBVIOUS
<1>. DEFINE n == Len(s) - 1
<1>2. 1 \in Int /\ n \in Int /\ \A i \in 1 .. n : s[i] \in S
  BY <1>1
<1>. HIDE DEF n
<1>3. /\ SubSeq(s, 1, n) \in Seq(S)
      /\ Len(SubSeq(s, 1, n)) = IF 1 <= n THEN n - 1 + 1 ELSE 0
      /\ \A i \in 1 .. n - 1 + 1 : SubSeq(s, 1, n)[i] = s[1 + i - 1]
  BY ONLY <1>2, SubSeqProperties
<1>4. Front(s) = SubSeq(s, 1, n) /\ n = Len(s) - 1
  BY DEF Front, n
<1>5. /\ Front(s) = SubSeq(s, 1, n) /\ n = Len(s) - 1 /\ n - 1 + 1 = n
      /\ (IF 1 <= n THEN n - 1 + 1 ELSE 0) = n
      /\ \A i \in 1 .. n : 1 + i - 1 = i
  BY ONLY <1>1, <1>4
<1>6. /\ Front(s) \in Seq(S) /\ Len(Front(s)) = Len(s) - 1
      /\ \A i \in 1 .. Len(s) - 1 : Front(s)[i] = s[i]
  BY <1>3, <1>5
<1>7. QED
  BY <1>1, <1>6 DEF Last

LEMMA Concatenated ==
    ASSUME NEW S, NEW s \in Seq(S), NEW t \in Seq(S)
    PROVE  /\ s \o t \in Seq(S) /\ Len(s) \in Nat /\ Len(t) \in Nat
           /\ Len(s \o t) = Len(s) + Len(t)
           /\ \A i \in 1 .. Len(s) : (s \o t)[i] = s[i]
           /\ \A i \in 1 .. Len(t) : (s \o t)[Len(s) + i] = t[i]
           /\ \A i \in 1 .. Len(s) + Len(t) : i \in 1 .. Len(s) \/ i - Len(s) \in 1 .. Len(t)
OBVIOUS

LEMMA Inserted ==
    ASSUME NEW S, NEW s \in Seq(S), NEW i \in 1 .. Len(s) + 1, NEW x \in S
    PROVE  /\ InsertAt(s, i, x) \in Seq(S) /\ Len(InsertAt(s, i, x)) = Len(s) + 1
           /\ \A k \in 1 .. i - 1 : InsertAt(s, i, x)[k] = s[k]
           /\ InsertAt(s, i, x)[i] = x
           /\ \A k \in i .. Len(s) : InsertAt(s, i, x)[k + 1] = s[k]
<1>1. PICK a : a = SubSeq(s, 1, i - 1)
  OBVIOUS
<1>2. PICK b : b = SubSeq(s, i, Len(s))
  OBVIOUS
<1>3. PICK y : y = <<x>>
  OBVIOUS
<1>4. /\ a \in Seq(S) /\ Len(a) = i - 1 /\ Len(s) \in Nat
      /\ \A k \in 1 .. i - 1 : a[k] = s[k]
  BY <1>1
<1>5. /\ b \in Seq(S) /\ Len(b) = Len(s) - i + 1
      /\ \A k \in 1 .. Len(s) - i + 1 : b[k] = s[i + k - 1]
  BY <1>2
<1>6. y \in Seq(S) /\ Len(y) = 1 /\ y[1] = x
  BY <1>3
<1>7. PICK c : c = a \o y
  OBVIOUS
<1>8. /\ c \in Seq(S) /\ Len(c) = i /\ c[i] = x
      /\ \A k \in 1 .. i - 1 : c[k] = s[k]
  <2>1. /\ c \in Seq(S) /\ Len(c) = Len(a) + Len(y)
        /\ \A k \in 1 .. Len(a) : c[k] = a[k]
        /\ \A k \in 1 .. Len(y) : c[Len(a) + k] = y[k]
    <3>1. a \in Seq(S) /\ y \in Seq(S)
      BY <1>4, <1>6
    <3>. QED
      BY ONLY <1>7, <3>1, Concatenated
  <2>2. Len(a) + 1 = i /\ 1 \in 1 .. Len(y)
    BY <1>4, <1>6
  <2>. QED
    BY <1>4, <1>6, <2>1, <2>2
<1>9. PICK d : d = c \o b
  OBVIOUS
<1>10. /\ d \in Seq(S) /\ Len(d) = Len(s) + 1
       /\ \A k \in 1 .. i : d[k] = c[k]
       /\ \A k \in 1 .. Len(s) - i + 1 : d[i + k] = b[k]
  <2>1. /\ d \in Seq(S) /\ Len(d) = Len(c) + Len(b)
        /\ \A k \in 1 .. Len(c) : d[k] = c[k]
        /\ \A k \in 1 .. Len(b) : d[Len(c) + k] = b[k]
    <3>1. c \in Seq(S) /\ b \in Seq(S)
      BY <1>5, <1>8
    <3>. QED
      BY ONLY <1>9, <3>1, Concatenated
  <2>2. i + (Len(s) - i + 1) = Len(s) + 1
    BY <1>4
  <2>. QED
    BY <1>5, <1>8, <2>1, <2>2
<1>11. InsertAt(s, i, x) = d
  BY <1>1, <1>2, <1>3, <1>7, <1>9 DEF InsertAt
<1>12. ASSUME NEW k \in i .. Len(s) PROVE d[k + 1] = s[k]
  <2>1. PICK j : j = k - i + 1
    OBVIOUS
  <2>2. j \in 1 .. Len(s) - i + 1 /\ i + j = k + 1 /\ i + j - 1 = k
    BY <1>4, <2>1
  <2>3. d[i + j] = b[j] /\ b[j] = s[i + j - 1]
    BY <1>5, <1>10, <2>2
  <2>. QED
    BY <2>2, <2>3
<1>. QED
  BY <1>4, <1>8, <1>10, <1>11, <1>12

LEMMA TakenOut ==
    ASSUME NEW S, NEW s \in Seq(S), NEW i \in 1 .. Len(s)
    PROVE  /\ RemoveAt(s, i) \in Seq(S) /\ Len(RemoveAt(s, i)) = Len(s) - 1
           /\ \A k \in 1 .. i - 1 : RemoveAt(s, i)[k] = s[k]
           /\ \A k \in i .. Len(s) - 1 : RemoveAt(s, i)[k] = s[k + 1]
<1>1. PICK a : a = SubSeq(s, 1, i - 1)
  OBVIOUS
<1>2. PICK b : b = SubSeq(s, i + 1, Len(s))
  OBVIOUS
<1>3. /\ a \in Seq(S) /\ Len(a) = i - 1 /\ Len(s) \in Nat
      /\ \A k \in 1 .. i - 1 : a[k] = s[k]
  BY <1>1
<1>4. /\ b \in Seq(S) /\ Len(b) = Len(s) - i
      /\ \A k \in 1 .. Len(s) - i : b[k] = s[i + k]
  BY <1>2
<1>5. PICK d : d = a \o b
  OBVIOUS
<1>6. /\ d \in Seq(S) /\ Len(d) = Len(s) - 1
      /\ \A k \in 1 .. i - 1 : d[k] = a[k]
      /\ \A k \in 1 .. Len(s) - i : d[i - 1 + k] = b[k]
  BY <1>3, <1>4, <1>5
<1>7. RemoveAt(s, i) = d
  BY <1>1, <1>2, <1>5 DEF RemoveAt
<1>8. ASSUME NEW k \in i .. Len(s) - 1 PROVE d[k] = s[k + 1]
  <2>1. PICK j : j = k - i + 1
    OBVIOUS
  <2>2. j \in 1 .. Len(s) - i /\ i - 1 + j = k /\ i + j = k + 1
    BY <1>3, <2>1
  <2>3. d[i - 1 + j] = b[j] /\ b[j] = s[i + j]
    BY <1>4, <1>6, <2>2
  <2>. QED
    BY <2>2, <2>3
<1>. QED
  BY <1>3, <1>6, <1>7, <1>8

LEMMA Same ==
    ASSUME NEW S, NEW s \in Seq(S), NEW t \in Seq(S), Len(s) = Len(t),
           \A k \in 1 .. Len(s) : s[k] = t[k]
    PROVE  s = t
OBVIOUS

\* Entries of which each key has one at most.
LEMMA KeyTaken ==
    ASSUME NEW s \in Seq(Items), KeyedOnce(s), NEW k, HasKey(s, k)
    PROVE  LET p == Position(s, k)
               t == RemoveAt(s, p) IN
           /\ p \in DOMAIN s /\ s[p].key = k
           /\ t \in Seq(Items) /\ KeyedOnce(t) /\ ~HasKey(t, k)
           /\ \A i \in DOMAIN t : \E j \in DOMAIN s : t[i] = s[j] /\ s[j].key # k
           /\ \A j \in DOMAIN s : s[j].key # k => \E i \in DOMAIN t : t[i] = s[j]
<1>1. PICK p, t : p = Position(s, k) /\ t = RemoveAt(s, p)
  OBVIOUS
<1>2. p \in DOMAIN s /\ s[p].key = k
  BY <1>1 DEF HasKey, Position
<1>3. Len(s) \in Nat /\ DOMAIN s = 1 .. Len(s)
  OBVIOUS
<1>. p \in 1 .. Len(s)
  BY <1>2, <1>3
<1>4. /\ RemoveAt(s, p) \in Seq(Items) /\ Len(RemoveAt(s, p)) = Len(s) - 1
      /\ \A i \in 1 .. p - 1 : RemoveAt(s, p)[i] = s[i]
      /\ \A i \in p .. Len(s) - 1 : RemoveAt(s, p)[i] = s[i + 1]
  BY ONLY s \in Seq(Items), p \in 1 .. Len(s), TakenOut
<1>5. /\ t \in Seq(Items) /\ DOMAIN t = 1 .. Len(s) - 1
      /\ \A i \in DOMAIN t : t[i] = s[IF i < p THEN i ELSE i + 1]
  <2>1. t \in Seq(Items) /\ DOMAIN t = 1 .. Len(s) - 1
    BY <1>1, <1>3, <1>4
  <2>. QED
    BY <1>1, <1>3, <1>4, <2>1
<1>6. ASSUME NEW i \in DOMAIN t
      PROVE  \E j \in DOMAIN s : j # p /\ t[i] = s[j] /\ j = IF i < p THEN i ELSE i + 1
  BY <1>3, <1>5, p \in 1 .. Len(s)
<1>7. \A j \in DOMAIN s : j # p => s[j].key # k
  BY <1>2 DEF KeyedOnce
<1>8. KeyedOnce(t)
  <2>1. SUFFICES ASSUME NEW i \in DOMAIN t, NEW j \in DOMAIN t, t[i].key = t[j].key PROVE i = j
    BY DEF KeyedOnce
  <2>2. PICK a \in DOMAIN s : t[i] = s[a] /\ a = IF i < p THEN i ELSE i + 1
    BY <1>6
  <2>3. PICK b \in DOMAIN s : t[j] = s[b] /\ b = IF j < p THEN j ELSE j + 1
    BY <1>6
  <2>4. a = b
    BY <2>1, <2>2, <2>3 DEF KeyedOnce
  <2>. QED
    BY <1>3, <1>5, <2>2, <2>3, <2>4, p \in 1 .. Len(s)
<1>9. ASSUME NEW j \in DOMAIN s, s[j].key # k PROVE \E i \in DOMAIN t : t[i] = s[j]
  <2>1. j # p
    BY <1>2, <1>9
  <2>2. CASE j < p
    BY <1>3, <1>5, <2>2, p \in 1 .. Len(s)
  <2>3. CASE j > p
    <3>1. PICK i : i = j - 1
      OBVIOUS
    <3>2. i \in DOMAIN t /\ ~(i < p) /\ i + 1 = j
      BY <1>3, <1>5, <2>3, <3>1, p \in 1 .. Len(s)
    <3>. QED
      BY <1>5, <3>2
  <2>. QED
    BY <1>3, <2>1, <2>2, <2>3
<1>10. ~HasKey(t, k)
  BY <1>6, <1>7 DEF HasKey
<1>. QED
  BY <1>1, <1>2, <1>5, <1>6, <1>7, <1>8, <1>9, <1>10

LEMMA KeyAppended ==
    ASSUME NEW s \in Seq(Items), KeyedOnce(s), NEW v \in Items, ~HasKey(s, v.key)
    PROVE  LET t == Append(s, v) IN
           /\ t \in Seq(Items) /\ KeyedOnce(t) /\ HasKey(t, v.key)
           /\ Len(s) \in Nat /\ DOMAIN s = 1 .. Len(s) /\ DOMAIN t = 1 .. Len(s) + 1
           /\ \A i \in DOMAIN s : t[i] = s[i]
           /\ t[Len(s) + 1] = v
           /\ \A k : HasKey(s, k) => HasKey(t, k)
<1>1. PICK t : t = Append(s, v)
  OBVIOUS
<1>2. /\ t \in Seq(Items) /\ Len(s) \in Nat /\ DOMAIN s = 1 .. Len(s)
      /\ DOMAIN t = 1 .. Len(s) + 1
      /\ \A i \in DOMAIN s : t[i] = s[i]
      /\ t[Len(s) + 1] = v
  BY <1>1
<1>3. KeyedOnce(t) /\ HasKey(t, v.key)
  BY <1>2 DEF KeyedOnce, HasKey
<1>4. \A k : HasKey(s, k) => HasKey(t, k)
  BY <1>2 DEF HasKey
<1>. QED
  BY <1>1, <1>2, <1>3, <1>4

LEMMA KeyReplaced ==
    ASSUME NEW s \in Seq(Items), KeyedOnce(s), NEW k, HasKey(s, k), NEW v \in Items, v.key = k
    PROVE  LET p == Position(s, k)
               t == ReplaceAt(s, p, v) IN
           /\ p \in DOMAIN s /\ s[p].key = k
           /\ t \in Seq(Items) /\ KeyedOnce(t) /\ DOMAIN t = DOMAIN s /\ t[p] = v
           /\ \A i \in DOMAIN s : t[i].key = s[i].key /\ (s[i].key # k => t[i] = s[i])
           /\ \A j : HasKey(s, j) <=> HasKey(t, j)
<1>1. PICK p, t : p = Position(s, k) /\ t = ReplaceAt(s, p, v)
  OBVIOUS
<1>2. p \in DOMAIN s /\ s[p].key = k
  BY <1>1 DEF HasKey, Position
<1>3. /\ t \in Seq(Items) /\ DOMAIN t = DOMAIN s /\ t[p] = v
      /\ \A i \in DOMAIN s : i # p => t[i] = s[i]
  BY <1>1, <1>2 DEF ReplaceAt
<1>4. \A i \in DOMAIN s : t[i].key = s[i].key /\ (s[i].key # k => t[i] = s[i])
  BY <1>2, <1>3 DEF KeyedOnce
<1>5. KeyedOnce(t)
  BY <1>3, <1>4 DEF KeyedOnce
<1>6. \A j : HasKey(s, j) <=> HasKey(t, j)
  BY <1>3, <1>4 DEF HasKey
<1>. QED
  BY <1>1, <1>2, <1>3, <1>4, <1>5, <1>6

\* The list.  What undoes a change of a sequence.
LEMMA Replaced ==
    ASSUME NEW S, NEW s \in Seq(S), NEW i \in 1 .. Len(s), NEW x \in S
    PROVE  /\ ReplaceAt(s, i, x) \in Seq(S) /\ Len(ReplaceAt(s, i, x)) = Len(s)
           /\ ReplaceAt(s, i, x)[i] = x
           /\ \A k \in 1 .. Len(s) : k # i => ReplaceAt(s, i, x)[k] = s[k]
BY DEF ReplaceAt

LEMMA RemoveUndoesInsert ==
    ASSUME NEW S, NEW s \in Seq(S), NEW i \in 1 .. Len(s) + 1, NEW x \in S
    PROVE  RemoveAt(InsertAt(s, i, x), i) = s
<1>1. PICK t : t = InsertAt(s, i, x)
  OBVIOUS
<1>2. /\ t \in Seq(S) /\ Len(t) = Len(s) + 1 /\ Len(s) \in Nat /\ i \in 1 .. Len(t)
      /\ \A k \in 1 .. i - 1 : t[k] = s[k]
      /\ \A k \in i .. Len(s) : t[k + 1] = s[k]
  <2>1. /\ t \in Seq(S) /\ Len(t) = Len(s) + 1
        /\ \A k \in 1 .. i - 1 : t[k] = s[k]
        /\ \A k \in i .. Len(s) : t[k + 1] = s[k]
    BY <1>1, Inserted
  <2>. QED
    BY <2>1
<1>3. PICK u : u = RemoveAt(t, i)
  OBVIOUS
<1>4. /\ u \in Seq(S) /\ Len(u) = Len(t) - 1
      /\ \A k \in 1 .. i - 1 : u[k] = t[k]
      /\ \A k \in i .. Len(t) - 1 : u[k] = t[k + 1]
  BY <1>2, <1>3, TakenOut
<1>5. Len(u) = Len(s) /\ \A k \in 1 .. Len(u) : u[k] = s[k]
  <2>1. Len(u) = Len(s) /\ \A k \in 1 .. Len(u) : k \in 1 .. i - 1 \/ k \in i .. Len(s)
    BY <1>2, <1>4
  <2>2. \A k \in i .. Len(s) : u[k] = s[k]
    BY <1>2, <1>4
  <2>3. \A k \in 1 .. i - 1 : u[k] = s[k]
    BY <1>2, <1>4
  <2>. QED
    BY ONLY <2>1, <2>2, <2>3
<1>6. u = s
  BY <1>4, <1>5, Same
<1>. QED
  BY <1>1, <1>3, <1>6

LEMMA InsertUndoesRemove ==
    ASSUME NEW S, NEW s \in Seq(S), NEW i \in 1 .. Len(s)
    PROVE  InsertAt(RemoveAt(s, i), i, s[i]) = s
<1>1. PICK t : t = RemoveAt(s, i)
  OBVIOUS
<1>2. /\ t \in Seq(S) /\ Len(t) = Len(s) - 1 /\ Len(s) \in Nat /\ i \in 1 .. Len(t) + 1 /\ s[i] \in S
      /\ \A k \in 1 .. i - 1 : t[k] = s[k]
      /\ \A k \in i .. Len(s) - 1 : t[k] = s[k + 1]
  <2>1. /\ t \in Seq(S) /\ Len(t) = Len(s) - 1
        /\ \A k \in 1 .. i - 1 : t[k] = s[k]
        /\ \A k \in i .. Len(s) - 1 : t[k] = s[k + 1]
    BY <1>1, TakenOut
  <2>. QED
    BY <2>1
<1>3. PICK u, z : z = s[i] /\ u = InsertAt(t, i, z)
  OBVIOUS
<1>4. /\ u \in Seq(S) /\ Len(u) = Len(t) + 1
      /\ \A k \in 1 .. i - 1 : u[k] = t[k]
      /\ u[i] = s[i]
      /\ \A k \in i .. Len(t) : u[k + 1] = t[k]
  <2>1. z \in S /\ u = InsertAt(t, i, z) /\ t \in Seq(S) /\ i \in 1 .. Len(t) + 1
    BY <1>2, <1>3
  <2>2. /\ u \in Seq(S) /\ Len(u) = Len(t) + 1
        /\ \A k \in 1 .. i - 1 : u[k] = t[k]
        /\ u[i] = z
        /\ \A k \in i .. Len(t) : u[k + 1] = t[k]
    BY ONLY <2>1, Inserted
  <2>. QED
    BY <1>3, <2>2
<1>5. Len(u) = Len(s) /\ \A k \in 1 .. Len(u) : u[k] = s[k]
  <2>1. Len(u) = Len(s)
        /\ \A k \in 1 .. Len(u) : k \in 1 .. i - 1 \/ k = i \/ (k - 1 \in i .. Len(t) /\ (k - 1) + 1 = k)
    BY <1>2, <1>4
  <2>2. \A k \in i .. Len(t) : u[k + 1] = s[k + 1]
    BY <1>2, <1>4
  <2>3. \A k \in 1 .. i - 1 : u[k] = s[k]
    BY <1>2, <1>4
  <2>. QED
    BY ONLY <1>4, <2>1, <2>2, <2>3
<1>6. u = s
  BY <1>4, <1>5, Same
<1>. QED
  BY <1>1, <1>3, <1>6

LEMMA ReplaceUndoesReplace ==
    ASSUME NEW S, NEW s \in Seq(S), NEW i \in 1 .. Len(s), NEW x \in S
    PROVE  ReplaceAt(ReplaceAt(s, i, x), i, s[i]) = s
<1>1. PICK t, z : t = ReplaceAt(s, i, x) /\ z = s[i]
  OBVIOUS
<1>2. /\ t \in Seq(S) /\ Len(t) = Len(s) /\ i \in 1 .. Len(t) /\ z \in S
      /\ \A k \in 1 .. Len(s) : k # i => t[k] = s[k]
  <2>1. t = ReplaceAt(s, i, x) /\ z \in S
    BY <1>1
  <2>2. t \in Seq(S) /\ Len(t) = Len(s) /\ \A k \in 1 .. Len(s) : k # i => t[k] = s[k]
    <3>1. t = [s EXCEPT ![i] = x]
      BY <2>1 DEF ReplaceAt
    <3>. QED
      BY ONLY <3>1, s \in Seq(S), i \in 1 .. Len(s), x \in S
  <2>. QED
    BY <2>1, <2>2
<1>3. PICK u : u = ReplaceAt(t, i, z)
  OBVIOUS
<1>4. /\ u \in Seq(S) /\ Len(u) = Len(t) /\ u[i] = z
      /\ \A k \in 1 .. Len(t) : k # i => u[k] = t[k]
  <2>1. u = [t EXCEPT ![i] = z]
    BY <1>3 DEF ReplaceAt
  <2>. QED
    BY ONLY <1>2, <2>1
<1>5. Len(u) = Len(s) /\ \A k \in 1 .. Len(u) : u[k] = s[k]
  BY <1>1, <1>2, <1>4
<1>6. u = s
  BY <1>4, <1>5, Same
<1>. QED
  BY <1>1, <1>3, <1>6

LEMMA RemoveOfReplaced ==
    ASSUME NEW S, NEW s \in Seq(S), NEW i \in 1 .. Len(s), NEW x \in S
    PROVE  RemoveAt(ReplaceAt(s, i, x), i) = RemoveAt(s, i)
<1>1. PICK t : t = ReplaceAt(s, i, x)
  OBVIOUS
<1>2. /\ t \in Seq(S) /\ Len(t) = Len(s) /\ Len(s) \in Nat /\ i \in 1 .. Len(t)
      /\ \A k \in 1 .. Len(s) : k # i => t[k] = s[k]
  <2>1. t \in Seq(S) /\ Len(t) = Len(s) /\ \A k \in 1 .. Len(s) : k # i => t[k] = s[k]
    <3>1. t = [s EXCEPT ![i] = x]
      BY <1>1 DEF ReplaceAt
    <3>. QED
      BY ONLY <3>1, s \in Seq(S), i \in 1 .. Len(s), x \in S
  <2>. QED
    BY <2>1
<1>3. PICK u, v : u = RemoveAt(t, i) /\ v = RemoveAt(s, i)
  OBVIOUS
<1>4. /\ u \in Seq(S) /\ Len(u) = Len(t) - 1
      /\ \A k \in 1 .. i - 1 : u[k] = t[k]
      /\ \A k \in i .. Len(t) - 1 : u[k] = t[k + 1]
  BY <1>2, <1>3, TakenOut
<1>5. /\ v \in Seq(S) /\ Len(v) = Len(s) - 1
      /\ \A k \in 1 .. i - 1 : v[k] = s[k]
      /\ \A k \in i .. Len(s) - 1 : v[k] = s[k + 1]
  BY <1>3, TakenOut
<1>6. Len(u) = Len(v) /\ \A k \in 1 .. Len(u) : u[k] = v[k]
  <2>1. Len(u) = Len(v) /\ \A k \in 1 .. Len(u) : k \in 1 .. i - 1 \/ k \in i .. Len(s) - 1
    BY <1>2, <1>4, <1>5
  <2>2. \A k \in 1 .. i - 1 : u[k] = v[k]
    <3>1. \A k \in 1 .. i - 1 : k \in 1 .. Len(s) /\ k # i
      BY <1>2
    <3>. QED
      BY <1>2, <1>4, <1>5, <3>1
  <2>3. \A k \in i .. Len(s) - 1 : u[k] = v[k]
    <3>1. \A k \in i .. Len(s) - 1 : k + 1 \in 1 .. Len(s) /\ k + 1 # i
      BY <1>2
    <3>. QED
      BY <1>2, <1>4, <1>5, <3>1
  <2>. QED
    BY ONLY <2>1, <2>2, <2>3
<1>7. u = v
  BY <1>4, <1>5, <1>6, Same
<1>. QED
  BY <1>1, <1>3, <1>7

\* The beginnings of a sequence.
LEMMA Beginning ==
    ASSUME NEW S, NEW s \in Seq(S), NEW n \in 0 .. Len(s)
    PROVE  /\ SubSeq(s, 1, n) \in Seq(S) /\ Len(SubSeq(s, 1, n)) = n
           /\ \A k \in 1 .. n : SubSeq(s, 1, n)[k] = s[k]
OBVIOUS

LEMMA BeginningOfAll ==
    ASSUME NEW S, NEW s \in Seq(S)
    PROVE  SubSeq(s, 1, Len(s)) = s /\ SubSeq(s, 1, 0) = <<>>
<1>1. PICK t : t = SubSeq(s, 1, Len(s))
  OBVIOUS
<1>2. t \in Seq(S) /\ Len(t) = Len(s) /\ \A k \in 1 .. Len(s) : t[k] = s[k]
  BY <1>1, Beginning
<1>3. t = s
  BY <1>2, Same
<1>. QED
  BY <1>1, <1>3

LEMMA BeginningGrows ==
    ASSUME NEW S, NEW s \in Seq(S), NEW i \in 1 .. Len(s)
    PROVE  InsertAt(SubSeq(s, 1, i - 1), i, s[i]) = SubSeq(s, 1, i)
<1>1. PICK t : t = SubSeq(s, 1, i - 1)
  OBVIOUS
<1>2. /\ t \in Seq(S) /\ Len(t) = i - 1 /\ i \in Nat /\ i \in 1 .. Len(t) + 1 /\ s[i] \in S
      /\ \A k \in 1 .. i - 1 : t[k] = s[k]
  <2>1. i - 1 \in 0 .. Len(s)
    OBVIOUS
  <2>2. t \in Seq(S) /\ Len(t) = i - 1 /\ \A k \in 1 .. i - 1 : t[k] = s[k]
    BY <1>1, <2>1, Beginning
  <2>. QED
    BY <2>2
<1>3. PICK u, v : u = InsertAt(t, i, s[i]) /\ v = SubSeq(s, 1, i)
  OBVIOUS
<1>4. /\ u \in Seq(S) /\ Len(u) = Len(t) + 1
      /\ \A k \in 1 .. i - 1 : u[k] = t[k]
      /\ u[i] = s[i]
  BY <1>2, <1>3, Inserted
<1>5. v \in Seq(S) /\ Len(v) = i /\ \A k \in 1 .. i : v[k] = s[k]
  <2>1. i \in 0 .. Len(s)
    OBVIOUS
  <2>. QED
    BY <1>3, <2>1, Beginning
<1>6. Len(u) = Len(v) /\ \A k \in 1 .. Len(u) : u[k] = v[k]
  <2>1. Len(u) = Len(v) /\ \A k \in 1 .. Len(u) : (k \in 1 .. i - 1 \/ k = i) /\ k \in 1 .. i
    BY <1>2, <1>4, <1>5
  <2>. QED
    BY ONLY <1>2, <1>4, <1>5, <2>1
<1>7. u = v
  BY <1>4, <1>5, <1>6, Same
<1>. QED
  BY <1>1, <1>3, <1>7

LEMMA BeginningShrinks ==
    ASSUME NEW S, NEW s \in Seq(S), NEW i \in 1 .. Len(s)
    PROVE  RemoveAt(SubSeq(s, 1, i), i) = SubSeq(s, 1, i - 1)
<1>1. PICK t : t = SubSeq(s, 1, i)
  OBVIOUS
<1>2. /\ t \in Seq(S) /\ Len(t) = i /\ i \in Nat /\ i \in 1 .. Len(t)
      /\ \A k \in 1 .. i : t[k] = s[k]
  <2>1. i \in 0 .. Len(s)
    OBVIOUS
  <2>2. t \in Seq(S) /\ Len(t) = i /\ \A k \in 1 .. i : t[k] = s[k]
    BY <1>1, <2>1, Beginning
  <2>. QED
    BY <2>2
<1>3. PICK u, v : u = RemoveAt(t, i) /\ v = SubSeq(s, 1, i - 1)
  OBVIOUS
<1>4. u \in Seq(S) /\ Len(u) = Len(t) - 1 /\ \A k \in 1 .. i - 1 : u[k] = t[k]
  BY <1>2, <1>3, TakenOut
<1>5. v \in Seq(S) /\ Len(v) = i - 1 /\ \A k \in 1 .. i - 1 : v[k] = s[k]
  <2>1. i - 1 \in 0 .. Len(s)
    OBVIOUS
  <2>. QED
    BY <1>3, <2>1, Beginning
<1>6. Len(u) = Len(v) /\ \A k \in 1 .. Len(u) : u[k] = v[k]
  BY <1>2, <1>4, <1>5
<1>7. u = v
  BY <1>4, <1>5, <1>6, Same
<1>. QED
  BY <1>1, <1>3, <1>7

-----------------------------------------------------------------------------
(***************************************************************************)
(* The calls                                                                *)
(***************************************************************************)

LEMMA ViewFrameFields ==
    ASSUME NEW f \in ViewFrames
    PROVE  /\ f.do \in {"user", "fire", "erase", "clear", "addTo", "replay", "addAll", "removeAll"}
           /\ f.do = "user" => f = User
           /\ f.do = "fire" => f.event \in ViewEvents /\ f.next \in Nat \ {0}
           /\ f.do = "erase" => f.key \in ItemKeys
           /\ f.do = "clear" => f.events \in Seq(ViewEvents)
           /\ f.do = "addTo" => f.of \in Watchers /\ f.event \in ViewEvents
           /\ f.do = "replay" => f.of \in Watchers /\ f.next \in Nat \ {0}
           /\ f.do = "addAll" => f.at \in Nat /\ f.left \in Nat
           /\ f.do = "removeAll" => f.at \in Nat /\ f.these \in SUBSET Items
BY DEF ViewFrames, User

LEMMA ViewFramesAre ==
    /\ User \in ViewFrames /\ User.do = "user"
    /\ \A ev \in ViewEvents : /\ FireEvent(ev) \in ViewFrames /\ FireEvent(ev).do = "fire"
                              /\ FireEvent(ev).event = ev /\ FireEvent(ev).next = 1
    /\ \A k \in ItemKeys : LET f == [do |-> "erase", key |-> k] IN
          f \in ViewFrames /\ f.do = "erase" /\ f.key = k
    /\ \A s \in Seq(ViewEvents) : LET f == [do |-> "clear", events |-> s] IN
          f \in ViewFrames /\ f.do = "clear" /\ f.events = s
    /\ \A x \in Watchers, ev \in ViewEvents :
          LET f == [do |-> "addTo", of |-> x, event |-> ev] IN
          f \in ViewFrames /\ f.do = "addTo" /\ f.of = x /\ f.event = ev
    /\ \A x \in Watchers : LET f == [do |-> "replay", of |-> x, next |-> 1] IN
          f \in ViewFrames /\ f.do = "replay" /\ f.of = x /\ f.next = 1
BY DEF ViewFrames, User, FireEvent

\* A frame that goes on.
LEMMA GoesOn ==
    ASSUME NEW f \in ViewFrames
    PROVE  /\ f.do = "fire" => LET g == [f EXCEPT !.next = @ + 1] IN
                g \in ViewFrames /\ g.do = "fire" /\ g.event = f.event /\ g.next = f.next + 1
           /\ f.do = "replay" => LET g == [f EXCEPT !.next = f.next + 1] IN
                g \in ViewFrames /\ g.do = "replay" /\ g.of = f.of /\ g.next = f.next + 1
           /\ f.do = "clear" /\ f.events # <<>> => LET g == [f EXCEPT !.events = Tail(@)] IN
                g \in ViewFrames /\ g.do = "clear" /\ g.events = Tail(f.events)
<1>1. CASE f.do = "fire"
  BY <1>1 DEF ViewFrames
<1>2. CASE f.do = "replay"
  BY <1>2 DEF ViewFrames
<1>3. CASE f.do = "clear"
  BY <1>3 DEF ViewFrames
<1>. QED
  BY <1>1, <1>2, <1>3

LEMMA InnerIs ==
    ASSUME ViewTypes, Inner.do # "none"
    PROVE  /\ frames # <<>> /\ Inner = frames[Len(frames)] /\ Inner \in ViewFrames
           /\ Len(frames) \in Nat \ {0} /\ DOMAIN frames = 1 .. Len(frames)
           /\ Outer \in Seq(ViewFrames) /\ Len(Outer) = Len(frames) - 1
           /\ DOMAIN Outer = 1 .. Len(frames) - 1
           /\ \A i \in 1 .. Len(frames) - 1 : Outer[i] = frames[i]
<1>1. frames # <<>> /\ frames \in Seq(ViewFrames)
  BY DEF Inner, ViewTypes
<1>2. Inner = Last(frames)
  BY <1>1 DEF Inner
<1>. QED
  BY <1>1, <1>2, Popped DEF Outer

\* What two more calls on a stack are.
LEMMA TwoMore ==
    ASSUME NEW s \in Seq(ViewFrames), NEW f \in ViewFrames, NEW g \in ViewFrames
    PROVE  /\ s \o <<f>> = Append(s, f) /\ s \o <<f, g>> = Append(Append(s, f), g)
           /\ Append(Append(s, f), g) \in Seq(ViewFrames)
           /\ Len(Append(Append(s, f), g)) = Len(s) + 2 /\ Len(s) \in Nat
           /\ \A i \in 1 .. Len(s) : Append(Append(s, f), g)[i] = s[i]
           /\ Append(Append(s, f), g)[Len(s) + 1] = f
           /\ Append(Append(s, f), g)[Len(s) + 2] = g
<1>1. s \o <<f, g>> = Append(Append(s, f), g)
  BY PushedTwice
<1>2. s \o <<f>> = Append(s, f)
  OBVIOUS
<1>. QED
  BY <1>1, <1>2

-----------------------------------------------------------------------------
(***************************************************************************)
(* Maps and sets: what a step leaves as it is                               *)
(***************************************************************************)

\* What calls that stay on the stack mean.
LEMMA MeaningStays ==
    ASSUME ViewTypes, NEW b \in 0 .. Len(frames),
           watchers' = watchers \/ \E y \in Watchers : watchers' = Append(watchers, y),
           \A i \in 1 .. b : frames'[i] = frames[i]
    PROVE  \A i \in 1 .. b : \A x :
             /\ Untold(frames'[i], x, watchers') <=> Untold(frames[i], x, watchers)
             /\ Brings(frames'[i], x, watchers') <=> Brings(frames[i], x, watchers)
             /\ Renews(frames'[i], x, watchers') <=> Renews(frames[i], x, watchers)
<1>1. SUFFICES ASSUME NEW i \in 1 .. b, NEW x
               PROVE  /\ Untold(frames'[i], x, watchers') <=> Untold(frames[i], x, watchers)
                      /\ Brings(frames'[i], x, watchers') <=> Brings(frames[i], x, watchers)
                      /\ Renews(frames'[i], x, watchers') <=> Renews(frames[i], x, watchers)
  OBVIOUS
<1>2. PICK f : f = frames[i]
  OBVIOUS
<1>3. frames'[i] = f /\ f \in ViewFrames /\ (f.do = "fire" => f.next <= Len(watchers) + 1)
  <2>1. frames \in Seq(ViewFrames) /\ i \in DOMAIN frames
    BY DEF ViewTypes
  <2>2. f \in ViewFrames /\ IsKnown(f)
    BY <1>2, <2>1 DEF ViewTypes
  <2>. QED
    BY <1>2, <2>2 DEF IsKnown
<1>4. f.do = "fire" => (Told(f, x, watchers') <=> Told(f, x, watchers))
  <2>1. SUFFICES ASSUME f.do = "fire" PROVE Told(f, x, watchers') <=> Told(f, x, watchers)
    OBVIOUS
  <2>2. f.next \in Nat \ {0} /\ f.next <= Len(watchers) + 1 /\ Len(watchers) \in Nat
    BY <1>3, <2>1, ViewFrameFields DEF ViewTypes
  <2>3. \A j \in 1 .. f.next - 1 : watchers'[j] = watchers[j]
    <3>1. \A j \in 1 .. Len(watchers) : watchers'[j] = watchers[j]
      <4>1. watchers \in Seq(Watchers)
        BY DEF ViewTypes
      <4>2. CASE watchers' = watchers
        BY <4>2
      <4>3. CASE \E y \in Watchers : watchers' = Append(watchers, y)
        <5>1. PICK y \in Watchers : watchers' = Append(watchers, y)
          BY <4>3
        <5>2. \A j \in 1 .. Len(watchers) : Append(watchers, y)[j] = watchers[j]
          BY ONLY <4>1, y \in Watchers, Pushed
        <5>. QED
          BY <5>1, <5>2
      <4>. QED
        BY <4>2, <4>3
    <3>. QED
      BY <2>2, <3>1
  <2>. QED
    BY <2>3 DEF Told
<1>5. Untold(frames'[i], x, watchers') <=> Untold(frames[i], x, watchers)
  BY <1>2, <1>3, <1>4 DEF Untold
<1>. QED
  BY <1>2, <1>3, <1>5 DEF Brings, Renews

LEMMA FatalStays ==
    ASSUME ViewTypes, NEW b \in 0 .. Len(frames), kind' = kind,
           \A i \in 1 .. b : frames'[i] = frames[i],
           frames' \in Seq(ViewFrames), b <= Len(frames'),
           \/ b = Len(frames)
           \/ /\ b = Len(frames) - 1
              /\ \/ ~WillDrop(frames[Len(frames)])
                 \/ Len(frames') > b /\ WillDrop(frames'[b + 1]),
           Fatal
    PROVE  Fatal'
<1>1. PICK n, m : n = Len(frames) /\ m = Len(frames')
  OBVIOUS
<1>2. /\ n \in Nat /\ DOMAIN frames = 1 .. n /\ b \in 0 .. n /\ (b = n \/ b = n - 1)
      /\ m \in Nat /\ DOMAIN frames' = 1 .. m /\ b <= m
  BY <1>1 DEF ViewTypes
<1>3. PICK j \in DOMAIN frames :
         WillDrop(frames[j]) /\ \E i \in 1 .. j - 1 : Holds(frames[i])
  BY DEF Fatal
<1>4. PICK i \in 1 .. j - 1 : Holds(frames[i])
  BY <1>3
<1>5. i \in 1 .. b /\ j \in 1 .. n /\ i \in 1 .. j - 1
  BY ONLY <1>2, j \in DOMAIN frames, i \in 1 .. j - 1
<1>6. (Holds(frames[i]))'
  BY <1>4, <1>5 DEF Holds
<1>7. j \in DOMAIN frames' /\ WillDrop(frames'[j])
  <2>1. CASE j \in 1 .. b
    <3>1. j \in 1 .. m
      BY ONLY <1>2, <2>1
    <3>. QED
      BY <1>2, <1>3, <2>1, <3>1
  <2>2. CASE j \notin 1 .. b
    <3>1. j = n /\ b = n - 1
      BY ONLY <1>2, <1>5, <2>2
    <3>2. m > b /\ WillDrop(frames'[b + 1])
      BY <1>1, <1>3, <3>1, <1>2
    <3>3. j = b + 1 /\ j \in 1 .. m
      BY ONLY <1>2, <1>5, <3>1, <3>2
    <3>. QED
      BY <1>2, <3>2, <3>3
  <2>. QED
    BY <2>1, <2>2
<1>. QED
  BY <1>5, <1>6, <1>7 DEF Fatal, WillDrop

LEMMA LateStays ==
    ASSUME ViewTypes, KeyTypes, NEW b \in 0 .. Len(frames), NEW x,
           watchers' = watchers \/ \E y \in Watchers : watchers' = Append(watchers, y),
           \A i \in 1 .. b : frames'[i] = frames[i],
           frames' \in Seq(ViewFrames), b <= Len(frames'),
           \A v : v.stamp <= made /\ v \notin ToSet(elements) => v \notin ToSet(elements'),
           \/ b = Len(frames)
           \/ /\ b = Len(frames) - 1
              /\ Brings(frames[Len(frames)], x, watchers) =>
                   \/ frames[Len(frames)].event.new \in ToSet(elements)
                   \/ \E i \in DOMAIN frames' :
                        /\ Brings(frames'[i], x, watchers')
                        /\ frames'[i].event = frames[Len(frames)].event,
           Late(x)
    PROVE  Late(x)'
<1>1. PICK n, m : n = Len(frames) /\ m = Len(frames')
  OBVIOUS
<1>2. /\ n \in Nat /\ DOMAIN frames = 1 .. n /\ b \in 0 .. n /\ (b = n \/ b = n - 1)
      /\ m \in Nat /\ DOMAIN frames' = 1 .. m /\ b <= m
  BY <1>1 DEF ViewTypes
<1>3. PICK i \in DOMAIN frames :
         Brings(frames[i], x, watchers) /\ frames[i].event.new \notin ToSet(elements)
  BY DEF Late
<1>4. frames[i].event.new \notin ToSet(elements')
  <2>1. frames[i].event.new.stamp <= made
    BY <1>3 DEF KeyTypes, IsKeyed, Brings, Untold
  <2>. QED
    BY <1>3, <2>1
<1>5. CASE i \in 1 .. b
  <2>1. Brings(frames'[i], x, watchers')
    BY <1>3, <1>5, MeaningStays
  <2>2. frames'[i] = frames[i] /\ i \in DOMAIN frames'
    <3>1. i \in 1 .. m
      BY ONLY <1>2, <1>5
    <3>. QED
      BY <1>2, <1>5, <3>1
  <2>. QED
    BY <1>4, <2>1, <2>2 DEF Late
<1>6. CASE i \notin 1 .. b
  <2>1. i = n /\ b = n - 1
    BY ONLY <1>2, i \in DOMAIN frames, <1>6
  <2>2. \E j \in DOMAIN frames' : Brings(frames'[j], x, watchers') /\ frames'[j].event = frames[i].event
    BY <1>1, <1>2, <1>3, <2>1
  <2>. QED
    BY <1>4, <2>2 DEF Late
<1>. QED
  BY <1>5, <1>6

LEMMA Entries ==
    ASSUME NEW s \in Seq(Items)
    PROVE  /\ Len(s) \in Nat /\ DOMAIN s = 1 .. Len(s)
           /\ \A v : v \in ToSet(s) <=> \E i \in DOMAIN s : s[i] = v
           /\ \A i \in DOMAIN s : s[i] \in Items /\ s[i] \in ToSet(s)
BY DEF ToSet

LEMMA TypesGoOn ==
    ASSUME ViewTypes, UNCHANGED <<kind, watchers, subscribed>>, made' \in Nat,
           elements' \in Seq(Items), kept' \in [Watchers -> Seq(Items)],
           \A x \in Watchers \ subscribed : kept'[x] = <<>>,
           frames' \in Seq(ViewFrames), NEW b \in 0 .. Len(frames),
           \A i \in 1 .. b : frames'[i] = frames[i],
           \A i \in DOMAIN frames' : i \in 1 .. b \/
              /\ IsKnown(frames'[i])
              /\ frames'[i].do = "replay" =>
                   /\ i \in DOMAIN frames /\ frames[i].do = "replay"
                   /\ frames[i].of = frames'[i].of
    PROVE  ViewTypes'
<1>1. DOMAIN frames = 1 .. Len(frames) /\ Len(frames) \in Nat
  BY DEF ViewTypes
<1>2. \A i \in 1 .. b : i \in DOMAIN frames
  BY <1>1
<1>3. \A i \in DOMAIN frames' : IsKnown(frames'[i])
  BY <1>2 DEF ViewTypes
<1>4. \A f : IsKnown(f)' <=> IsKnown(f)
  BY DEF IsKnown, Listed
<1>5. \A i \in DOMAIN frames' : IsKnown(frames[i])'
  BY <1>3, <1>4 DEF IsKnown, Listed
<1>6. \A i \in DOMAIN frames' : frames'[i].do = "replay" =>
         i \in DOMAIN frames /\ frames[i].do = "replay" /\ frames[i].of = frames'[i].of
  BY <1>2
<1>7. \A i, j \in DOMAIN frames' :
         frames'[i].do = "replay" /\ Reports(frames'[j], frames'[i].of) => i = j
  <2>1. SUFFICES ASSUME NEW i \in DOMAIN frames', NEW j \in DOMAIN frames',
                        frames'[i].do = "replay", Reports(frames'[j], frames'[i].of)
                 PROVE  i = j
    OBVIOUS
  <2>2. i \in DOMAIN frames /\ frames[i].do = "replay" /\ frames[i].of = frames'[i].of
    BY <1>6, <2>1
  <2>3. j \in DOMAIN frames /\ Reports(frames[j], frames[i].of)
    BY <1>6, <2>1, <2>2 DEF Reports
  <2>. QED
    BY <2>2, <2>3 DEF ViewTypes
<1>. QED
  BY <1>5, <1>7 DEF ViewTypes, Reports

LEMMA KeyTypesGoOn ==
    ASSUME ViewTypes, KeyTypes, UNCHANGED <<kind, watchers, subscribed>>, ended \subseteq ended',
           made' \in Nat, made <= made', KeyedOnce(elements'),
           \A i \in DOMAIN elements' :
              elements'[i].key \in ItemKeys /\ elements'[i].stamp <= made',
           \A x \in Watchers : KeyedOnce(kept'[x]),
           frames' \in Seq(ViewFrames), NEW b \in 0 .. Len(frames), b <= Len(frames'),
           \A i \in 1 .. b : frames'[i] = frames[i],
           \A i \in DOMAIN frames' : i \in 1 .. b \/ IsKeyed(frames[i])',
           \A i \in DOMAIN frames : i \in 1 .. b \/ frames[i].do # "replay" \/
              (frames[i].of \in ended' \/ (i \in DOMAIN frames' /\ Reports(frames'[i], frames[i].of)))
    PROVE  KeyTypes'
<1>1. PICK n, m : n = Len(frames) /\ m = Len(frames')
  OBVIOUS
<1>2. /\ DOMAIN frames = 1 .. n /\ n \in Nat /\ frames \in Seq(ViewFrames)
      /\ DOMAIN frames' = 1 .. m /\ m \in Nat
      /\ b \in 0 .. n /\ b <= m
  BY <1>1 DEF ViewTypes
<1>3. \A i \in 1 .. b : i \in DOMAIN frames /\ i \in DOMAIN frames'
  BY ONLY <1>2
<1>4. ASSUME NEW i \in 1 .. b PROVE IsKeyed(frames[i])'
  <2>1. PICK f : f = frames[i]
    OBVIOUS
  <2>2. frames'[i] = f /\ IsKeyed(f) /\ f \in ViewFrames
    BY <1>2, <1>3, <2>1 DEF KeyTypes
  <2>3. f.do \in {"fire", "addTo"} => f.event.new.stamp <= made' /\ f.event.old.key = f.event.new.key
    <3>1. f.do \in {"fire", "addTo"} => f.event.new.stamp \in Nat /\ f.event.new.stamp <= made
      BY <2>2, ViewFrameFields DEF IsKeyed, ViewEvents, Items
    <3>. QED
      BY <2>2, <3>1 DEF IsKeyed, ViewTypes
  <2>4. ASSUME f.do = "clear", NEW j \in DOMAIN f.events
        PROVE  /\ f.events[j].old = f.events[j].new /\ f.events[j].new.stamp <= made'
               /\ f.events[j].op = "remove"
    <3>1. f.events \in Seq(ViewEvents)
      BY <2>2, <2>4, ViewFrameFields
    <3>2. f.events[j] \in ViewEvents
      BY <2>4, <3>1
    <3>3. f.events[j].new.stamp \in Nat
      BY <3>2 DEF ViewEvents, Items
    <3>4. /\ f.events[j].old = f.events[j].new /\ f.events[j].new.stamp <= made
          /\ f.events[j].op = "remove"
      BY <2>2, <2>4 DEF IsKeyed
    <3>. QED
      BY <3>3, <3>4 DEF ViewTypes
  <2>. QED
    BY <2>2, <2>3, <2>4 DEF IsKeyed
<1>5. \A x \in subscribed' \ ended' : Listed(x)' \/ \E i \in DOMAIN frames' : Reports(frames'[i], x)
  <2>1. SUFFICES ASSUME NEW x \in subscribed \ ended, x \notin ended', ~Listed(x)
                 PROVE  \E i \in DOMAIN frames' : Reports(frames'[i], x)
    BY DEF Listed
  <2>2. PICK i \in DOMAIN frames : Reports(frames[i], x)
    BY <2>1 DEF KeyTypes
  <2>. QED
    BY <1>3, <2>1, <2>2 DEF Reports
<1>6. kind' # "set" => \A x \in subscribed' : Listed(x)'
  BY DEF KeyTypes, Listed
<1>7. \A i \in DOMAIN frames' : IsKeyed(frames[i])'
  BY <1>4
<1>. QED
  BY <1>5, <1>6, <1>7 DEF KeyTypes, Reports, KeyedOnce

\* What is to be shown of a step.
LEMMA KeysGoOn ==
    ASSUME KeysInv, ViewTypes', KeyTypes', Fatal => Fatal',
           ~Fatal /\ Ordered /\ ~Fatal' => Ordered',
           ASSUME NEW x \in (subscribed \ ended)', ~Fatal, Ordered, ~Fatal', ~Late(x)'
           PROVE  KeysMirror(x)'
    PROVE  KeysInv'
BY DEF KeysInv

LEMMA ElementFields ==
    ASSUME ViewTypes, KeyTypes
    PROVE  \A i \in DOMAIN elements : /\ elements[i] \in Items /\ elements[i].key \in ItemKeys
                                    /\ elements[i].stamp \in Nat /\ elements[i].stamp <= made
<1>1. \A i \in DOMAIN elements : elements[i] \in Items
  BY DEF ViewTypes
<1>. QED
  BY <1>1 DEF KeyTypes, Items

LEMMA AddKeyKeepsInv ==
    ASSUME KeysInv, kind # "list", NEW key \in ItemKeys, AddKey(key), ~broken', ~crossed'
    PROVE  KeysInv'
<1>1. ViewTypes /\ KeyTypes
  BY DEF KeysInv
<1>2. PICK n, m, new : n = Len(frames) /\ m = Len(elements) /\ new = New(key)
  OBVIOUS
<1>3. /\ kind' = kind /\ watchers' = watchers /\ subscribed' = subscribed /\ ended' = ended
      /\ kept' = kept /\ made' = made + 1 /\ elements' = Append(elements, new)
      /\ frames' = frames \o <<FireEvent(Added(m + 1, new))>>
      /\ ~Awaits(frames) /\ ~Iterates(frames) /\ ~HasKey(elements, key)
      /\ Inner.do \in {"none", "user"}
  BY <1>2 DEF AddKey, Changes, ProgramRuns
<1>4. new \in Items /\ new.key = key /\ new.stamp = made + 1 /\ made \in Nat
  BY <1>1, <1>2 DEF New, Items, ViewTypes
<1>5. PICK f : f = FireEvent(Added(m + 1, new))
  OBVIOUS
<1>6. /\ f \in ViewFrames /\ f.do = "fire" /\ f.next = 1
      /\ f.event.op = "add" /\ f.event.new = new /\ f.event.old = new
  <2>1. m \in Nat
    BY <1>1, <1>2 DEF ViewTypes
  <2>2. Added(m + 1, new) \in ViewEvents
    BY <1>4, <2>1 DEF Added, ViewEvents
  <2>. QED
    BY <1>5, <2>2, ViewFramesAre DEF Added
<1>7. /\ n \in Nat /\ DOMAIN frames = 1 .. n /\ DOMAIN frames' = 1 .. n + 1
      /\ frames' \in Seq(ViewFrames) /\ Len(frames') = n + 1
      /\ (\A i \in 1 .. n : frames'[i] = frames[i]) /\ frames'[n + 1] = f
  <2>1. frames \in Seq(ViewFrames)
    BY <1>1 DEF ViewTypes
  <2>2. frames' = Append(frames, f)
    BY <1>3, <1>5, <2>1
  <2>. QED
    BY <1>2, <1>6, <2>1, <2>2, Pushed
<1>8. /\ elements' \in Seq(Items) /\ KeyedOnce(elements') /\ m \in Nat
      /\ DOMAIN elements = 1 .. m /\ DOMAIN elements' = 1 .. m + 1
      /\ (\A i \in DOMAIN elements : elements'[i] = elements[i]) /\ elements'[m + 1] = new
      /\ \A k : HasKey(elements, k) => HasKey(elements', k)
  <2>1. elements \in Seq(Items) /\ KeyedOnce(elements) /\ ~HasKey(elements, new.key)
    BY <1>1, <1>3, <1>4 DEF ViewTypes, KeyTypes
  <2>2. PICK t : t = Append(elements, new)
    OBVIOUS
  <2>3. /\ t \in Seq(Items) /\ KeyedOnce(t)
        /\ Len(elements) \in Nat /\ DOMAIN elements = 1 .. Len(elements)
        /\ DOMAIN t = 1 .. Len(elements) + 1
        /\ \A i \in DOMAIN elements : t[i] = elements[i]
        /\ t[Len(elements) + 1] = new
        /\ \A k : HasKey(elements, k) => HasKey(t, k)
    BY ONLY <1>4, <2>1, <2>2, KeyAppended
  <2>4. elements' = t
    BY <1>3, <2>2
  <2>5. \A k : HasKey(t, k) => HasKey(elements', k)
    BY <2>4 DEF HasKey
  <2>. QED
    BY <1>2, <2>3, <2>4, <2>5 DEF KeyedOnce
<1>10. \A x : Untold(frames'[n + 1], x, watchers') /\ Brings(frames'[n + 1], x, watchers')
  BY <1>6, <1>7 DEF Untold, Told, Brings
<1>11. /\ frames # <<>> => frames[n].do # "erase"
       /\ \A i \in 1 .. n : frames[i].do # "clear"
       /\ kind = "set" => \A i \in 1 .. n : frames[i].do # "replay"
  <2>1. frames # <<>> => frames[n].do # "erase"
    BY <1>2, <1>3 DEF Inner, Last
  <2>. QED
    BY <1>3, <1>7, <2>1 DEF Awaits, Iterates, Under
<1>12. ViewTypes'
  <2>1. made' \in Nat /\ IsKnown(f)
    BY <1>1, <1>3, <1>4, <1>6 DEF IsKnown, ViewTypes
  <2>2. \A i \in DOMAIN frames' : i \in 1 .. n \/ (IsKnown(frames'[i]) /\ frames'[i].do # "replay")
    BY <1>6, <1>7, <2>1
  <2>3. kept' \in [Watchers -> Seq(Items)] /\ \A x \in Watchers \ subscribed : kept'[x] = <<>>
    BY <1>1, <1>3 DEF ViewTypes
  <2>4. n \in 0 .. Len(frames)
    BY <1>2, <1>7
  <2>. QED
    BY <1>1, <1>3, <1>7, <1>8, <2>1, <2>2, <2>3, <2>4, TypesGoOn
<1>13. KeyTypes'
  <2>1. made' \in Nat /\ made <= made' /\ KeyedOnce(elements') /\ ended \subseteq ended'
    BY <1>3, <1>4, <1>8
  <2>2. \A i \in DOMAIN elements' : elements'[i].key \in ItemKeys /\ elements'[i].stamp <= made'
    <3>1. \A i \in DOMAIN elements : /\ elements[i].key \in ItemKeys /\ elements[i].stamp <= made
                                   /\ elements[i].stamp \in Nat
      BY <1>1, ElementFields
    <3>. QED
      BY <1>3, <1>4, <1>8, <3>1
  <2>3. \A i \in DOMAIN frames' : i \in 1 .. n \/ IsKeyed(frames[i])'
    <3>1. IsKeyed(frames[n + 1])'
      BY <1>3, <1>4, <1>6, <1>7 DEF IsKeyed
    <3>. QED
      BY <1>7, <3>1
  <2>4. \A x \in Watchers : KeyedOnce(kept'[x])
    BY <1>1, <1>3 DEF KeyTypes
  <2>5. n \in 0 .. Len(frames) /\ n <= Len(frames') /\ \A i \in DOMAIN frames : i \in 1 .. n
    BY <1>2, <1>7
  <2>. QED
    BY <1>1, <1>3, <1>7, <2>1, <2>2, <2>3, <2>4, <2>5, KeyTypesGoOn
<1>14. Fatal => Fatal'
  BY <1>1, <1>2, <1>3, <1>7, FatalStays
<1>15. ASSUME Ordered PROVE Ordered'
  <2>1. RemovalsAreFired'
    BY <1>6, <1>7, <1>11, <1>15 DEF Ordered, RemovalsAreFired, ErasesKey, Tells
  <2>2. ClearsAlone'
    BY <1>6, <1>7, <1>11 DEF ClearsAlone
  <2>3. ErasedOnce'
    <3>1. f.do # "erase" /\ ~ErasesKey(f, f.event.new.key)
      BY <1>6 DEF ErasesKey
    <3>2. \A j \in 1 .. n : frames[j].do = "erase" =>
             frames[j].key # key /\ HasKey(elements', frames[j].key)
      BY <1>3, <1>7, <1>8, <1>15 DEF Ordered, ErasedOnce
    <3>3. \A j \in DOMAIN frames' : frames'[j].do = "erase" => HasKey(elements', frames'[j].key)
      BY <1>6, <1>7, <3>2
    <3>4. \A i, j \in DOMAIN frames' :
             frames'[i].do = "erase" /\ ErasesKey(frames'[j], frames'[i].key) => i = j
      BY <1>6, <1>7, <1>15 DEF Ordered, ErasedOnce, ErasesKey
    <3>5. \A i \in DOMAIN frames' : \A j \in 1 .. i - 1 :
             /\ frames'[j].do = "erase"
             /\ frames'[i].do = "addTo" \/ (frames'[i].do = "fire" /\ frames'[i].event.op # "remove")
             => frames'[i].event.new.key # frames'[j].key
      <4>1. SUFFICES ASSUME NEW i \in 1 .. n + 1, NEW j \in 1 .. i - 1, frames'[j].do = "erase",
                            frames'[i].do = "addTo" \/ (frames'[i].do = "fire" /\ frames'[i].event.op # "remove")
                     PROVE  frames'[i].event.new.key # frames'[j].key
        BY <1>7
      <4>2. j \in 1 .. n /\ frames'[j] = frames[j]
        BY <1>7
      <4>3. CASE i = n + 1
        BY <1>4, <1>6, <1>7, <3>2, <4>1, <4>2, <4>3
      <4>4. CASE i # n + 1
        <5>1. i \in DOMAIN frames /\ frames'[i] = frames[i]
          BY <1>7, <4>4
        <5>. QED
          BY <1>15, <4>1, <4>2, <5>1 DEF Ordered, ErasedOnce
      <4>. QED
        BY <4>3, <4>4
    <3>. QED
      BY <3>3, <3>4, <3>5 DEF ErasedOnce, HasKey, ErasesKey
  <2>4. ReportsAlone'
    BY <1>3, <1>6, <1>7, <1>11, <1>15 DEF Ordered, ReportsAlone
  <2>. QED
    BY <2>1, <2>2, <2>3, <2>4 DEF Ordered
<1>16. ASSUME NEW x \in subscribed \ ended, ~Fatal, ~Late(x)' PROVE KeysMirror(x)'
  <2>9. /\ \A v : v \in ToSet(elements) <=> \E i \in DOMAIN elements : elements[i] = v
        /\ \A v : v \in ToSet(elements') <=> \E i \in DOMAIN elements' : elements'[i] = v
    BY DEF ToSet
  <2>1. KeysMirror(x)
    <3>1. \A v : v.stamp <= made /\ v \notin ToSet(elements) => v \notin ToSet(elements')
      <4>1. \A v \in ToSet(elements') : v \in ToSet(elements) \/ v = new
        BY <1>8, <2>9
      <4>. QED
        BY <1>4, <4>1
    <3>2. ~Late(x)
      BY <1>1, <1>2, <1>3, <1>7, <1>16, <3>1, LateStays
    <3>. QED
      BY <1>16, <3>2 DEF KeysInv
  <2>2. KeptIsThere(x)'
    <3>1. \A v : v \in ToSet(elements) => v \in ToSet(elements')
      BY <1>8, <2>9
    <3>2. ASSUME NEW p \in DOMAIN kept[x], kept[x][p] \notin ToSet(elements')
          PROVE  \E i \in DOMAIN frames' : Renews(frames'[i], x, watchers') /\ frames'[i].event.new.key = kept[x][p].key
      <4>1. PICK i \in DOMAIN frames : Renews(frames[i], x, watchers) /\ frames[i].event.new.key = kept[x][p].key
        BY <2>1, <3>1, <3>2 DEF KeysMirror, KeptIsThere
      <4>2. i \in DOMAIN frames' /\ frames'[i] = frames[i]
        BY <1>7
      <4>. QED
        BY <1>3, <4>1, <4>2
    <3>. QED
      BY <1>3, <3>2 DEF KeptIsThere
  <2>3. ThereIsKept(x)'
    <3>1. SUFFICES ASSUME NEW p \in DOMAIN elements', ~HasKey(kept[x], elements'[p].key)
                   PROVE  \E i \in DOMAIN frames' : Promises(frames'[i], x, watchers', p, elements'[p].key)
      BY <1>3 DEF ThereIsKept
    <3>2. CASE p \in DOMAIN elements
      <4>1. PICK i \in DOMAIN frames : Promises(frames[i], x, watchers, p, elements[p].key)
        BY <1>8, <2>1, <3>1, <3>2 DEF KeysMirror, ThereIsKept
      <4>. QED
        BY <1>3, <1>7, <1>8, <3>2, <4>1
    <3>3. CASE p \notin DOMAIN elements
      BY <1>4, <1>6, <1>7, <1>8, <1>10, <3>3 DEF Promises
    <3>. QED
      BY <3>2, <3>3
  <2>4. ClearedIsTold(x)'
    BY <1>6, <1>7, <1>11 DEF ClearedIsTold
  <2>5. ErasedIsTold(x)'
    <3>1. SUFFICES ASSUME NEW j \in DOMAIN frames', frames'[j].do = "erase", HasKey(kept[x], frames'[j].key)
                   PROVE  j < Len(frames') /\ Untold(frames'[j + 1], x, watchers')
      BY <1>3 DEF ErasedIsTold
    <3>2. j \in 1 .. n /\ frames[j] = frames'[j]
      BY <1>6, <1>7, <3>1
    <3>3. j < n /\ Untold(frames[j + 1], x, watchers)
      BY <1>2, <1>7, <2>1, <3>1, <3>2 DEF KeysMirror, ErasedIsTold
    <3>. QED
      BY <1>3, <1>7, <3>2, <3>3
  <2>. QED
    BY <2>2, <2>3, <2>4, <2>5 DEF KeysMirror
<1>. QED
  BY <1>3, <1>12, <1>13, <1>14, <1>15, <1>16, KeysGoOn

LEMMA GoingOn ==
    ASSUME ViewTypes, NEW b, GoOn(b)
    PROVE  /\ b \in Nat /\ Len(frames) \in Nat /\ b <= Len(frames) /\ b <= Len(frames')
           /\ DOMAIN frames = 1 .. Len(frames)
           /\ DOMAIN frames' = 1 .. Len(frames') /\ Len(frames') \in Nat
           /\ \A i \in 1 .. b : /\ i \in DOMAIN frames /\ i \in DOMAIN frames'
                                /\ frames'[i] = frames[i]
                                /\ i < b => i + 1 \in 1 .. b
           /\ \A i \in 1 .. b : \A x :
                /\ Untold(frames'[i], x, watchers') <=> Untold(frames[i], x, watchers)
                /\ Brings(frames'[i], x, watchers') <=> Brings(frames[i], x, watchers)
                /\ Renews(frames'[i], x, watchers') <=> Renews(frames[i], x, watchers)
                /\ \A p, k : Promises(frames'[i], x, watchers', p, k)
                                <=> Promises(frames[i], x, watchers, p, k)
<1>1. frames \in Seq(ViewFrames) /\ frames' \in Seq(ViewFrames) /\ b \in 0 .. Len(frames) /\ b <= Len(frames')
  BY DEF ViewTypes, GoOn
<1>2. /\ Len(frames) \in Nat /\ DOMAIN frames = 1 .. Len(frames)
      /\ DOMAIN frames' = 1 .. Len(frames') /\ Len(frames') \in Nat
  BY <1>1
<1>3. PICK n, m : n = Len(frames) /\ m = Len(frames')
  OBVIOUS
<1>4. b \in Nat /\ b <= n /\ \A i \in 1 .. b : i \in 1 .. n /\ i \in 1 .. m /\ (i < b => i + 1 \in 1 .. b)
  BY <1>1, <1>2, <1>3
<1>5. ASSUME NEW i \in 1 .. b, NEW x
      PROVE  /\ Untold(frames'[i], x, watchers') <=> Untold(frames[i], x, watchers)
             /\ Brings(frames'[i], x, watchers') <=> Brings(frames[i], x, watchers)
             /\ Renews(frames'[i], x, watchers') <=> Renews(frames[i], x, watchers)
  BY MeaningStays DEF GoOn
<1>6. ASSUME NEW i \in 1 .. b, NEW x, NEW p, NEW k
      PROVE  Promises(frames'[i], x, watchers', p, k) <=> Promises(frames[i], x, watchers, p, k)
  <2>1. frames'[i] = frames[i]
    BY DEF GoOn
  <2>. QED
    BY <1>5, <2>1 DEF Promises
<1>. QED
  BY <1>2, <1>3, <1>4, <1>5, <1>6 DEF GoOn

LEMMA KeptStays ==
    ASSUME ViewTypes, NEW x, KeptIsThere(x), NEW b, GoOn(b),
           \A p \in DOMAIN kept'[x] : \/ kept'[x][p] \in ToSet(elements')
                                      \/ \E q \in DOMAIN kept[x] : kept[x][q] = kept'[x][p],
           \A p \in DOMAIN kept'[x] : kept'[x][p] \in ToSet(elements) =>
              \/ kept'[x][p] \in ToSet(elements')
              \/ \E i \in DOMAIN frames' : /\ Renews(frames'[i], x, watchers')
                                           /\ frames'[i].event.new.key = kept'[x][p].key,
           \A i \in DOMAIN frames : i \in 1 .. b \/
              (Renews(frames[i], x, watchers) =>
                 \/ ~HasKey(kept'[x], frames[i].event.new.key)
                 \/ \E j \in DOMAIN frames' :
                      /\ Renews(frames'[j], x, watchers')
                      /\ frames'[j].event.new.key = frames[i].event.new.key)
    PROVE  KeptIsThere(x)'
<1>1. SUFFICES ASSUME NEW p \in DOMAIN kept'[x], kept'[x][p] \notin ToSet(elements')
               PROVE  \E i \in DOMAIN frames' : /\ Renews(frames'[i], x, watchers')
                                                /\ frames'[i].event.new.key = kept'[x][p].key
  BY DEF KeptIsThere
<1>2. PICK q \in DOMAIN kept[x] : kept[x][q] = kept'[x][p]
  BY <1>1
<1>3. CASE kept[x][q] \in ToSet(elements)
  BY <1>1, <1>2, <1>3
<1>4. CASE kept[x][q] \notin ToSet(elements)
  <2>1. PICK i \in DOMAIN frames : /\ Renews(frames[i], x, watchers)
                                   /\ frames[i].event.new.key = kept[x][q].key
    BY <1>4 DEF KeptIsThere
  <2>2. CASE i \in 1 .. b
    BY <1>2, <2>1, <2>2, GoingOn
  <2>3. CASE i \notin 1 .. b
    <3>1. HasKey(kept'[x], frames[i].event.new.key)
      BY <1>2, <2>1 DEF HasKey
    <3>. QED
      BY <1>2, <2>1, <2>3, <3>1
  <2>. QED
    BY <2>2, <2>3
<1>. QED
  BY <1>3, <1>4

LEMMA ThereStays ==
    ASSUME ViewTypes, NEW x, ThereIsKept(x), NEW b, GoOn(b),
           \A p \in DOMAIN elements' :
              \/ HasKey(kept'[x], elements'[p].key)
              \/ \E i \in DOMAIN frames' : Promises(frames'[i], x, watchers', p, elements'[p].key)
              \/ p \in DOMAIN elements /\ elements[p].key = elements'[p].key
              \/ /\ \E q \in DOMAIN elements : elements[q].key = elements'[p].key
                 /\ \A i \in 1 .. b : ~Reports(frames[i], x),
           \A k : HasKey(kept[x], k) =>
              \/ HasKey(kept'[x], k)
              \/ \A p \in DOMAIN elements' : elements'[p].key = k =>
                    \E i \in DOMAIN frames' : Promises(frames'[i], x, watchers', p, k),
           \A i \in DOMAIN frames : i \in 1 .. b \/
              \A q \in DOMAIN elements, p \in DOMAIN elements' :
                 /\ elements[q].key = elements'[p].key
                 /\ Promises(frames[i], x, watchers, q, elements[q].key)
                 => \/ HasKey(kept'[x], elements'[p].key)
                    \/ \E j \in DOMAIN frames' : Promises(frames'[j], x, watchers', p, elements'[p].key)
    PROVE  ThereIsKept(x)'
<1>1. SUFFICES ASSUME NEW p \in DOMAIN elements', ~HasKey(kept'[x], elements'[p].key),
                      ~\E i \in DOMAIN frames' : Promises(frames'[i], x, watchers', p, elements'[p].key)
               PROVE  FALSE
  BY DEF ThereIsKept
<1>2. PICK q \in DOMAIN elements :
         elements[q].key = elements'[p].key /\ (q = p \/ \A i \in 1 .. b : ~Reports(frames[i], x))
  BY <1>1
<1>3. ~HasKey(kept[x], elements[q].key)
  BY <1>1, <1>2
<1>4. PICK i \in DOMAIN frames : Promises(frames[i], x, watchers, q, elements[q].key)
  BY <1>3 DEF ThereIsKept
<1>5. i \in 1 .. b
  BY <1>1, <1>2, <1>4
<1>6. Promises(frames[i], x, watchers, p, elements'[p].key)
  BY <1>2, <1>4, <1>5 DEF Promises
<1>. QED
  BY <1>1, <1>5, <1>6, GoingOn

LEMMA ToldStays ==
    ASSUME ViewTypes, RemovalsAreFired, NEW x, ClearedIsTold(x), ErasedIsTold(x), NEW b, GoOn(b),
           \A j \in DOMAIN frames' : j \in 1 .. b \/
              /\ frames'[j].do # "clear"
              /\ frames'[j].do = "erase" =>
                   j < Len(frames') /\ Untold(frames'[j + 1], x, watchers'),
           \A k : HasKey(kept'[x], k) => HasKey(kept[x], k) \/
              \A j \in DOMAIN frames :
                 /\ frames[j].do # "clear"
                 /\ ErasesKey(frames[j], k) =>
                      j < Len(frames) /\ Untold(frames[j + 1], x, watchers),
           b < Len(frames) /\ Untold(frames[b + 1], x, watchers)
              /\ frames[b + 1].event.op = "remove" /\ HasKey(kept'[x], frames[b + 1].event.new.key)
              => /\ b < Len(frames') /\ Untold(frames'[b + 1], x, watchers')
                 /\ frames'[b + 1].event = frames[b + 1].event
    PROVE  ClearedIsTold(x)' /\ ErasedIsTold(x)'
<1>1. PICK n, m : n = Len(frames) /\ m = Len(frames')
  OBVIOUS
<1>2. /\ b \in Nat /\ n \in Nat /\ m \in Nat /\ b <= n /\ b <= m
      /\ DOMAIN frames = 1 .. n /\ DOMAIN frames' = 1 .. m
      /\ \A i \in 1 .. b : /\ i \in DOMAIN frames /\ frames'[i] = frames[i]
                           /\ i < b => i + 1 \in 1 .. b
      /\ \A i \in 1 .. b :
            Untold(frames'[i], x, watchers') <=> Untold(frames[i], x, watchers)
  BY <1>1, GoingOn
\* What is fired above one that stays goes on.
<1>3. ASSUME NEW j \in 1 .. b, j < n, Untold(frames[j + 1], x, watchers),
             frames[j + 1].event.op = "remove", HasKey(kept'[x], frames[j + 1].event.new.key)
      PROVE  /\ j < m /\ Untold(frames'[j + 1], x, watchers')
             /\ frames'[j + 1].event = frames[j + 1].event
  <2>1. CASE j < b
    <3>1. j + 1 \in 1 .. b /\ j < m
      BY ONLY <1>2, <2>1, j \in 1 .. b
    <3>2. frames'[j + 1] = frames[j + 1]
      BY <1>2, <3>1
    <3>3. Untold(frames'[j + 1], x, watchers')
      BY <1>2, <1>3, <3>1
    <3>. QED
      BY <3>1, <3>2, <3>3
  <2>2. CASE j = b
    BY <1>1, <1>3, <2>2
  <2>. QED
    BY ONLY <1>2, <2>1, <2>2, j \in 1 .. b
<1>4. ClearedIsTold(x)'
  <2>1. SUFFICES ASSUME NEW j \in DOMAIN frames', frames'[j].do = "clear", NEW p \in DOMAIN kept'[x],
                        ~\E i \in DOMAIN frames'[j].events :
                            frames'[j].events[i].new.key = kept'[x][p].key
                 PROVE  /\ j < m /\ Untold(frames'[j + 1], x, watchers')
                        /\ Tells(frames'[j + 1], "remove", kept'[x][p].key)
    BY <1>1 DEF ClearedIsTold
  <2>2. j \in 1 .. b /\ frames'[j] = frames[j] /\ j \in DOMAIN frames
    BY <1>2, <2>1
  <2>3. HasKey(kept'[x], kept'[x][p].key)
    BY DEF HasKey
  <2>4. PICK q \in DOMAIN kept[x] : kept[x][q].key = kept'[x][p].key
    BY <2>1, <2>2, <2>3 DEF HasKey
  <2>5. /\ j < n /\ Untold(frames[j + 1], x, watchers)
        /\ Tells(frames[j + 1], "remove", kept'[x][p].key)
    BY <1>1, <2>1, <2>2, <2>4 DEF ClearedIsTold
  <2>6. /\ j < m /\ Untold(frames'[j + 1], x, watchers')
        /\ frames'[j + 1].event = frames[j + 1].event
    BY <1>3, <2>2, <2>3, <2>5 DEF Tells
  <2>. QED
    BY <2>5, <2>6 DEF Tells, Untold
<1>5. ErasedIsTold(x)'
  <2>1. SUFFICES ASSUME NEW j \in DOMAIN frames', frames'[j].do = "erase",
                        HasKey(kept'[x], frames'[j].key)
                 PROVE  j < m /\ Untold(frames'[j + 1], x, watchers')
    BY <1>1 DEF ErasedIsTold
  <2>2. CASE j \notin 1 .. b
    BY <1>1, <2>1, <2>2
  <2>3. CASE j \in 1 .. b
    <3>1. frames'[j] = frames[j] /\ j \in DOMAIN frames
      BY <1>2, <2>3
    <3>2. j < n /\ Untold(frames[j + 1], x, watchers)
      BY <1>1, <2>1, <3>1 DEF ErasedIsTold, ErasesKey
    <3>3. Tells(frames[j + 1], "remove", frames[j].key)
      BY <1>1, <2>1, <3>1, <3>2 DEF RemovalsAreFired
    <3>. QED
      BY <1>3, <2>1, <2>3, <3>1, <3>2, <3>3 DEF Tells
  <2>. QED
    BY <2>2, <2>3
<1>. QED
  BY <1>4, <1>5

\* Without a new removal or clear.
LEMMA OrderStays ==
    ASSUME ViewTypes, Ordered, NEW b, GoOn(b), kind' = kind,
           \A i \in DOMAIN frames' : i \in 1 .. b \/
              \/ frames'[i].do = "user"
              \/ /\ frames'[i].do = "fire" /\ i = b + 1 /\ b < Len(frames)
                 /\ frames[i].do = "fire" /\ frames'[i].event = frames[i].event
              \/ frames'[i].do = "replay" /\ \A j \in 1 .. b : frames[j].do # "clear"
              \/ /\ frames'[i].do = "addTo" /\ \A j \in 1 .. b : frames[j].do # "clear"
                 /\ \A j \in 1 .. b : ~ErasesKey(frames[j], frames'[i].event.new.key),
           b > 0 /\ frames[b].do = "erase" /\ b < Len(frames') => frames'[b + 1].do = "fire",
           \A j \in 1 .. b : frames[j].do = "erase" => HasKey(elements', frames[j].key)
    PROVE  Ordered'
<1>1. PICK n, m : n = Len(frames) /\ m = Len(frames')
  OBVIOUS
<1>2. /\ b \in Nat /\ n \in Nat /\ m \in Nat /\ b <= n /\ b <= m
      /\ DOMAIN frames = 1 .. n /\ DOMAIN frames' = 1 .. m
      /\ \A i \in 1 .. b : /\ i \in 1 .. n /\ i \in 1 .. m /\ frames'[i] = frames[i]
                           /\ i < b => i + 1 \in 1 .. b
  BY <1>1, GoingOn
<1>3. \A j \in DOMAIN frames' : frames'[j].do \in {"erase", "clear"} => j \in 1 .. b
  OBVIOUS
\* What is fired was fired at the same place.
<1>4. \A i \in DOMAIN frames' : frames'[i].do = "fire" =>
         i \in DOMAIN frames /\ frames[i].do = "fire" /\ frames'[i].event = frames[i].event
  <2>1. b < n => b + 1 \in 1 .. n
    BY ONLY <1>2
  <2>. QED
    BY <1>1, <1>2, <2>1
<1>5. \A i \in DOMAIN frames' : frames'[i].do = "fire" => i \in 1 .. b + 1
  BY <1>2
<1>6. RemovalsAreFired'
  <2>1. ASSUME NEW i \in DOMAIN frames', frames'[i].do = "fire", frames'[i].event.op = "remove"
        PROVE  i > 1 /\ (frames'[i - 1].do = "clear" \/ ErasesKey(frames'[i - 1], frames'[i].event.new.key))
    <3>1. i > 1 /\ (frames[i - 1].do = "clear" \/ ErasesKey(frames[i - 1], frames[i].event.new.key))
      BY <1>4, <2>1 DEF Ordered, RemovalsAreFired
    <3>2. i - 1 \in 1 .. b
      <4>1. i \in 1 .. b + 1
        BY <1>5, <2>1
      <4>. QED
        BY ONLY <1>2, <3>1, <4>1
    <3>. QED
      BY <1>2, <1>4, <2>1, <3>1, <3>2
  <2>2. ASSUME NEW i \in DOMAIN frames', frames'[i].do = "erase", i < m
        PROVE  Tells(frames'[i + 1], "remove", frames'[i].key)
    <3>1. i \in 1 .. b /\ frames'[i] = frames[i]
      BY <1>2, <1>3, <2>2
    <3>2. frames'[i + 1].do = "fire" /\ i + 1 \in 1 .. m
      <4>1. i + 1 \in 1 .. m
        BY ONLY <1>2, <2>2, <3>1
      <4>2. CASE i = b
        BY <1>1, <1>2, <2>2, <3>1, <4>1, <4>2
      <4>3. CASE i < b
        <5>1. i + 1 \in 1 .. b /\ i < n /\ i \in 1 .. n
          BY ONLY <1>2, <3>1, <4>3
        <5>2. frames[i + 1].do = "fire"
          BY <1>1, <1>2, <2>2, <3>1, <5>1 DEF Ordered, RemovalsAreFired, Tells
        <5>. QED
          BY <1>2, <4>1, <5>1, <5>2
      <4>. QED
        BY ONLY <1>2, <3>1, <4>2, <4>3
    <3>3. i + 1 \in DOMAIN frames /\ frames'[i + 1].event = frames[i + 1].event
      BY <1>2, <1>4, <3>2
    <3>4. i \in 1 .. n /\ i < n
      BY ONLY <1>2, <3>1, <3>3
    <3>5. Tells(frames[i + 1], "remove", frames[i].key)
      BY <1>1, <1>2, <2>2, <3>1, <3>4 DEF Ordered, RemovalsAreFired
    <3>. QED
      BY <3>1, <3>2, <3>3, <3>5 DEF Tells
  <2>. QED
    BY <1>1, <2>1, <2>2 DEF RemovalsAreFired
<1>7. ClearsAlone'
  <2>1. SUFFICES ASSUME NEW j \in DOMAIN frames', frames'[j].do = "clear"
                 PROVE  /\ \A i \in DOMAIN frames' : frames'[i].do # "erase"
                        /\ \A i \in j + 1 .. m :
                              \/ frames'[i].do = "user"
                              \/ /\ i = j + 1 /\ frames'[i].do = "fire"
                                 /\ frames'[i].event.op = "remove"
    BY <1>1 DEF ClearsAlone
  <2>2. j \in 1 .. b /\ frames[j].do = "clear" /\ j \in DOMAIN frames
    BY <1>2, <1>3, <2>1
  <2>3. \A i \in DOMAIN frames' : frames'[i].do # "erase"
    <3>1. \A i \in DOMAIN frames : frames[i].do # "erase"
      BY <2>2 DEF Ordered, ClearsAlone
    <3>. QED
      BY <1>2, <1>3, <3>1
  <2>4. ASSUME NEW i \in j + 1 .. m, frames'[i].do # "user"
        PROVE  i = j + 1 /\ frames'[i].do = "fire" /\ frames'[i].event.op = "remove"
    <3>1. i \in 1 .. m /\ i > j
      BY ONLY <1>2, <2>2, i \in j + 1 .. m
    <3>2. CASE i \in 1 .. b
      <4>1. i \in j + 1 .. n
        BY ONLY <1>2, <2>2, <3>1, <3>2
      <4>. QED
        BY <1>1, <1>2, <2>2, <2>4, <3>2, <4>1 DEF Ordered, ClearsAlone
    <3>3. CASE i \notin 1 .. b
      <4>1. frames'[i].do = "fire"
        BY <1>2, <2>2, <2>4, <3>1, <3>3
      <4>2. i \in DOMAIN frames /\ frames[i].do = "fire" /\ frames'[i].event = frames[i].event
        BY <1>2, <1>4, <3>1, <4>1
      <4>3. i \in j + 1 .. n
        BY ONLY <1>2, <2>2, <3>1, <4>2
      <4>. QED
        BY <1>1, <2>2, <4>1, <4>2, <4>3 DEF Ordered, ClearsAlone
    <3>. QED
      BY <3>2, <3>3
  <2>. QED
    BY <2>3, <2>4
<1>8. ErasedOnce'
  <2>1. \A j \in DOMAIN frames' : frames'[j].do = "erase" => HasKey(elements', frames'[j].key)
    BY <1>2, <1>3
  <2>2. \A i, j \in DOMAIN frames' :
           frames'[i].do = "erase" /\ ErasesKey(frames'[j], frames'[i].key) => i = j
    BY <1>2, <1>3 DEF Ordered, ErasedOnce, ErasesKey
  <2>3. ASSUME NEW i \in DOMAIN frames', NEW j \in 1 .. i - 1, frames'[j].do = "erase",
               \/ frames'[i].do = "addTo"
               \/ frames'[i].do = "fire" /\ frames'[i].event.op # "remove"
        PROVE  frames'[i].event.new.key # frames'[j].key
    <3>1. j \in 1 .. m
      BY ONLY <1>2, i \in DOMAIN frames', j \in 1 .. i - 1
    <3>2. j \in 1 .. b /\ frames'[j] = frames[j]
      BY <1>2, <1>3, <2>3, <3>1
    <3>3. CASE frames'[i].do = "fire"
      BY <1>4, <2>3, <3>2, <3>3 DEF Ordered, ErasedOnce
    <3>4. CASE frames'[i].do = "addTo" /\ i \in 1 .. b
      BY <1>2, <2>3, <3>2, <3>4 DEF Ordered, ErasedOnce
    <3>5. CASE frames'[i].do = "addTo" /\ i \notin 1 .. b
      BY <2>3, <3>2, <3>5 DEF ErasesKey
    <3>. QED
      BY <2>3, <3>3, <3>4, <3>5
  <2>. QED
    BY <2>1, <2>2, <2>3 DEF ErasedOnce, ErasesKey, HasKey
<1>9. ReportsAlone'
  <2>1. SUFFICES ASSUME kind = "set", NEW i \in DOMAIN frames', NEW j \in 1 .. i - 1,
                        frames'[j].do = "replay", frames'[i].do = "fire"
                 PROVE  FALSE
    BY DEF ReportsAlone
  <2>2. i \in DOMAIN frames /\ frames[i].do = "fire" /\ i \in 1 .. b + 1
    BY <1>4, <1>5, <2>1
  <2>3. j \in 1 .. b
    BY ONLY <1>2, <2>2, j \in 1 .. i - 1
  <2>. QED
    BY <1>2, <2>1, <2>2, <2>3 DEF Ordered, ReportsAlone
<1>. QED
  BY <1>6, <1>7, <1>8, <1>9 DEF Ordered

LEMMA StackIs ==
    ASSUME ViewTypes, NEW s \in Seq(ViewFrames),
           NEW b, b = Len(s), b <= Len(frames), \A i \in 1 .. b : s[i] = frames[i],
           watchers' = watchers \/ \E y \in Watchers : watchers' = Append(watchers, y),
           frames' = s
    PROVE  GoOn(b) /\ DOMAIN frames' = 1 .. b
<1>1. b \in Nat /\ b \in 0 .. Len(frames) /\ DOMAIN s = 1 .. b
  BY DEF ViewTypes
<1>. QED
  BY <1>1 DEF GoOn

LEMMA StackAndOne ==
    ASSUME ViewTypes, NEW s \in Seq(ViewFrames), NEW g \in ViewFrames,
           NEW b, b = Len(s), b <= Len(frames), \A i \in 1 .. b : s[i] = frames[i],
           watchers' = watchers \/ \E y \in Watchers : watchers' = Append(watchers, y),
           frames' = Append(s, g)
    PROVE  GoOn(b) /\ DOMAIN frames' = 1 .. b + 1 /\ frames'[b + 1] = g
<1>1. b \in Nat /\ b \in 0 .. Len(frames) /\ DOMAIN s = 1 .. b
  BY DEF ViewTypes
<1>2. PICK t : t = Append(s, g)
  OBVIOUS
<1>3. /\ t \in Seq(ViewFrames) /\ Len(t) = b + 1 /\ DOMAIN t = 1 .. b + 1
      /\ (\A i \in 1 .. b : t[i] = frames[i]) /\ t[b + 1] = g
  BY <1>1, <1>2
<1>4. frames' = t
  BY <1>2
<1>. QED
  BY <1>1, <1>3, <1>4 DEF GoOn

LEMMA StackAndTwo ==
    ASSUME ViewTypes, NEW s \in Seq(ViewFrames), NEW g \in ViewFrames, NEW h \in ViewFrames,
           NEW b, b = Len(s), b <= Len(frames), \A i \in 1 .. b : s[i] = frames[i],
           watchers' = watchers \/ \E y \in Watchers : watchers' = Append(watchers, y),
           frames' = Append(Append(s, g), h)
    PROVE  /\ GoOn(b) /\ DOMAIN frames' = 1 .. b + 2
           /\ frames'[b + 1] = g /\ frames'[b + 2] = h
<1>1. b \in Nat /\ b \in 0 .. Len(frames) /\ DOMAIN s = 1 .. b
  BY DEF ViewTypes
<1>2. PICK t : t = Append(s, g)
  OBVIOUS
<1>3. /\ t \in Seq(ViewFrames) /\ Len(t) = b + 1
      /\ (\A i \in 1 .. b : t[i] = frames[i]) /\ t[b + 1] = g
  BY <1>1, <1>2
<1>4. PICK w : w = Append(t, h)
  OBVIOUS
<1>5. /\ w \in Seq(ViewFrames) /\ Len(w) = b + 2 /\ DOMAIN w = 1 .. b + 2
      /\ (\A i \in 1 .. b : w[i] = frames[i]) /\ w[b + 1] = g /\ w[b + 2] = h
  <2>1. /\ w \in Seq(ViewFrames) /\ Len(w) = b + 2 /\ DOMAIN w = 1 .. b + 2
        /\ (\A i \in 1 .. b + 1 : w[i] = t[i]) /\ w[b + 2] = h
    BY <1>1, <1>3, <1>4
  <2>. QED
    BY <1>1, <1>3, <2>1
<1>6. frames' = w
  BY <1>2, <1>4
<1>. QED
  BY <1>1, <1>5, <1>6 DEF GoOn

LEMMA StackAndThree ==
    ASSUME ViewTypes, NEW s \in Seq(ViewFrames), NEW g \in ViewFrames, NEW h \in ViewFrames,
           NEW u \in ViewFrames,
           NEW b, b = Len(s), b <= Len(frames), \A i \in 1 .. b : s[i] = frames[i],
           watchers' = watchers \/ \E y \in Watchers : watchers' = Append(watchers, y),
           frames' = Append(Append(Append(s, g), h), u)
    PROVE  /\ GoOn(b) /\ DOMAIN frames' = 1 .. b + 3
           /\ frames'[b + 1] = g /\ frames'[b + 2] = h /\ frames'[b + 3] = u
<1>1. b \in Nat /\ b \in 0 .. Len(frames) /\ DOMAIN s = 1 .. b
  BY DEF ViewTypes
<1>2. PICK t : t = Append(Append(s, g), h)
  OBVIOUS
<1>3. /\ t \in Seq(ViewFrames) /\ Len(t) = b + 2
      /\ (\A i \in 1 .. b : t[i] = frames[i]) /\ t[b + 1] = g /\ t[b + 2] = h
  <2>1. PICK v : v = Append(s, g)
    OBVIOUS
  <2>2. /\ v \in Seq(ViewFrames) /\ Len(v) = b + 1
        /\ (\A i \in 1 .. b : v[i] = frames[i]) /\ v[b + 1] = g
    BY <1>1, <2>1
  <2>3. t = Append(v, h)
    BY <1>2, <2>1
  <2>4. /\ t \in Seq(ViewFrames) /\ Len(t) = b + 2
        /\ (\A i \in 1 .. b + 1 : t[i] = v[i]) /\ t[b + 2] = h
    BY <1>1, <2>2, <2>3
  <2>5. b + 1 \in 1 .. b + 1 /\ \A i \in 1 .. b : i \in 1 .. b + 1
    BY <1>1
  <2>. QED
    BY ONLY <2>2, <2>4, <2>5
<1>4. PICK w : w = Append(t, u)
  OBVIOUS
<1>5. /\ w \in Seq(ViewFrames) /\ Len(w) = b + 3 /\ DOMAIN w = 1 .. b + 3
      /\ (\A i \in 1 .. b : w[i] = frames[i]) /\ w[b + 1] = g /\ w[b + 2] = h /\ w[b + 3] = u
  <2>1. /\ w \in Seq(ViewFrames) /\ Len(w) = b + 3 /\ DOMAIN w = 1 .. b + 3
        /\ (\A i \in 1 .. b + 2 : w[i] = t[i]) /\ w[b + 3] = u
    BY <1>1, <1>3, <1>4
  <2>2. w[b + 1] = t[b + 1] /\ w[b + 2] = t[b + 2] /\ \A i \in 1 .. b : w[i] = t[i]
    <3>1. b + 1 \in 1 .. b + 2 /\ b + 2 \in 1 .. b + 2 /\ \A i \in 1 .. b : i \in 1 .. b + 2
      BY <1>1
    <3>. QED
      BY ONLY <2>1, <3>1
  <2>. QED
    BY ONLY <1>3, <2>1, <2>2
<1>6. frames' = w
  BY <1>2, <1>4
<1>. QED
  BY <1>1, <1>5, <1>6 DEF GoOn

\* The call at work leaves the stack, and what takes its place.
LEMMA InnerGoes ==
    ASSUME ViewTypes, Inner.do # "none", NEW b, b = Len(frames) - 1
    PROVE  /\ b \in Nat /\ b + 1 = Len(frames) /\ DOMAIN frames = 1 .. b + 1
           /\ Inner = frames[b + 1] /\ Inner \in ViewFrames
           /\ Outer \in Seq(ViewFrames) /\ b = Len(Outer) /\ b <= Len(frames)
           /\ \A i \in 1 .. b : Outer[i] = frames[i]
<1>1. PICK s : s = Outer
  OBVIOUS
<1>2. /\ Inner = frames[Len(frames)] /\ Inner \in ViewFrames
      /\ Len(frames) \in Nat \ {0} /\ DOMAIN frames = 1 .. Len(frames)
      /\ s \in Seq(ViewFrames) /\ Len(s) = Len(frames) - 1
      /\ \A i \in 1 .. Len(frames) - 1 : s[i] = frames[i]
  BY <1>1, InnerIs
<1>3. b \in Nat /\ b + 1 = Len(frames) /\ b = Len(s) /\ b <= Len(frames)
  BY <1>2
<1>4. \A i \in 1 .. b : s[i] = frames[i]
  <2>1. b = Len(frames) - 1
    OBVIOUS
  <2>. QED
    BY ONLY <1>2, <2>1
<1>5. DOMAIN frames = 1 .. b + 1 /\ Inner = frames[b + 1]
  BY <1>2, <1>3
<1>. QED
  BY <1>1, <1>2, <1>3, <1>4, <1>5

LEMMA InnerLeaves ==
    ASSUME ViewTypes, Inner.do # "none", NEW b, b = Len(frames) - 1,
           watchers' = watchers \/ \E y \in Watchers : watchers' = Append(watchers, y),
           frames' = Outer
    PROVE  GoOn(b) /\ DOMAIN frames' = 1 .. b
<1>1. /\ Outer \in Seq(ViewFrames) /\ b = Len(Outer) /\ b <= Len(frames)
      /\ \A i \in 1 .. b : Outer[i] = frames[i]
  BY InnerGoes
<1>. QED
  BY <1>1, StackIs

LEMMA InnerBecomesOne ==
    ASSUME ViewTypes, Inner.do # "none", NEW b, b = Len(frames) - 1,
           watchers' = watchers \/ \E y \in Watchers : watchers' = Append(watchers, y),
           NEW g \in ViewFrames, frames' = Append(Outer, g)
    PROVE  GoOn(b) /\ DOMAIN frames' = 1 .. b + 1 /\ frames'[b + 1] = g
<1>1. /\ Outer \in Seq(ViewFrames) /\ b = Len(Outer) /\ b <= Len(frames)
      /\ \A i \in 1 .. b : Outer[i] = frames[i]
  BY InnerGoes
<1>. QED
  BY <1>1, StackAndOne

LEMMA InnerBecomesTwo ==
    ASSUME ViewTypes, Inner.do # "none", NEW b, b = Len(frames) - 1,
           watchers' = watchers \/ \E y \in Watchers : watchers' = Append(watchers, y),
           NEW g \in ViewFrames, NEW h \in ViewFrames, frames' = Append(Append(Outer, g), h)
    PROVE  /\ GoOn(b) /\ DOMAIN frames' = 1 .. b + 2
           /\ frames'[b + 1] = g /\ frames'[b + 2] = h
<1>1. /\ Outer \in Seq(ViewFrames) /\ b = Len(Outer) /\ b <= Len(frames)
      /\ \A i \in 1 .. b : Outer[i] = frames[i]
  BY InnerGoes
<1>. QED
  BY <1>1, StackAndTwo

LEMMA InnerBecomesThree ==
    ASSUME ViewTypes, Inner.do # "none", NEW b, b = Len(frames) - 1,
           watchers' = watchers \/ \E y \in Watchers : watchers' = Append(watchers, y),
           NEW g \in ViewFrames, NEW h \in ViewFrames, NEW u \in ViewFrames,
           frames' = Append(Append(Append(Outer, g), h), u)
    PROVE  /\ GoOn(b) /\ DOMAIN frames' = 1 .. b + 3
           /\ frames'[b + 1] = g /\ frames'[b + 2] = h /\ frames'[b + 3] = u
<1>1. /\ Outer \in Seq(ViewFrames) /\ b = Len(Outer) /\ b <= Len(frames)
      /\ \A i \in 1 .. b : Outer[i] = frames[i]
  BY InnerGoes
<1>2. PICK s : s = Outer
  OBVIOUS
<1>3. /\ s \in Seq(ViewFrames) /\ b = Len(s) /\ b <= Len(frames)
      /\ \A i \in 1 .. b : s[i] = frames[i]
  BY <1>1, <1>2
<1>4. frames' = Append(Append(Append(s, g), h), u)
  BY <1>2
<1>5. DOMAIN frames' = 1 .. b + 3
  BY <1>3, <1>4, StackAndThree
<1>6. GoOn(b)
  BY ONLY <1>3, <1>4, StackAndThree, ViewTypes, g \in ViewFrames, h \in ViewFrames, u \in ViewFrames,
          watchers' = watchers \/ \E y \in Watchers : watchers' = Append(watchers, y)
<1>7. frames'[b + 1] = g /\ frames'[b + 2] = h /\ frames'[b + 3] = u
  BY <1>3, <1>4, StackAndThree
<1>. QED
  BY <1>5, <1>6, <1>7

\* The program, or a handler, calls.
LEMMA ProgramCalls ==
    ASSUME ViewTypes, ProgramRuns, NEW b, b = Len(frames),
           watchers' = watchers \/ \E y \in Watchers : watchers' = Append(watchers, y)
    PROVE  /\ b \in Nat /\ DOMAIN frames = 1 .. b
           /\ b > 0 => frames[b].do = "user"
           /\ \A g \in ViewFrames : frames' = frames \o <<g>> \/ frames' = Append(frames, g) =>
                 GoOn(b) /\ DOMAIN frames' = 1 .. b + 1 /\ frames'[b + 1] = g
           /\ \A g, h \in ViewFrames : frames' = frames \o <<g, h>> =>
                 /\ GoOn(b) /\ DOMAIN frames' = 1 .. b + 2
                 /\ frames'[b + 1] = g /\ frames'[b + 2] = h
<1>1. frames \in Seq(ViewFrames) /\ b \in Nat /\ DOMAIN frames = 1 .. b
  BY DEF ViewTypes
<1>2. b > 0 => frames[b].do = "user"
  <2>1. ASSUME b > 0 PROVE frames[b].do = "user"
    <3>1. frames # <<>>
      BY <1>1, <2>1
    <3>2. Inner = frames[b] /\ Inner.do \in {"none", "user"}
      BY <3>1 DEF ProgramRuns, Inner, Last
    <3>3. frames[b].do # "none"
      BY <1>1, <2>1, ViewFrameFields
    <3>. QED
      BY <3>2, <3>3
  <2>. QED
    BY <2>1
<1>3. \A g \in ViewFrames : frames' = Append(frames, g) =>
         GoOn(b) /\ DOMAIN frames' = 1 .. b + 1 /\ frames'[b + 1] = g
  BY <1>1, StackAndOne
<1>4. \A g, h \in ViewFrames : frames' = Append(Append(frames, g), h) =>
         /\ GoOn(b) /\ DOMAIN frames' = 1 .. b + 2
         /\ frames'[b + 1] = g /\ frames'[b + 2] = h
  <2>1. SUFFICES ASSUME NEW g \in ViewFrames, NEW h \in ViewFrames,
                        frames' = Append(Append(frames, g), h)
                 PROVE  /\ GoOn(b) /\ DOMAIN frames' = 1 .. b + 2
                        /\ frames'[b + 1] = g /\ frames'[b + 2] = h
    OBVIOUS
  <2>2. frames \in Seq(ViewFrames) /\ b = Len(frames) /\ b <= Len(frames)
    BY <1>1
  <2>. QED
    BY <2>1, <2>2, StackAndTwo
<1>5. \A g \in ViewFrames : frames \o <<g>> = Append(frames, g)
  BY <1>1, TwoMore
<1>6. \A g, h \in ViewFrames : frames \o <<g, h>> = Append(Append(frames, g), h)
  BY <1>1, TwoMore
<1>. QED
  BY <1>1, <1>2, <1>3, <1>4, <1>5, <1>6

-----------------------------------------------------------------------------
(***************************************************************************)
(* Maps and sets: a value is replaced, a key removed and erased             *)
(***************************************************************************)

LEMMA UpdateKeyKeepsInv ==
    ASSUME KeysInv, kind # "list", NEW key \in ItemKeys, UpdateKey(key), ~broken', ~crossed'
    PROVE  KeysInv'
<1>1. ViewTypes /\ KeyTypes /\ elements \in Seq(Items) /\ KeyedOnce(elements)
  BY DEF KeysInv, ViewTypes, KeyTypes
<1>2. PICK b, p, new : b = Len(frames) /\ p = Position(elements, key) /\ new = New(key)
  OBVIOUS
<1>3. /\ kind' = kind /\ kind = "map" /\ watchers' = watchers /\ subscribed' = subscribed
      /\ ended' = ended /\ kept' = kept /\ made' = made + 1
      /\ elements' = ReplaceAt(elements, p, new)
      /\ frames' = frames \o <<FireEvent(Updated(p, elements[p], new))>>
      /\ ~Awaits(frames) /\ ~MovedOut(key) /\ HasKey(elements, key) /\ ProgramRuns
  BY <1>2 DEF UpdateKey, Changes
<1>4. new \in Items /\ new.key = key /\ new.stamp = made + 1 /\ made \in Nat
  BY <1>1, <1>2 DEF New, Items, ViewTypes
<1>5. /\ p \in DOMAIN elements /\ elements[p].key = key
      /\ elements' \in Seq(Items) /\ KeyedOnce(elements') /\ DOMAIN elements' = DOMAIN elements
      /\ elements'[p] = new
      /\ \A i \in DOMAIN elements : /\ elements'[i].key = elements[i].key
                                    /\ elements[i].key # key => elements'[i] = elements[i]
      /\ \A k : HasKey(elements, k) => HasKey(elements', k)
  <2>1. PICK t : t = ReplaceAt(elements, p, new)
    OBVIOUS
  <2>2. /\ p \in DOMAIN elements /\ elements[p].key = key
        /\ t \in Seq(Items) /\ KeyedOnce(t) /\ DOMAIN t = DOMAIN elements /\ t[p] = new
        /\ \A i \in DOMAIN elements : /\ t[i].key = elements[i].key
                                      /\ elements[i].key # key => t[i] = elements[i]
        /\ \A k : HasKey(elements, k) => HasKey(t, k)
    <3>1. HasKey(elements, key)
      BY <1>3
    <3>. QED
      BY ONLY <1>1, <1>2, <1>4, <2>1, <3>1, KeyReplaced
  <2>3. elements' = t
    BY <1>3, <2>1
  <2>. QED
    BY <2>2, <2>3 DEF HasKey, KeyedOnce
<1>6. PICK f : f = FireEvent(Updated(p, elements[p], new))
  OBVIOUS
<1>7. /\ f \in ViewFrames /\ f.do = "fire" /\ f.next = 1
      /\ f.event.op = "update" /\ f.event.new = new /\ f.event.old = elements[p]
  <2>1. p \in Nat \ {0} /\ elements[p] \in Items
    BY <1>1, <1>5
  <2>2. Updated(p, elements[p], new) \in ViewEvents
    BY <1>4, <2>1 DEF Updated, ViewEvents
  <2>. QED
    BY <1>6, <2>2, ViewFramesAre DEF Updated
<1>8. /\ b \in Nat /\ DOMAIN frames = 1 .. b /\ (b > 0 => frames[b].do = "user")
      /\ GoOn(b) /\ DOMAIN frames' = 1 .. b + 1 /\ frames'[b + 1] = f
  <2>1. frames' = frames \o <<f>>
    BY <1>3, <1>6
  <2>. QED
    BY <1>1, <1>2, <1>3, <1>7, <2>1, ProgramCalls
<1>9. /\ b \in 0 .. Len(frames) /\ b <= Len(frames') /\ frames' \in Seq(ViewFrames)
      /\ \A i \in 1 .. b : frames'[i] = frames[i]
  BY <1>8 DEF GoOn
<1>10. \A i \in 1 .. b : frames[i].do # "clear" /\ ~ErasesKey(frames[i], key)
  BY <1>3, <1>8 DEF Awaits, Under, MovedOut, ErasesKey
<1>11. \A v \in ToSet(elements') : v \in ToSet(elements) \/ v = new
  <2>1. \A i \in DOMAIN elements : elements'[i] = elements[i] \/ elements'[i] = new
    BY <1>1, <1>5 DEF KeyedOnce
  <2>. QED
    BY <1>5, <2>1 DEF ToSet
<1>12. ViewTypes'
  <2>1. made' \in Nat /\ IsKnown(f)
    BY <1>1, <1>3, <1>4, <1>7 DEF IsKnown, ViewTypes
  <2>2. \A i \in DOMAIN frames' : i \in 1 .. b \/ (IsKnown(frames'[i]) /\ frames'[i].do # "replay")
    BY <1>7, <1>8, <2>1
  <2>3. kept' \in [Watchers -> Seq(Items)] /\ \A x \in Watchers \ subscribed : kept'[x] = <<>>
    BY <1>1, <1>3 DEF ViewTypes
  <2>. QED
    BY <1>1, <1>3, <1>5, <1>9, <2>1, <2>2, <2>3, TypesGoOn
<1>13. KeyTypes'
  <2>1. made' \in Nat /\ made <= made' /\ KeyedOnce(elements') /\ ended \subseteq ended'
    BY <1>3, <1>4, <1>5
  <2>2. \A i \in DOMAIN elements' : elements'[i].key \in ItemKeys /\ elements'[i].stamp <= made'
    <3>1. \A i \in DOMAIN elements : /\ elements[i].key \in ItemKeys /\ elements[i].stamp <= made
                                   /\ elements[i].stamp \in Nat
      BY <1>1, ElementFields
    <3>2. \A i \in DOMAIN elements : elements'[i] = elements[i] \/ elements'[i] = new
      BY <1>1, <1>5 DEF KeyedOnce
    <3>. QED
      BY <1>3, <1>4, <1>5, <3>1, <3>2
  <2>3. \A i \in DOMAIN frames' : i \in 1 .. b \/ IsKeyed(frames[i])'
    <3>1. IsKeyed(frames[b + 1])'
      BY <1>3, <1>4, <1>5, <1>7, <1>8 DEF IsKeyed
    <3>. QED
      BY <1>8, <3>1
  <2>4. \A x \in Watchers : KeyedOnce(kept'[x])
    BY <1>1, <1>3 DEF KeyTypes
  <2>5. \A i \in DOMAIN frames : i \in 1 .. b
    BY <1>8
  <2>. QED
    BY <1>1, <1>3, <1>9, <2>1, <2>2, <2>3, <2>4, <2>5, KeyTypesGoOn
<1>14. Fatal => Fatal'
  BY <1>1, <1>2, <1>3, <1>9, FatalStays
<1>15. ASSUME Ordered PROVE Ordered'
  <2>1. RemovalsAreFired'
    BY <1>2, <1>7, <1>8, <1>9, <1>15 DEF Ordered, RemovalsAreFired, ErasesKey, Tells
  <2>2. ClearsAlone'
    BY <1>7, <1>8, <1>9, <1>10 DEF ClearsAlone
  <2>3. ErasedOnce'
    <3>1. f.do # "erase" /\ \A k : ~ErasesKey(f, k)
      BY <1>7 DEF ErasesKey
    <3>2. \A j \in 1 .. b : frames[j].do = "erase" =>
             frames[j].key # key /\ HasKey(elements', frames[j].key)
      BY <1>5, <1>8, <1>10, <1>15 DEF Ordered, ErasedOnce, ErasesKey
    <3>3. \A j \in DOMAIN frames' : frames'[j].do = "erase" => HasKey(elements', frames'[j].key)
      BY <1>7, <1>8, <1>9, <3>2
    <3>4. \A i, j \in DOMAIN frames' :
             frames'[i].do = "erase" /\ ErasesKey(frames'[j], frames'[i].key) => i = j
      BY <1>7, <1>8, <1>9, <1>15, <3>1 DEF Ordered, ErasedOnce
    <3>5. \A i \in DOMAIN frames' : \A j \in 1 .. i - 1 :
             /\ frames'[j].do = "erase"
             /\ frames'[i].do = "addTo" \/ (frames'[i].do = "fire" /\ frames'[i].event.op # "remove")
             => frames'[i].event.new.key # frames'[j].key
      <4>1. SUFFICES ASSUME NEW i \in 1 .. b + 1, NEW j \in 1 .. i - 1, frames'[j].do = "erase",
                            frames'[i].do = "addTo" \/ (frames'[i].do = "fire" /\ frames'[i].event.op # "remove")
                     PROVE  frames'[i].event.new.key # frames'[j].key
        BY <1>8
      <4>2. j \in 1 .. b /\ frames'[j] = frames[j]
        BY <1>8, <1>9
      <4>3. CASE i = b + 1
        BY <1>4, <1>7, <1>8, <3>2, <4>1, <4>2, <4>3
      <4>4. CASE i # b + 1
        <5>1. i \in DOMAIN frames /\ frames'[i] = frames[i]
          BY <1>8, <1>9, <4>4
        <5>. QED
          BY <1>15, <4>1, <4>2, <5>1 DEF Ordered, ErasedOnce
      <4>. QED
        BY <4>3, <4>4
    <3>. QED
      BY <3>3, <3>4, <3>5 DEF ErasedOnce, HasKey, ErasesKey
  <2>4. ReportsAlone'
    BY <1>3 DEF ReportsAlone
  <2>. QED
    BY <2>1, <2>2, <2>3, <2>4 DEF Ordered
<1>16. ASSUME NEW x \in subscribed \ ended, ~Fatal, Ordered, ~Late(x)' PROVE KeysMirror(x)'
  <2>1. KeysMirror(x)
    <3>1. \A v : v.stamp <= made /\ v \notin ToSet(elements) => v \notin ToSet(elements')
      BY <1>4, <1>11
    <3>2. ~Late(x)
      BY <1>1, <1>2, <1>3, <1>9, <1>16, <3>1, LateStays
    <3>. QED
      BY <1>16, <3>2 DEF KeysInv
  <2>2. Renews(frames'[b + 1], x, watchers') /\ frames'[b + 1].event.new.key = key
    BY <1>4, <1>7, <1>8 DEF Renews, Untold, Told
  <2>3. KeptIsThere(x)'
    <3>1. ASSUME NEW q \in DOMAIN kept'[x], kept'[x][q] \in ToSet(elements)
          PROVE  \/ kept'[x][q] \in ToSet(elements')
                 \/ \E i \in DOMAIN frames' : /\ Renews(frames'[i], x, watchers')
                                              /\ frames'[i].event.new.key = kept'[x][q].key
      <4>1. PICK i \in DOMAIN elements : elements[i] = kept'[x][q]
        BY <3>1 DEF ToSet
      <4>2. CASE elements[i].key = key
        BY <1>8, <2>2, <4>1, <4>2
      <4>3. CASE elements[i].key # key
        BY <1>5, <4>1, <4>3 DEF ToSet
      <4>. QED
        BY <4>2, <4>3
    <3>2. \A q \in DOMAIN kept'[x] : \E j \in DOMAIN kept[x] : kept[x][j] = kept'[x][q]
      BY <1>3
    <3>. QED
      BY <1>1, <1>8, <2>1, <3>1, <3>2, KeptStays DEF KeysMirror
  <2>4. ThereIsKept(x)'
    <3>1. \A q \in DOMAIN elements' : q \in DOMAIN elements /\ elements[q].key = elements'[q].key
      BY <1>5
    <3>2. \A k : HasKey(kept[x], k) => HasKey(kept'[x], k)
      BY <1>3
    <3>. QED
      BY <1>1, <1>8, <2>1, <3>1, <3>2, ThereStays DEF KeysMirror
  <2>5. ClearedIsTold(x)' /\ ErasedIsTold(x)'
    <3>1. \A k : HasKey(kept'[x], k) => HasKey(kept[x], k)
      BY <1>3
    <3>2. \A j \in DOMAIN frames' : j \in 1 .. b \/ frames'[j].do \notin {"clear", "erase"}
      BY <1>7, <1>8
    <3>3. ~(b < Len(frames))
      BY <1>2, <1>8
    <3>4. RemovalsAreFired
      BY <1>16 DEF Ordered
    <3>. QED
      BY <1>1, <1>8, <2>1, <3>1, <3>2, <3>3, <3>4, ToldStays DEF KeysMirror
  <2>. QED
    BY <2>3, <2>4, <2>5 DEF KeysMirror
<1>. QED
  BY <1>3, <1>12, <1>13, <1>14, <1>15, <1>16, KeysGoOn

\* What a change of the frames alone keeps.
LEMMA OnlyCallsChange ==
    ASSUME ViewTypes, KeyTypes, UNCHANGED <<kind, elements, made, watchers, subscribed, ended, kept>>,
           NEW b, GoOn(b),
           \A i \in DOMAIN frames' : i \in 1 .. b \/
              /\ IsKnown(frames'[i]) /\ IsKeyed(frames'[i])
              /\ frames'[i].do = "replay" =>
                   /\ i \in DOMAIN frames /\ frames[i].do = "replay"
                   /\ frames[i].of = frames'[i].of,
           \A i \in DOMAIN frames : i \in 1 .. b \/ frames[i].do # "replay" \/
              (frames[i].of \in ended \/ (i \in DOMAIN frames' /\ Reports(frames'[i], frames[i].of)))
    PROVE  ViewTypes' /\ KeyTypes'
<1>1. /\ b \in 0 .. Len(frames) /\ b <= Len(frames') /\ frames' \in Seq(ViewFrames)
      /\ \A i \in 1 .. b : frames'[i] = frames[i]
  BY DEF GoOn
<1>2. /\ made' \in Nat /\ made <= made' /\ elements' \in Seq(Items)
      /\ kept' \in [Watchers -> Seq(Items)]
      /\ \A x \in Watchers \ subscribed : kept'[x] = <<>>
  BY DEF ViewTypes
<1>3. ViewTypes'
  BY <1>1, <1>2, TypesGoOn
<1>4. /\ KeyedOnce(elements') /\ \A x \in Watchers : KeyedOnce(kept'[x])
      /\ \A i \in DOMAIN elements' : elements'[i].key \in ItemKeys /\ elements'[i].stamp <= made'
  BY DEF KeyTypes
<1>5. \A i \in DOMAIN frames' : i \in 1 .. b \/ IsKeyed(frames[i])'
  BY DEF IsKeyed
<1>6. KeyTypes'
  BY <1>1, <1>2, <1>4, <1>5, KeyTypesGoOn
<1>. QED
  BY <1>3, <1>6

LEMMA RemoveKeyKeepsInv ==
    ASSUME KeysInv, kind # "list", NEW key \in ItemKeys, RemoveKey(key), ~broken', ~crossed'
    PROVE  KeysInv'
<1>1. ViewTypes /\ KeyTypes
  BY DEF KeysInv
<1>2. PICK b, p : b = Len(frames) /\ p = Position(elements, key)
  OBVIOUS
<1>3. PICK e, f : e = [do |-> "erase", key |-> key] /\ f = FireEvent(Removed(p, elements[p]))
  OBVIOUS
<1>4. /\ UNCHANGED <<kind, elements, made, watchers, subscribed, ended, kept>>
      /\ frames' = frames \o <<e, f>>
      /\ ~Awaits(frames) /\ HasKey(elements, key) /\ ProgramRuns
      /\ kind = "map" => ~MovedOut(key)
  BY <1>2, <1>3 DEF RemoveKey, Changes
<1>5. /\ p \in DOMAIN elements /\ elements[p].key = key /\ p \in Nat \ {0}
      /\ elements[p] \in Items /\ elements[p].stamp <= made
  <2>1. p \in DOMAIN elements /\ elements[p].key = key
    BY <1>2, <1>4 DEF HasKey, Position
  <2>2. elements \in Seq(Items)
    BY <1>1 DEF ViewTypes
  <2>. QED
    BY <1>1, <2>1, <2>2, ElementFields
<1>6. e \in ViewFrames /\ e.do = "erase" /\ e.key = key
  BY <1>3, ViewFramesAre
<1>7. /\ f \in ViewFrames /\ f.do = "fire" /\ f.next = 1
      /\ f.event.op = "remove" /\ f.event.new = elements[p] /\ f.event.old = elements[p]
  <2>1. Removed(p, elements[p]) \in ViewEvents
    BY <1>5 DEF Removed, ViewEvents
  <2>. QED
    BY <1>3, <2>1, ViewFramesAre DEF Removed
<1>8. /\ b \in Nat /\ DOMAIN frames = 1 .. b /\ (b > 0 => frames[b].do = "user")
      /\ GoOn(b) /\ DOMAIN frames' = 1 .. b + 2 /\ frames'[b + 1] = e /\ frames'[b + 2] = f
  BY <1>1, <1>2, <1>4, <1>6, <1>7, ProgramCalls
<1>9. /\ b \in 0 .. Len(frames) /\ b <= Len(frames') /\ frames' \in Seq(ViewFrames)
      /\ Len(frames') = b + 2 /\ \A i \in 1 .. b : frames'[i] = frames[i]
  BY <1>8 DEF GoOn
<1>10. \A i \in 1 .. b : frames[i].do # "clear"
  BY <1>4, <1>8 DEF Awaits, Under
<1>11. ViewTypes' /\ KeyTypes'
  <2>1. IsKnown(e) /\ IsKeyed(e)
    BY <1>6 DEF IsKnown, IsKeyed
  <2>2. IsKnown(f) /\ IsKeyed(f)
    BY <1>1, <1>5, <1>7 DEF IsKnown, IsKeyed, ViewTypes
  <2>3. \A i \in DOMAIN frames' :
           i \in 1 .. b \/ (IsKnown(frames'[i]) /\ IsKeyed(frames'[i]) /\ frames'[i].do # "replay")
    BY <1>6, <1>7, <1>8, <2>1, <2>2
  <2>. QED
    BY <1>1, <1>4, <1>8, <2>3, OnlyCallsChange
<1>12. Fatal => Fatal'
  BY <1>1, <1>2, <1>4, <1>9, FatalStays
<1>13. ASSUME ~Fatal'
       PROVE  /\ \A i \in 1 .. b : ~ErasesKey(frames[i], key)
              /\ kind = "set" => \A i \in 1 .. b : frames[i].do # "replay"
  <2>1. b + 1 \in DOMAIN frames' /\ WillDrop(frames'[b + 1]) /\ \A i \in 1 .. b : i \in 1 .. (b + 1) - 1
    BY <1>6, <1>8 DEF WillDrop
  <2>2. \A i \in 1 .. b : ~Holds(frames[i])'
    BY <1>13, <2>1 DEF Fatal, WillDrop
  <2>3. \A i \in 1 .. b : /\ frames[i].do # "replay"
                          /\ kind = "set" => frames[i].do # "erase"
    BY <1>4, <1>9, <2>2 DEF Holds
  <2>4. kind \in {"map", "set"}
    BY <1>1 DEF ViewTypes
  <2>. QED
    BY <1>4, <1>8, <2>3, <2>4 DEF ErasesKey, MovedOut
<1>14. ASSUME Ordered, ~Fatal' PROVE Ordered'
  <2>1. RemovalsAreFired'
    <3>1. \A i \in DOMAIN frames' : frames'[i].do = "fire" /\ frames'[i].event.op = "remove" =>
             i > 1 /\ (frames'[i - 1].do = "clear" \/ ErasesKey(frames'[i - 1], frames'[i].event.new.key))
      <4>1. SUFFICES ASSUME NEW i \in 1 .. b + 2, frames'[i].do = "fire", frames'[i].event.op = "remove"
                     PROVE  i > 1 /\ (frames'[i - 1].do = "clear" \/ ErasesKey(frames'[i - 1], frames'[i].event.new.key))
        BY <1>8
      <4>2. CASE i = b + 2
        <5>1. i - 1 = b + 1 /\ i > 1
          BY <1>8, <4>2
        <5>. QED
          BY <1>5, <1>6, <1>7, <1>8, <4>2, <5>1 DEF ErasesKey
      <4>3. CASE i \in 1 .. b
        <5>1. i > 1 /\ (frames[i - 1].do = "clear" \/ ErasesKey(frames[i - 1], frames[i].event.new.key))
          BY <1>8, <1>9, <1>14, <4>1, <4>3 DEF Ordered, RemovalsAreFired
        <5>2. i - 1 \in 1 .. b
          BY <1>8, <4>3, <5>1
        <5>. QED
          BY <1>9, <4>3, <5>1, <5>2
      <4>4. CASE i = b + 1
        BY <1>6, <1>8, <4>1, <4>4
      <4>. QED
        BY <1>8, <4>2, <4>3, <4>4
    <3>2. \A i \in DOMAIN frames' : frames'[i].do = "erase" /\ i < Len(frames') =>
             Tells(frames'[i + 1], "remove", frames'[i].key)
      <4>1. SUFFICES ASSUME NEW i \in 1 .. b + 2, frames'[i].do = "erase"
                     PROVE  Tells(frames'[i + 1], "remove", frames'[i].key)
        BY <1>8
      <4>2. CASE i = b + 1
        <5>1. i + 1 = b + 2
          BY <1>8, <4>2
        <5>. QED
          BY <1>5, <1>6, <1>7, <1>8, <4>2, <5>1 DEF Tells
      <4>3. CASE i \in 1 .. b
        <5>1. i < b /\ i + 1 \in 1 .. b
          <6>1. i # b
            BY <1>8, <1>9, <4>1, <4>3
          <6>. QED
            BY <1>8, <4>3, <6>1
        <5>2. Tells(frames[i + 1], "remove", frames[i].key)
          BY <1>2, <1>8, <1>9, <1>14, <4>1, <4>3, <5>1 DEF Ordered, RemovalsAreFired
        <5>. QED
          BY <1>9, <4>3, <5>1, <5>2
      <4>4. CASE i = b + 2
        BY <1>7, <1>8, <4>1, <4>4
      <4>. QED
        BY <1>8, <4>2, <4>3, <4>4
    <3>. QED
      BY <3>1, <3>2 DEF RemovalsAreFired
  <2>2. ClearsAlone'
    BY <1>6, <1>7, <1>8, <1>9, <1>10 DEF ClearsAlone
  <2>3. ErasedOnce'
    <3>1. \A j \in DOMAIN frames' : frames'[j].do = "erase" => HasKey(elements', frames'[j].key)
      BY <1>4, <1>6, <1>7, <1>8, <1>9, <1>14 DEF Ordered, ErasedOnce
    <3>2. \A i, j \in DOMAIN frames' :
             frames'[i].do = "erase" /\ ErasesKey(frames'[j], frames'[i].key) => i = j
      <4>1. \A i \in DOMAIN frames' : frames'[i].do = "erase" => i \in 1 .. b + 1
        BY <1>7, <1>8
      <4>2. \A i \in 1 .. b : frames'[i].do = "erase" => frames'[i].key # key
        BY <1>9, <1>13, <1>14 DEF ErasesKey
      <4>3. \A i, j \in 1 .. b :
               frames'[i].do = "erase" /\ ErasesKey(frames'[j], frames'[i].key) => i = j
        BY <1>8, <1>9, <1>14 DEF Ordered, ErasedOnce
      <4>4. \A j : ErasesKey(frames'[j], frames'[b + 1].key) => frames'[j].key = key /\ frames'[j].do = "erase"
        BY <1>6, <1>8 DEF ErasesKey
      <4>. QED
        BY <1>6, <1>8, <4>1, <4>2, <4>3, <4>4 DEF ErasesKey
    <3>3. \A i \in DOMAIN frames' : \A j \in 1 .. i - 1 :
             /\ frames'[j].do = "erase"
             /\ frames'[i].do = "addTo" \/ (frames'[i].do = "fire" /\ frames'[i].event.op # "remove")
             => frames'[i].event.new.key # frames'[j].key
      <4>1. SUFFICES ASSUME NEW i \in 1 .. b + 2, NEW j \in 1 .. i - 1, frames'[j].do = "erase",
                            frames'[i].do = "addTo" \/ (frames'[i].do = "fire" /\ frames'[i].event.op # "remove")
                     PROVE  frames'[i].event.new.key # frames'[j].key
        BY <1>8
      <4>2. i \in 1 .. b
        BY <1>6, <1>7, <1>8, <4>1
      <4>3. i \in DOMAIN frames /\ j \in 1 .. b /\ frames'[i] = frames[i] /\ frames'[j] = frames[j]
        BY <1>8, <1>9, <4>2
      <4>. QED
        BY <1>14, <4>1, <4>3 DEF Ordered, ErasedOnce
    <3>. QED
      BY <3>1, <3>2, <3>3 DEF ErasedOnce, HasKey, ErasesKey
  <2>4. ReportsAlone'
    BY <1>4, <1>6, <1>7, <1>8, <1>9, <1>13, <1>14 DEF Ordered, ReportsAlone
  <2>. QED
    BY <2>1, <2>2, <2>3, <2>4 DEF Ordered
<1>15. ASSUME NEW x \in subscribed \ ended, ~Fatal, Ordered, ~Late(x)' PROVE KeysMirror(x)'
  <2>1. KeysMirror(x)
    <3>1. ~Late(x)
      BY <1>1, <1>2, <1>4, <1>9, <1>15, LateStays
    <3>. QED
      BY <1>15, <3>1 DEF KeysInv
  <2>2. KeptIsThere(x)'
    BY <1>1, <1>4, <1>8, <2>1, KeptStays DEF KeysMirror
  <2>3. ThereIsKept(x)'
    BY <1>1, <1>4, <1>8, <2>1, ThereStays DEF KeysMirror
  <2>4. ClearedIsTold(x)' /\ ErasedIsTold(x)'
    <3>1. \A k : HasKey(kept'[x], k) => HasKey(kept[x], k)
      BY <1>4
    <3>2. Untold(frames'[b + 2], x, watchers')
      BY <1>7, <1>8 DEF Untold, Told
    <3>3. \A j \in DOMAIN frames' : j \in 1 .. b \/
             /\ frames'[j].do # "clear"
             /\ frames'[j].do = "erase" =>
                  j < Len(frames') /\ Untold(frames'[j + 1], x, watchers')
      <4>1. b + 1 < Len(frames') /\ (b + 1) + 1 = b + 2
        BY <1>8, <1>9
      <4>. QED
        BY <1>6, <1>7, <1>8, <3>2, <4>1
    <3>4. ~(b < Len(frames))
      BY <1>2, <1>8
    <3>5. RemovalsAreFired
      BY <1>15 DEF Ordered
    <3>. QED
      BY <1>1, <1>8, <2>1, <3>1, <3>3, <3>4, <3>5, ToldStays DEF KeysMirror
  <2>. QED
    BY <2>2, <2>3, <2>4 DEF KeysMirror
<1>. QED
  BY <1>4, <1>11, <1>12, <1>14, <1>15, KeysGoOn

\* What is not fatal to a call that drops elements.
LEMMA DropsAlone ==
    ASSUME ViewTypes, NEW b, b = Len(frames) - 1, WillDrop(Inner), kind # "list",
           ~Iterates(Outer), kind = "map" => ~Referenced(Outer)
    PROVE  /\ ~Fatal
           /\ \A i \in 1 .. b : /\ frames[i].do # "replay"
                                /\ kind = "set" => frames[i].do # "erase"
<1>1. Inner.do # "none"
  BY DEF WillDrop
<1>2. PICK s : s = Outer
  OBVIOUS
<1>3. /\ b \in Nat /\ Len(frames) = b + 1 /\ DOMAIN frames = 1 .. b + 1
      /\ DOMAIN s = 1 .. b /\ \A i \in 1 .. b : s[i] = frames[i]
  <2>1. /\ Len(frames) \in Nat \ {0} /\ DOMAIN frames = 1 .. Len(frames)
        /\ DOMAIN s = 1 .. Len(frames) - 1
        /\ \A i \in 1 .. Len(frames) - 1 : s[i] = frames[i]
    BY <1>1, <1>2, InnerIs
  <2>2. b \in Nat /\ Len(frames) = b + 1
    BY <2>1
  <2>3. b = Len(frames) - 1
    OBVIOUS
  <2>. QED
    BY ONLY <2>1, <2>2, <2>3
<1>4. \A i \in 1 .. b : ~Holds(frames[i])
  <2>1. \A i \in 1 .. b : /\ s[i].do # "replay"
                          /\ kind = "set" => s[i].do # "erase"
                          /\ kind = "map" => ~(s[i].do = "fire" /\ s[i].event.op = "update")
    BY <1>2, <1>3 DEF Iterates, Under, Referenced
  <2>. QED
    BY <1>3, <2>1 DEF Holds
<1>5. ~Fatal
  <2>1. \A j \in DOMAIN frames : \A i \in 1 .. j - 1 : i \in 1 .. b
    BY <1>3
  <2>. QED
    BY <1>4, <2>1 DEF Fatal
<1>. QED
  BY <1>4, <1>5 DEF Holds

LEMMA EraseKeyKeepsInv ==
    ASSUME KeysInv, kind # "list", EraseKey, ~broken', ~crossed'
    PROVE  KeysInv'
<1>1. ViewTypes /\ KeyTypes /\ elements \in Seq(Items) /\ KeyedOnce(elements)
  BY DEF KeysInv, ViewTypes, KeyTypes
<1>2. PICK b, k, p : b = Len(frames) - 1 /\ k = Inner.key /\ p = Position(elements, k)
  OBVIOUS
<1>3. /\ UNCHANGED <<kind, made, watchers, subscribed, ended, kept>>
      /\ frames' = Outer /\ Inner.do = "erase"
      /\ ~Iterates(Outer) /\ (kind = "map" => ~Referenced(Outer))
      /\ HasKey(elements, k) => elements' = RemoveAt(elements, p)
  BY <1>2 DEF EraseKey, Doing
<1>4. /\ b \in Nat /\ b + 1 = Len(frames) /\ DOMAIN frames = 1 .. b + 1
      /\ Inner = frames[b + 1] /\ Inner \in ViewFrames
      /\ GoOn(b) /\ DOMAIN frames' = 1 .. b
  <2>1. /\ b \in Nat /\ b + 1 = Len(frames) /\ DOMAIN frames = 1 .. b + 1
        /\ Inner = frames[b + 1] /\ Inner \in ViewFrames
    BY <1>1, <1>2, <1>3, InnerGoes
  <2>2. GoOn(b) /\ DOMAIN frames' = 1 .. b
    BY <1>1, <1>2, <1>3, InnerLeaves
  <2>. QED
    BY <2>1, <2>2
<1>5. /\ b \in 0 .. Len(frames) /\ b <= Len(frames') /\ frames' \in Seq(ViewFrames)
      /\ Len(frames') = b /\ \A i \in 1 .. b : frames'[i] = frames[i]
  BY <1>4 DEF GoOn
<1>6. frames[b + 1].do = "erase" /\ frames[b + 1].key = k
  BY <1>2, <1>3, <1>4
<1>7. ~Fatal /\ \A i \in 1 .. b : frames[i].do # "replay"
  <2>1. WillDrop(Inner)
    BY <1>3 DEF WillDrop
  <2>. QED
    BY <1>1, <1>2, <1>3, <2>1, DropsAlone
<1>8. Ordered
  BY <1>7 DEF KeysInv
<1>9. HasKey(elements, k)
  BY <1>4, <1>6, <1>8 DEF Ordered, ErasedOnce
<1>10. /\ elements' \in Seq(Items) /\ KeyedOnce(elements') /\ ~HasKey(elements', k)
       /\ \A i \in DOMAIN elements' : \E j \in DOMAIN elements : elements'[i] = elements[j] /\ elements[j].key # k
       /\ \A j \in DOMAIN elements : elements[j].key # k => \E i \in DOMAIN elements' : elements'[i] = elements[j]
  <2>1. PICK t : t = RemoveAt(elements, p)
    OBVIOUS
  <2>2. /\ t \in Seq(Items) /\ KeyedOnce(t) /\ ~HasKey(t, k)
        /\ \A i \in DOMAIN t : \E j \in DOMAIN elements : t[i] = elements[j] /\ elements[j].key # k
        /\ \A j \in DOMAIN elements : elements[j].key # k => \E i \in DOMAIN t : t[i] = elements[j]
    <3>1. p = Position(elements, k)
      BY <1>2
    <3>. QED
      BY ONLY <1>1, <1>9, <2>1, <3>1, KeyTaken
  <2>3. elements' = t
    BY <1>3, <1>9, <2>1
  <2>. QED
    BY <2>2, <2>3 DEF HasKey, KeyedOnce
<1>11. ViewTypes'
  <2>1. made' \in Nat /\ kept' \in [Watchers -> Seq(Items)] /\ \A x \in Watchers \ subscribed : kept'[x] = <<>>
    BY <1>1, <1>3 DEF ViewTypes
  <2>. QED
    BY <1>1, <1>3, <1>4, <1>5, <1>10, <2>1, TypesGoOn
<1>12. KeyTypes'
  <2>1. made' \in Nat /\ made <= made' /\ \A x \in Watchers : KeyedOnce(kept'[x])
    BY <1>1, <1>3 DEF ViewTypes, KeyTypes
  <2>2. \A i \in DOMAIN elements' : elements'[i].key \in ItemKeys /\ elements'[i].stamp <= made'
    BY <1>1, <1>3, <1>10 DEF KeyTypes
  <2>3. \A i \in DOMAIN frames : i \in 1 .. b \/ frames[i].do # "replay"
    BY <1>4, <1>6
  <2>. QED
    BY <1>1, <1>3, <1>4, <1>5, <1>10, <2>1, <2>2, <2>3, KeyTypesGoOn
<1>13. \A j \in 1 .. b : frames[j].do = "erase" => frames[j].key # k
  BY <1>4, <1>6, <1>8 DEF Ordered, ErasedOnce, ErasesKey
<1>14. Ordered'
  <2>1. \A j \in 1 .. b : frames[j].do = "erase" => HasKey(elements', frames[j].key)
    <3>1. SUFFICES ASSUME NEW j \in 1 .. b, frames[j].do = "erase" PROVE HasKey(elements', frames[j].key)
      OBVIOUS
    <3>2. HasKey(elements, frames[j].key)
      BY <1>4, <1>8, <3>1 DEF Ordered, ErasedOnce
    <3>. QED
      BY <1>10, <1>13, <3>1, <3>2 DEF HasKey
  <2>2. ~(b < Len(frames'))
    BY <1>4, <1>5
  <2>. QED
    BY <1>1, <1>3, <1>4, <1>8, <2>1, <2>2, OrderStays
<1>15. ASSUME NEW x \in subscribed \ ended, ~Late(x)' PROVE KeysMirror(x)'
  <2>1. /\ \A v : v \in ToSet(elements) <=> \E i \in DOMAIN elements : elements[i] = v
        /\ \A v : v \in ToSet(elements') <=> \E i \in DOMAIN elements' : elements'[i] = v
    BY DEF ToSet
  <2>2. KeysMirror(x)
    <3>1. \A v : v.stamp <= made /\ v \notin ToSet(elements) => v \notin ToSet(elements')
      BY <1>10, <2>1
    <3>2. ~Brings(frames[Len(frames)], x, watchers)
      BY <1>4, <1>6 DEF Brings, Untold
    <3>3. ~Late(x)
      BY <1>1, <1>3, <1>4, <1>5, <1>15, <3>1, <3>2, LateStays
    <3>. QED
      BY <1>7, <1>15, <3>3 DEF KeysInv
  <2>3. ~HasKey(kept[x], k)
    BY <1>4, <1>6, <2>2 DEF KeysMirror, ErasedIsTold
  <2>4. KeptIsThere(x)'
    <3>1. \A q \in DOMAIN kept'[x] : kept'[x][q] \in ToSet(elements) => kept'[x][q] \in ToSet(elements')
      BY <1>3, <1>10, <2>1, <2>3 DEF HasKey
    <3>2. \A q \in DOMAIN kept'[x] : \E j \in DOMAIN kept[x] : kept[x][j] = kept'[x][q]
      BY <1>3
    <3>3. \A i \in DOMAIN frames : i \in 1 .. b \/ ~Renews(frames[i], x, watchers)
      BY <1>4, <1>6 DEF Renews, Untold
    <3>. QED
      BY <1>1, <1>4, <2>2, <3>1, <3>2, <3>3, KeptStays DEF KeysMirror
  <2>5. ThereIsKept(x)'
    <3>1. \A q \in DOMAIN elements' : /\ elements'[q].key # k
                                      /\ \E j \in DOMAIN elements : elements[j].key = elements'[q].key
      BY <1>10
    <3>2. \A i \in 1 .. b : ~Reports(frames[i], x)
      BY <1>7 DEF Reports
    <3>3. \A c : HasKey(kept[x], c) => HasKey(kept'[x], c)
      BY <1>3
    <3>4. ASSUME NEW i \in DOMAIN frames, i \notin 1 .. b, NEW q, NEW c,
                 Promises(frames[i], x, watchers, q, c)
          PROVE  c = k
      <4>1. i = b + 1
        BY <1>4, <3>4
      <4>. QED
        BY <1>6, <3>4, <4>1 DEF Promises, Brings, Untold, Reports, ErasesKey
    <3>. QED
      BY <1>1, <1>4, <2>2, <3>1, <3>2, <3>3, <3>4, ThereStays DEF KeysMirror
  <2>6. ClearedIsTold(x)' /\ ErasedIsTold(x)'
    <3>1. \A c : HasKey(kept'[x], c) => HasKey(kept[x], c)
      BY <1>3
    <3>2. ~Untold(frames[b + 1], x, watchers)
      BY <1>6 DEF Untold
    <3>3. RemovalsAreFired
      BY <1>8 DEF Ordered
    <3>. QED
      BY <1>1, <1>4, <2>2, <3>1, <3>2, <3>3, ToldStays DEF KeysMirror
  <2>. QED
    BY <2>4, <2>5, <2>6 DEF KeysMirror
<1>. QED
  BY <1>3, <1>7, <1>11, <1>12, <1>14, <1>15, KeysGoOn

-----------------------------------------------------------------------------
(***************************************************************************)
(* Maps and sets: clear, and what ends                                      *)
(***************************************************************************)

LEMMA ClearKeepsInv ==
    ASSUME KeysInv, kind # "list", Clear, ~broken', ~crossed'
    PROVE  KeysInv'
<1>1. ViewTypes /\ KeyTypes
  BY DEF KeysInv
<1>2. PICK b, s : b = Len(frames) /\ s = ClearEvents
  OBVIOUS
<1>3. PICK c : c = [do |-> "clear", events |-> s]
  OBVIOUS
<1>4. /\ UNCHANGED <<kind, elements, made, watchers, subscribed, ended, kept>>
      /\ frames' = frames \o <<c>>
      /\ ~Awaits(frames) /\ ProgramRuns
      /\ kind = "map" => \A k \in ItemKeys : ~MovedOut(k)
  BY <1>2, <1>3 DEF Clear, Changes
<1>5. /\ s \in Seq(ViewEvents) /\ DOMAIN s = DOMAIN elements
      /\ \A j \in DOMAIN s : /\ s[j].op = "remove" /\ s[j].new = elements[j] /\ s[j].old = elements[j]
                             /\ elements[j].stamp <= made
  <2>1. elements \in Seq(Items) /\ Len(elements) \in Nat /\ DOMAIN elements = 1 .. Len(elements)
    BY <1>1 DEF ViewTypes
  <2>2. s = [j \in 1 .. Len(elements) |-> Removed(j, elements[j])]
    BY <1>2 DEF ClearEvents
  <2>3. \A j \in 1 .. Len(elements) : Removed(j, elements[j]) \in ViewEvents
    BY <2>1 DEF Removed, ViewEvents
  <2>4. s \in Seq(ViewEvents) /\ DOMAIN s = DOMAIN elements
    BY <2>1, <2>2, <2>3
  <2>5. \A j \in DOMAIN s : s[j] = Removed(j, elements[j])
    BY <2>1, <2>2
  <2>6. \A j \in DOMAIN elements : elements[j].stamp <= made
    BY <1>1, ElementFields
  <2>. QED
    BY <2>4, <2>5, <2>6 DEF Removed
<1>6. c \in ViewFrames /\ c.do = "clear" /\ c.events = s
  BY <1>3, <1>5, ViewFramesAre
<1>7. /\ b \in Nat /\ DOMAIN frames = 1 .. b /\ (b > 0 => frames[b].do = "user")
      /\ GoOn(b) /\ DOMAIN frames' = 1 .. b + 1 /\ frames'[b + 1] = c
  BY <1>1, <1>2, <1>4, <1>6, ProgramCalls
<1>8. /\ b \in 0 .. Len(frames) /\ b <= Len(frames') /\ frames' \in Seq(ViewFrames)
      /\ Len(frames') = b + 1 /\ \A i \in 1 .. b : frames'[i] = frames[i]
  BY <1>7 DEF GoOn
<1>9. \A i \in 1 .. b : frames[i].do # "clear"
  BY <1>4, <1>7 DEF Awaits, Under
<1>10. ViewTypes' /\ KeyTypes'
  <2>1. IsKnown(c) /\ IsKeyed(c) /\ c.do # "replay"
    BY <1>5, <1>6 DEF IsKnown, IsKeyed
  <2>2. \A i \in DOMAIN frames' :
           i \in 1 .. b \/ (IsKnown(frames'[i]) /\ IsKeyed(frames'[i]) /\ frames'[i].do # "replay")
    BY <1>7, <2>1
  <2>. QED
    BY <1>1, <1>4, <1>7, <2>2, OnlyCallsChange
<1>11. Fatal => Fatal'
  BY <1>1, <1>2, <1>4, <1>8, FatalStays
<1>12. ASSUME ~Fatal' PROVE \A i \in 1 .. b : frames[i].do # "erase"
  <2>1. b + 1 \in DOMAIN frames' /\ WillDrop(frames'[b + 1]) /\ \A i \in 1 .. b : i \in 1 .. (b + 1) - 1
    BY <1>6, <1>7 DEF WillDrop
  <2>2. \A i \in 1 .. b : ~Holds(frames[i])'
    BY <1>12, <2>1 DEF Fatal, WillDrop
  <2>3. \A i \in 1 .. b : kind = "set" => frames[i].do # "erase"
    BY <1>4, <1>8, <2>2 DEF Holds
  <2>4. \A i \in 1 .. b : frames[i] \in ViewFrames
    BY <1>1, <1>7 DEF ViewTypes
  <2>5. \A i \in 1 .. b : kind = "map" => frames[i].do # "erase"
    BY <1>4, <1>7, <2>4, ViewFrameFields DEF MovedOut
  <2>. QED
    BY <1>1, <2>3, <2>5 DEF ViewTypes
<1>13. ASSUME Ordered, ~Fatal' PROVE Ordered'
  <2>1. \A i \in DOMAIN frames' : frames'[i].do # "erase"
    BY <1>6, <1>7, <1>8, <1>12, <1>13
  <2>2. RemovalsAreFired'
    <3>1. ASSUME NEW i \in DOMAIN frames', frames'[i].do = "fire", frames'[i].event.op = "remove"
          PROVE  i > 1 /\ (frames'[i - 1].do = "clear" \/ ErasesKey(frames'[i - 1], frames'[i].event.new.key))
      <4>1. i \in 1 .. b
        BY <1>6, <1>7, <3>1
      <4>2. i > 1 /\ (frames[i - 1].do = "clear" \/ ErasesKey(frames[i - 1], frames[i].event.new.key))
        BY <1>7, <1>8, <1>13, <3>1, <4>1 DEF Ordered, RemovalsAreFired
      <4>3. i - 1 \in 1 .. b
        BY <1>7, <4>1, <4>2
      <4>. QED
        BY <1>8, <4>1, <4>2, <4>3
    <3>. QED
      BY <2>1, <3>1 DEF RemovalsAreFired
  <2>3. ClearsAlone'
    <3>1. SUFFICES ASSUME NEW j \in DOMAIN frames', frames'[j].do = "clear", NEW i \in j + 1 .. Len(frames')
                   PROVE  FALSE
      BY <2>1 DEF ClearsAlone
    <3>2. j = b + 1
      BY <1>7, <1>8, <1>9, <3>1
    <3>. QED
      BY <1>7, <1>8, <3>2
  <2>4. ErasedOnce'
    <3>1. \A i \in DOMAIN frames' : \A j \in 1 .. i - 1 : j \in DOMAIN frames'
      BY <1>7
    <3>. QED
      BY <2>1, <3>1 DEF ErasedOnce
  <2>5. ReportsAlone'
    BY <1>4, <1>6, <1>7, <1>8, <1>13 DEF Ordered, ReportsAlone
  <2>. QED
    BY <2>2, <2>3, <2>4, <2>5 DEF Ordered
<1>14. ASSUME NEW x \in subscribed \ ended, ~Fatal, Ordered, ~Late(x)', ~Fatal' PROVE KeysMirror(x)'
  <2>1. ~Late(x) /\ KeysMirror(x)
    <3>1. ~Late(x)
      BY <1>1, <1>2, <1>4, <1>8, <1>14, LateStays
    <3>. QED
      BY <1>14, <3>1 DEF KeysInv
  <2>2. KeptIsThere(x)'
    BY <1>1, <1>4, <1>7, <2>1, KeptStays DEF KeysMirror
  <2>3. ThereIsKept(x)'
    BY <1>1, <1>4, <1>7, <2>1, ThereStays DEF KeysMirror
  <2>4. ClearedIsTold(x)'
    <3>1. ASSUME NEW p \in DOMAIN kept[x] PROVE \E i \in DOMAIN s : s[i].new.key = kept[x][p].key
      <4>1. PICK v \in ToSet(elements) : v.key = kept[x][p].key
        <5>1. CASE kept[x][p] \in ToSet(elements)
          BY <5>1
        <5>2. CASE kept[x][p] \notin ToSet(elements)
          <6>1. PICK i \in DOMAIN frames :
                   Renews(frames[i], x, watchers) /\ frames[i].event.new.key = kept[x][p].key
            BY <2>1, <5>2 DEF KeysMirror, KeptIsThere
          <6>2. frames[i].event.new \in ToSet(elements)
            BY <2>1, <6>1 DEF Late, Renews, Brings
          <6>. QED
            BY <6>1, <6>2
        <5>. QED
          BY <5>1, <5>2
      <4>2. PICK i \in DOMAIN elements : elements[i] = v
        BY DEF ToSet
      <4>. QED
        BY <1>5, <4>1, <4>2
    <3>. QED
      BY <1>4, <1>6, <1>7, <1>8, <1>9, <3>1 DEF ClearedIsTold
  <2>5. ErasedIsTold(x)'
    <3>1. \A i \in DOMAIN frames' : frames'[i].do # "erase"
      BY <1>6, <1>7, <1>8, <1>12, <1>14
    <3>. QED
      BY <3>1 DEF ErasedIsTold
  <2>. QED
    BY <2>2, <2>3, <2>4, <2>5 DEF KeysMirror
<1>. QED
  BY <1>4, <1>10, <1>11, <1>13, <1>14, KeysGoOn

\* Where a clear is at work it is alone.
LEMMA ClearAtWork ==
    ASSUME ViewTypes, ClearsAlone, NEW b \in Nat, Len(frames) = b + 1, DOMAIN frames = 1 .. b + 1,
           frames[b + 1].do = "clear"
    PROVE  /\ \A i \in DOMAIN frames : frames[i].do # "erase"
           /\ \A i \in 1 .. b : frames[i].do # "clear"
<1>1. \A i \in DOMAIN frames : frames[i].do # "erase"
  BY DEF ClearsAlone
<1>2. ASSUME NEW i \in 1 .. b, frames[i].do = "clear" PROVE FALSE
  <2>1. i \in DOMAIN frames /\ b + 1 \in i + 1 .. Len(frames)
    OBVIOUS
  <2>. QED
    BY <1>2, <2>1 DEF ClearsAlone
<1>. QED
  BY <1>1, <1>2

LEMMA ClearEndsKeepsInv ==
    ASSUME KeysInv, kind # "list", ClearStep, Inner.events = <<>>, ~broken', ~crossed'
    PROVE  KeysInv'
<1>1. ViewTypes /\ KeyTypes
  BY DEF KeysInv
<1>2. PICK b : b = Len(frames) - 1
  OBVIOUS
<1>3. /\ UNCHANGED <<kind, made, watchers, subscribed, ended, kept>>
      /\ frames' = Outer /\ Inner.do = "clear" /\ elements' = <<>>
      /\ ~Iterates(Outer) /\ (kind = "map" => ~Referenced(Outer))
  BY DEF ClearStep, Doing
<1>4. /\ b \in Nat /\ b + 1 = Len(frames) /\ DOMAIN frames = 1 .. b + 1
      /\ Inner = frames[b + 1]
      /\ GoOn(b) /\ DOMAIN frames' = 1 .. b
  <2>1. /\ b \in Nat /\ b + 1 = Len(frames) /\ DOMAIN frames = 1 .. b + 1
        /\ Inner = frames[b + 1]
    BY <1>1, <1>2, <1>3, InnerGoes
  <2>2. GoOn(b) /\ DOMAIN frames' = 1 .. b
    BY <1>1, <1>2, <1>3, InnerLeaves
  <2>. QED
    BY <2>1, <2>2
<1>5. /\ b \in 0 .. Len(frames) /\ b <= Len(frames') /\ frames' \in Seq(ViewFrames)
      /\ Len(frames') = b /\ \A i \in 1 .. b : frames'[i] = frames[i]
  BY <1>4 DEF GoOn
<1>6. frames[b + 1].do = "clear" /\ frames[b + 1].events = <<>>
  BY <1>3, <1>4
<1>7. ~Fatal
  <2>1. WillDrop(Inner)
    BY <1>3 DEF WillDrop
  <2>. QED
    BY <1>1, <1>2, <1>3, <2>1, DropsAlone
<1>8. Ordered
  BY <1>7 DEF KeysInv
<1>9. /\ \A i \in 1 .. b : frames[i].do # "erase"
      /\ \A i \in 1 .. b : frames[i].do # "clear"
  BY <1>1, <1>4, <1>6, <1>8, ClearAtWork DEF Ordered
<1>10. /\ elements' \in Seq(Items) /\ KeyedOnce(elements') /\ DOMAIN elements' = {}
       /\ \A v : v \notin ToSet(elements')
  BY <1>3 DEF KeyedOnce, ToSet
<1>11. ViewTypes'
  <2>1. made' \in Nat /\ kept' \in [Watchers -> Seq(Items)] /\ \A x \in Watchers \ subscribed : kept'[x] = <<>>
    BY <1>1, <1>3 DEF ViewTypes
  <2>. QED
    BY <1>1, <1>3, <1>4, <1>5, <1>10, <2>1, TypesGoOn
<1>12. KeyTypes'
  <2>1. made' \in Nat /\ made <= made' /\ \A x \in Watchers : KeyedOnce(kept'[x])
    BY <1>1, <1>3 DEF ViewTypes, KeyTypes
  <2>2. \A i \in DOMAIN frames : i \in 1 .. b \/ frames[i].do # "replay"
    BY <1>4, <1>6
  <2>. QED
    BY <1>1, <1>3, <1>4, <1>5, <1>10, <2>1, <2>2, KeyTypesGoOn
<1>13. Ordered'
  <2>1. ~(b < Len(frames'))
    BY <1>4, <1>5
  <2>. QED
    BY <1>1, <1>3, <1>4, <1>8, <1>9, <2>1, OrderStays
<1>14. ASSUME NEW x \in subscribed \ ended, ~Late(x)' PROVE KeysMirror(x)'
  <2>1. KeysMirror(x)
    <3>1. ~Brings(frames[Len(frames)], x, watchers)
      BY <1>4, <1>6 DEF Brings, Untold
    <3>2. ~Late(x)
      BY <1>1, <1>3, <1>4, <1>5, <1>10, <1>14, <3>1, LateStays
    <3>. QED
      BY <1>7, <1>14, <3>2 DEF KeysInv
  <2>2. DOMAIN kept'[x] = {}
    <3>1. b + 1 \in DOMAIN frames /\ ~(b + 1 < Len(frames)) /\ DOMAIN frames[b + 1].events = {}
      BY <1>4, <1>6
    <3>2. \A p \in DOMAIN kept[x] : FALSE
      BY <1>6, <2>1, <3>1 DEF KeysMirror, ClearedIsTold
    <3>. QED
      BY <1>3, <3>2
  <2>3. KeptIsThere(x)' /\ ThereIsKept(x)'
    BY <1>10, <2>2 DEF KeptIsThere, ThereIsKept
  <2>4. ClearedIsTold(x)' /\ ErasedIsTold(x)'
    BY <1>4, <1>5, <1>9 DEF ClearedIsTold, ErasedIsTold
  <2>. QED
    BY <2>3, <2>4 DEF KeysMirror
<1>. QED
  BY <1>3, <1>7, <1>11, <1>12, <1>13, <1>14, KeysGoOn

LEMMA ClearGoesOnKeepsInv ==
    ASSUME KeysInv, kind # "list", ClearStep, Inner.events # <<>>, ~broken', ~crossed'
    PROVE  KeysInv'
<1>1. ViewTypes /\ KeyTypes
  BY DEF KeysInv
<1>2. PICK b, c, ev : b = Len(frames) - 1 /\ c = [Inner EXCEPT !.events = Tail(@)] /\ ev = Head(Inner.events)
  OBVIOUS
<1>3. PICK f : f = FireEvent(ev)
  OBVIOUS
<1>4. /\ UNCHANGED <<kind, elements, made, watchers, subscribed, ended, kept>>
      /\ frames' = Outer \o <<c, f>> /\ Inner.do = "clear"
  BY <1>2, <1>3 DEF ClearStep, Doing
<1>5. /\ b \in Nat /\ b + 1 = Len(frames) /\ DOMAIN frames = 1 .. b + 1
      /\ Inner = frames[b + 1] /\ Inner \in ViewFrames /\ Outer \in Seq(ViewFrames)
  BY <1>1, <1>2, <1>4, InnerGoes, InnerIs
<1>6. PICK s : s = frames[b + 1].events
  OBVIOUS
<1>7. /\ frames[b + 1].do = "clear" /\ s \in Seq(ViewEvents) /\ s # <<>>
      /\ \A j \in DOMAIN s : s[j].old = s[j].new /\ s[j].new.stamp <= made /\ s[j].op = "remove"
  <2>1. IsKeyed(frames[b + 1])
    BY <1>1, <1>5 DEF KeyTypes
  <2>. QED
    BY <1>4, <1>5, <1>6, <2>1, ViewFrameFields DEF IsKeyed
<1>8. /\ ev = s[1] /\ 1 \in DOMAIN s /\ ev \in ViewEvents
      /\ \A j \in DOMAIN Tail(s) : j + 1 \in DOMAIN s /\ Tail(s)[j] = s[j + 1]
      /\ \A j \in DOMAIN s : j = 1 \/ (j - 1 \in DOMAIN Tail(s) /\ Tail(s)[j - 1] = s[j])
  <2>1. ev = Head(s)
    BY <1>2, <1>5, <1>6
  <2>. QED
    BY <1>7, <2>1
<1>9. c \in ViewFrames /\ c.do = "clear" /\ c.events = Tail(s)
  <2>1. PICK g : g = Inner
    OBVIOUS
  <2>2. g \in ViewFrames /\ g.do = "clear" /\ g.events = s
    BY <1>4, <1>5, <1>6, <2>1
  <2>3. c = [g EXCEPT !.events = Tail(@)]
    BY <1>2, <2>1
  <2>. QED
    BY ONLY <1>7, <2>2, <2>3, GoesOn
<1>10. /\ f \in ViewFrames /\ f.do = "fire" /\ f.next = 1 /\ f.event = ev
  BY <1>3, <1>8, ViewFramesAre
<1>11. GoOn(b) /\ DOMAIN frames' = 1 .. b + 2 /\ frames'[b + 1] = c /\ frames'[b + 2] = f
  <2>1. frames' = Append(Append(Outer, c), f)
    BY <1>4, <1>5, <1>9, <1>10, TwoMore
  <2>. QED
    <3>1. b = Len(frames) - 1 /\ Inner.do # "none" /\ watchers' = watchers
      BY <1>2, <1>4
    <3>2. c \in ViewFrames /\ f \in ViewFrames
      BY <1>9, <1>10
    <3>. QED
      BY ONLY <1>1, <2>1, <3>1, <3>2, InnerBecomesTwo
<1>12. /\ b \in 0 .. Len(frames) /\ b <= Len(frames') /\ frames' \in Seq(ViewFrames)
       /\ Len(frames') = b + 2 /\ \A i \in 1 .. b : frames'[i] = frames[i]
  BY <1>5, <1>11 DEF GoOn
<1>13. ViewTypes' /\ KeyTypes'
  <2>1. IsKnown(c) /\ IsKeyed(c) /\ c.do # "replay"
    BY <1>7, <1>8, <1>9 DEF IsKnown, IsKeyed
  <2>2. IsKnown(f) /\ IsKeyed(f) /\ f.do # "replay"
    BY <1>1, <1>7, <1>8, <1>10 DEF IsKnown, IsKeyed, ViewTypes
  <2>3. \A i \in DOMAIN frames' :
           i \in 1 .. b \/ (IsKnown(frames'[i]) /\ IsKeyed(frames'[i]) /\ frames'[i].do # "replay")
    BY <1>5, <1>11, <2>1, <2>2
  <2>4. \A i \in DOMAIN frames : i \in 1 .. b \/ frames[i].do # "replay"
    BY <1>5, <1>7
  <2>. QED
    BY <1>1, <1>4, <1>11, <2>3, <2>4, OnlyCallsChange
<1>14. Fatal => Fatal'
  <2>1. Len(frames') > b /\ WillDrop(frames'[b + 1]) /\ b = Len(frames) - 1
    BY <1>2, <1>5, <1>9, <1>11, <1>12 DEF WillDrop
  <2>. QED
    BY <1>1, <1>4, <1>12, <2>1, FatalStays
<1>15. ASSUME Ordered
       PROVE  /\ \A i \in 1 .. b : frames[i].do # "erase"
              /\ \A i \in 1 .. b : frames[i].do # "clear"
  BY <1>1, <1>5, <1>7, <1>15, ClearAtWork DEF Ordered
<1>16. ASSUME Ordered, ~Fatal' PROVE Ordered'
  <2>1. \A i \in DOMAIN frames' : frames'[i].do # "erase"
    BY <1>5, <1>9, <1>10, <1>11, <1>12, <1>15, <1>16
  <2>2. RemovalsAreFired'
    <3>1. ASSUME NEW i \in DOMAIN frames', frames'[i].do = "fire", frames'[i].event.op = "remove"
          PROVE  i > 1 /\ (frames'[i - 1].do = "clear" \/ ErasesKey(frames'[i - 1], frames'[i].event.new.key))
      <4>1. CASE i \in 1 .. b
        <5>1. i > 1 /\ (frames[i - 1].do = "clear" \/ ErasesKey(frames[i - 1], frames[i].event.new.key))
          BY <1>5, <1>12, <1>16, <3>1, <4>1 DEF Ordered, RemovalsAreFired
        <5>2. i - 1 \in 1 .. b
          BY <1>5, <4>1, <5>1
        <5>. QED
          BY <1>12, <4>1, <5>1, <5>2
      <4>2. CASE i = b + 2
        <5>1. i > 1 /\ i - 1 = b + 1
          BY <1>5, <4>2
        <5>. QED
          BY <1>9, <1>11, <5>1
      <4>3. i # b + 1
        BY <1>9, <1>11, <3>1
      <4>. QED
        BY <1>5, <1>11, <4>1, <4>2, <4>3
    <3>. QED
      BY <2>1, <3>1 DEF RemovalsAreFired
  <2>3. ClearsAlone'
    <3>1. SUFFICES ASSUME NEW j \in DOMAIN frames', frames'[j].do = "clear", NEW i \in j + 1 .. Len(frames')
                   PROVE  i = j + 1 /\ frames'[i].do = "fire" /\ frames'[i].event.op = "remove"
      BY <2>1 DEF ClearsAlone
    <3>2. j = b + 1
      BY <1>5, <1>10, <1>11, <1>12, <1>15, <1>16, <3>1
    <3>3. i = b + 2 /\ i = j + 1
      BY <1>5, <1>12, <3>2
    <3>. QED
      BY <1>7, <1>8, <1>10, <1>11, <3>3
  <2>4. ErasedOnce'
    <3>1. \A i \in DOMAIN frames' : \A j \in 1 .. i - 1 : j \in DOMAIN frames'
      BY <1>5, <1>11
    <3>. QED
      BY <2>1, <3>1 DEF ErasedOnce
  <2>5. ReportsAlone'
    <3>1. b + 1 \in DOMAIN frames' /\ WillDrop(frames'[b + 1]) /\ \A i \in 1 .. b : i \in 1 .. (b + 1) - 1
      BY <1>5, <1>9, <1>11 DEF WillDrop
    <3>2. \A i \in 1 .. b : ~Holds(frames[i])'
      BY <1>16, <3>1 DEF Fatal, WillDrop
    <3>3. \A i \in 1 .. b : frames'[i].do # "replay"
      BY <3>2 DEF Holds
    <3>4. \A i \in DOMAIN frames' : frames'[i].do # "replay"
      BY <1>5, <1>9, <1>10, <1>11, <3>3
    <3>5. \A i \in DOMAIN frames' : \A j \in 1 .. i - 1 : j \in DOMAIN frames'
      BY <1>5, <1>11
    <3>. QED
      BY <3>4, <3>5 DEF ReportsAlone
  <2>. QED
    BY <2>2, <2>3, <2>4, <2>5 DEF Ordered
<1>17. ASSUME NEW x \in subscribed \ ended, ~Fatal, Ordered, ~Late(x)' PROVE KeysMirror(x)'
  <2>1. KeysMirror(x)
    <3>1. b = Len(frames) - 1 /\ ~Brings(frames[Len(frames)], x, watchers)
      BY <1>2, <1>5, <1>7 DEF Brings, Untold
    <3>2. ~Late(x)
      BY <1>1, <1>4, <1>12, <1>17, <3>1, LateStays
    <3>. QED
      BY <1>17, <3>2 DEF KeysInv
  <2>2. \A i \in DOMAIN frames : i \in 1 .. b \/ frames[i].do = "clear"
    BY <1>5, <1>7
  <2>3. KeptIsThere(x)'
    <3>1. \A i \in DOMAIN frames : i \in 1 .. b \/ ~Renews(frames[i], x, watchers)
      BY <2>2 DEF Renews, Untold
    <3>. QED
      BY <1>1, <1>4, <1>11, <2>1, <3>1, KeptStays DEF KeysMirror
  <2>4. ThereIsKept(x)'
    <3>1. b + 1 \in DOMAIN frames' /\ \A p, k : Promises(frames'[b + 1], x, watchers', p, k)
      BY <1>5, <1>9, <1>11 DEF Promises
    <3>. QED
      BY <3>1 DEF ThereIsKept
  <2>5. ClearedIsTold(x)'
    <3>1. SUFFICES ASSUME NEW j \in DOMAIN frames', frames'[j].do = "clear", NEW p \in DOMAIN kept[x],
                          ~\E i \in DOMAIN frames'[j].events : frames'[j].events[i].new.key = kept[x][p].key
                   PROVE  /\ j < Len(frames') /\ Untold(frames'[j + 1], x, watchers')
                          /\ Tells(frames'[j + 1], "remove", kept[x][p].key)
      BY <1>4 DEF ClearedIsTold
    <3>2. j = b + 1
      BY <1>5, <1>10, <1>11, <1>12, <1>15, <1>17, <3>1
    <3>3. PICK i \in DOMAIN s : s[i].new.key = kept[x][p].key
      <4>1. ~(b + 1 < Len(frames)) /\ b + 1 \in DOMAIN frames
        BY <1>5
      <4>. QED
        BY <1>6, <1>7, <2>1, <4>1 DEF KeysMirror, ClearedIsTold
    <3>4. i = 1
      <4>1. frames'[j].events = Tail(s)
        BY <1>9, <1>11, <3>2
      <4>2. CASE i # 1
        <5>1. i - 1 \in DOMAIN Tail(s) /\ Tail(s)[i - 1] = s[i]
          BY <1>8, <4>2
        <5>. QED
          BY <3>1, <3>3, <4>1, <5>1
      <4>. QED
        BY <4>2
    <3>5. j + 1 = b + 2 /\ j < Len(frames')
      BY <1>5, <1>12, <3>2
    <3>. QED
      BY <1>7, <1>8, <1>10, <1>11, <3>3, <3>4, <3>5 DEF Untold, Told, Tells
  <2>6. ErasedIsTold(x)'
    <3>1. \A i \in DOMAIN frames' : frames'[i].do # "erase"
      BY <1>5, <1>9, <1>10, <1>11, <1>12, <1>15, <1>17
    <3>. QED
      BY <3>1 DEF ErasedIsTold
  <2>. QED
    BY <2>3, <2>4, <2>5, <2>6 DEF KeysMirror
<1>. QED
  BY <1>4, <1>13, <1>14, <1>16, <1>17, KeysGoOn

LEMMA UserReturnsKeepsInv ==
    ASSUME KeysInv, kind # "list", UserReturns, ~broken', ~crossed'
    PROVE  KeysInv'
<1>1. ViewTypes /\ KeyTypes
  BY DEF KeysInv
<1>2. PICK b : b = Len(frames) - 1
  OBVIOUS
<1>3. /\ UNCHANGED <<kind, elements, made, watchers, subscribed, ended, kept>>
      /\ frames' = Outer /\ Inner.do = "user"
  BY DEF UserReturns, Doing
<1>4. /\ b \in Nat /\ b + 1 = Len(frames) /\ DOMAIN frames = 1 .. b + 1
      /\ Inner = frames[b + 1]
      /\ GoOn(b) /\ DOMAIN frames' = 1 .. b
  <2>1. /\ b \in Nat /\ b + 1 = Len(frames) /\ DOMAIN frames = 1 .. b + 1
        /\ Inner = frames[b + 1]
    BY <1>1, <1>2, <1>3, InnerGoes
  <2>2. GoOn(b) /\ DOMAIN frames' = 1 .. b
    BY <1>1, <1>2, <1>3, InnerLeaves
  <2>. QED
    BY <2>1, <2>2
<1>5. /\ b \in 0 .. Len(frames) /\ b <= Len(frames') /\ frames' \in Seq(ViewFrames)
      /\ Len(frames') = b /\ \A i \in 1 .. b : frames'[i] = frames[i]
      /\ \A i \in DOMAIN frames : i \in 1 .. b \/ frames[i].do = "user"
      /\ frames[Len(frames)].do = "user" /\ b = Len(frames) - 1
  BY <1>2, <1>3, <1>4 DEF GoOn
<1>6. ViewTypes' /\ KeyTypes'
  BY <1>1, <1>3, <1>4, <1>5, OnlyCallsChange
<1>7. Fatal => Fatal'
  BY <1>1, <1>3, <1>5, FatalStays DEF WillDrop
<1>8. ASSUME Ordered PROVE Ordered'
  <2>1. \A j \in 1 .. b : frames[j].do = "erase" => HasKey(elements', frames[j].key)
    BY <1>3, <1>4, <1>8 DEF Ordered, ErasedOnce
  <2>2. ~(b < Len(frames'))
    BY <1>4, <1>5
  <2>. QED
    BY <1>1, <1>3, <1>4, <1>8, <2>1, <2>2, OrderStays
<1>9. ASSUME NEW x \in subscribed \ ended, ~Fatal, Ordered, ~Late(x)' PROVE KeysMirror(x)'
  <2>1. KeysMirror(x)
    <3>1. ~Brings(frames[Len(frames)], x, watchers)
      BY <1>5 DEF Brings, Untold
    <3>2. ~Late(x)
      BY <1>1, <1>3, <1>5, <1>9, <3>1, LateStays
    <3>. QED
      BY <1>9, <3>2 DEF KeysInv
  <2>2. \A i \in DOMAIN frames : i \in 1 .. b \/
           /\ ~Renews(frames[i], x, watchers) /\ ~Untold(frames[i], x, watchers)
           /\ \A p, k : ~Promises(frames[i], x, watchers, p, k)
    BY <1>5 DEF Renews, Untold, Promises, Brings, Reports, ErasesKey
  <2>3. KeptIsThere(x)'
    BY <1>1, <1>3, <1>4, <2>1, <2>2, KeptStays DEF KeysMirror
  <2>4. ThereIsKept(x)'
    BY <1>1, <1>3, <1>4, <2>1, <2>2, ThereStays DEF KeysMirror
  <2>5. ClearedIsTold(x)' /\ ErasedIsTold(x)'
    <3>1. \A k : HasKey(kept'[x], k) => HasKey(kept[x], k)
      BY <1>3
    <3>2. ~Untold(frames[b + 1], x, watchers)
      BY <1>4, <2>2
    <3>3. RemovalsAreFired
      BY <1>9 DEF Ordered
    <3>. QED
      BY <1>1, <1>4, <2>1, <3>1, <3>2, <3>3, ToldStays DEF KeysMirror
  <2>. QED
    BY <2>3, <2>4, <2>5 DEF KeysMirror
<1>. QED
  BY <1>3, <1>6, <1>7, <1>8, <1>9, KeysGoOn

LEMMA EndWatchKeepsInv ==
    ASSUME KeysInv, NEW x \in Watchers, EndWatch(x)
    PROVE  KeysInv'
<1>1. /\ UNCHANGED <<kind, elements, made, watchers, subscribed, kept, frames>>
      /\ ended' = ended \union {x}
  BY DEF EndWatch
<1>2. ViewTypes'
  BY <1>1 DEF KeysInv, ViewTypes, IsKnown, Listed
<1>3. KeyTypes'
  BY <1>1 DEF KeysInv, KeyTypes, IsKeyed, Listed
<1>4. (Fatal' <=> Fatal) /\ (Ordered' <=> Ordered)
  BY <1>1 DEF Fatal, Holds, Ordered, RemovalsAreFired, ClearsAlone, ErasedOnce, ReportsAlone
<1>5. \A y \in subscribed \ ended : (Late(y)' <=> Late(y)) /\ (KeysMirror(y)' <=> KeysMirror(y))
  BY <1>1 DEF Late, KeysMirror, KeptIsThere, ThereIsKept, ClearedIsTold, ErasedIsTold
<1>. QED
  BY <1>1, <1>2, <1>3, <1>4, <1>5 DEF KeysInv

-----------------------------------------------------------------------------
(***************************************************************************)
(* Maps and sets: an event is delivered                                     *)
(***************************************************************************)

\* An event that has been handed to one more.
LEMMA FireAdvances ==
    ASSUME ViewTypes, NEW f \in ViewFrames, f.do = "fire", f.next <= Len(watchers),
           NEW g, g = [f EXCEPT !.next = @ + 1]
    PROVE  /\ g \in ViewFrames /\ g.do = "fire" /\ g.event = f.event /\ IsKnown(g)
           /\ f.next \in DOMAIN watchers
           /\ \A x : Told(g, x, watchers) <=> Told(f, x, watchers) \/ x = watchers[f.next]
           /\ Untold(f, watchers[f.next], watchers)
<1>1. /\ g \in ViewFrames /\ g.do = "fire" /\ g.event = f.event /\ g.next = f.next + 1
  BY ONLY f \in ViewFrames, f.do = "fire", g = [f EXCEPT !.next = @ + 1], GoesOn
<1>2. f.next \in Nat \ {0}
  BY ViewFrameFields
<1>3. watchers \in Seq(Watchers) /\ \A i, j \in DOMAIN watchers : watchers[i] = watchers[j] => i = j
  BY DEF ViewTypes
<1>4. f.next \in DOMAIN watchers /\ DOMAIN watchers = 1 .. Len(watchers) /\ Len(watchers) \in Nat
  BY <1>2, <1>3
<1>5. IsKnown(g)
  BY <1>1, <1>2, <1>4 DEF IsKnown
<1>6. \A x : Told(g, x, watchers) <=> Told(f, x, watchers) \/ x = watchers[f.next]
  <2>1. 1 .. g.next - 1 = (1 .. f.next - 1) \union {f.next}
    BY <1>1, <1>2
  <2>. QED
    BY <2>1 DEF Told
<1>7. Untold(f, watchers[f.next], watchers)
  <2>1. \A i \in 1 .. f.next - 1 : i \in DOMAIN watchers /\ i # f.next
    BY <1>2, <1>4
  <2>. QED
    BY <1>3, <1>4, <2>1 DEF Untold, Told
<1>. QED
  BY <1>1, <1>4, <1>5, <1>6, <1>7

\* An event is handed to one: what this is to all others.
LEMMA Delivers ==
    ASSUME ViewTypes, KeyTypes, UNCHANGED <<kind, elements, made, watchers, subscribed, ended>>,
           NEW b, b + 1 = Len(frames), GoOn(b), b < Len(frames'),
           frames[b + 1].do = "fire", frames'[b + 1].do = "fire",
           frames'[b + 1].event = frames[b + 1].event, IsKnown(frames'[b + 1]),
           NEW y \in subscribed,
           \A x : Told(frames'[b + 1], x, watchers) <=> Told(frames[b + 1], x, watchers) \/ x = y,
           \A i \in DOMAIN frames' :
              \/ i \in 1 .. b + 1 \/ frames'[i].do = "user"
              \/ /\ frames'[i].do = "addTo" /\ frames'[i].of = y
                 /\ frames'[i].event = frames[b + 1].event /\ frames[b + 1].event.op = "update",
           kept' \in [Watchers -> Seq(Items)], \A x \in Watchers : KeyedOnce(kept'[x]),
           \A x \in Watchers : x # y => kept'[x] = kept[x]
    PROVE  /\ ViewTypes' /\ KeyTypes' /\ (Fatal => Fatal') /\ (Ordered => Ordered')
           /\ \A x \in Watchers : Late(x) /\ x # y => Late(x)'
           /\ \A x \in Watchers : Ordered /\ KeysMirror(x) /\ x # y => KeysMirror(x)'
<1>1. b \in Nat /\ b + 1 = Len(frames) /\ DOMAIN frames = 1 .. b + 1 /\ b = Len(frames) - 1
  BY DEF GoOn, ViewTypes
<1>2. /\ b \in 0 .. Len(frames) /\ b <= Len(frames') /\ frames' \in Seq(ViewFrames)
      /\ \A i \in 1 .. b : frames'[i] = frames[i]
      /\ Len(frames') \in Nat /\ DOMAIN frames' = 1 .. Len(frames') /\ b + 1 \in DOMAIN frames'
  BY <1>1, GoingOn DEF GoOn
<1>3. PICK f, g : f = frames[b + 1] /\ g = frames'[b + 1]
  OBVIOUS
<1>4. /\ f \in ViewFrames /\ f = frames[b + 1] /\ f.do = "fire"
      /\ g \in ViewFrames /\ g = frames'[b + 1] /\ g.do = "fire"
      /\ g.event = f.event /\ IsKnown(g)
      /\ \A x : Told(g, x, watchers) <=> Told(f, x, watchers) \/ x = y
      /\ \A x : x # y => (Untold(g, x, watchers) <=> Untold(f, x, watchers))
  <2>1. f \in ViewFrames /\ g \in ViewFrames
    BY <1>1, <1>2, <1>3 DEF ViewTypes
  <2>. QED
    BY <1>3, <2>1 DEF Untold
<1>5. \A i \in DOMAIN frames : i \in 1 .. b \/ i = b + 1
  BY <1>1, <1>4
<1>6. \A i \in DOMAIN frames' : i \in 1 .. b \/ i = b + 1 \/ frames'[i].do = "user"
         \/ /\ frames'[i].do = "addTo" /\ frames'[i].of = y
            /\ frames'[i].event = f.event /\ f.event.op = "update"
  BY <1>1, <1>2, <1>4
<1>7. IsKeyed(f)
  BY <1>1, <1>4 DEF KeyTypes
<1>8. ViewTypes'
  <2>1. made' \in Nat /\ elements' \in Seq(Items)
    BY <1>4 DEF ViewTypes
  <2>2. \A x \in Watchers \ subscribed : kept'[x] = <<>>
    BY <1>4 DEF ViewTypes
  <2>3. \A i \in DOMAIN frames' : i \in 1 .. b \/ (IsKnown(frames'[i]) /\ frames'[i].do # "replay")
    BY <1>4, <1>6 DEF IsKnown
  <2>. QED
    BY <1>2, <1>4, <2>1, <2>2, <2>3, TypesGoOn
<1>9. KeyTypes'
  <2>1. /\ made' \in Nat /\ made <= made' /\ KeyedOnce(elements')
        /\ \A i \in DOMAIN elements' : elements'[i].key \in ItemKeys /\ elements'[i].stamp <= made'
    BY <1>4 DEF ViewTypes, KeyTypes
  <2>2. \A i \in DOMAIN frames' : i \in 1 .. b \/ IsKeyed(frames[i])'
    BY <1>4, <1>6, <1>7 DEF IsKeyed
  <2>3. \A i \in DOMAIN frames : i \in 1 .. b \/ frames[i].do # "replay"
    BY <1>1, <1>4, <1>5
  <2>. QED
    BY <1>2, <1>4, <2>1, <2>2, <2>3, KeyTypesGoOn
<1>10. Fatal => Fatal'
  <2>1. ~WillDrop(frames[Len(frames)]) /\ b = Len(frames) - 1
    BY <1>1, <1>4 DEF WillDrop
  <2>. QED
    BY <1>2, <1>4, <2>1, FatalStays
<1>11. ASSUME Ordered PROVE Ordered'
  <2>1. \A j \in 1 .. b : frames[j].do = "erase" => HasKey(elements', frames[j].key)
    BY <1>1, <1>4, <1>11 DEF Ordered, ErasedOnce
  <2>2. ASSUME f.event.op # "remove"
        PROVE  /\ \A j \in 1 .. b : frames[j].do # "clear"
               /\ \A j \in 1 .. b : ~ErasesKey(frames[j], f.event.new.key)
    <3>1. \A j \in 1 .. b : /\ j \in DOMAIN frames /\ b + 1 \in j + 1 .. Len(frames)
                            /\ b + 1 \in DOMAIN frames /\ j \in 1 .. (b + 1) - 1
      BY <1>1, <1>4
    <3>2. \A j \in 1 .. b : frames[j].do # "clear"
      BY <1>1, <1>4, <1>11, <2>2, <3>1 DEF Ordered, ClearsAlone
    <3>3. \A j \in 1 .. b : ~ErasesKey(frames[j], f.event.new.key)
      BY <1>1, <1>4, <1>11, <2>2, <3>1 DEF Ordered, ErasedOnce, ErasesKey
    <3>. QED
      BY <1>4, <3>2, <3>3
  <2>3. \A i \in DOMAIN frames' : i \in 1 .. b \/
           \/ frames'[i].do = "user"
           \/ /\ frames'[i].do = "fire" /\ i = b + 1 /\ b < Len(frames)
              /\ frames[i].do = "fire" /\ frames'[i].event = frames[i].event
           \/ /\ frames'[i].do = "addTo" /\ \A j \in 1 .. b : frames[j].do # "clear"
              /\ \A j \in 1 .. b : ~ErasesKey(frames[j], frames'[i].event.new.key)
    <3>1. SUFFICES ASSUME NEW i \in DOMAIN frames', i \notin 1 .. b
                   PROVE  \/ frames'[i].do = "user"
                          \/ /\ frames'[i].do = "fire" /\ i = b + 1 /\ b < Len(frames)
                             /\ frames[i].do = "fire" /\ frames'[i].event = frames[i].event
                          \/ /\ frames'[i].do = "addTo" /\ \A j \in 1 .. b : frames[j].do # "clear"
                             /\ \A j \in 1 .. b : ~ErasesKey(frames[j], frames'[i].event.new.key)
      BY <1>4
    <3>2. CASE i = b + 1
      BY <1>1, <1>4, <3>2
    <3>3. CASE frames'[i].do = "user"
      BY <1>4, <3>3
    <3>4. CASE frames'[i].do = "addTo" /\ frames'[i].event = f.event /\ f.event.op = "update"
      BY <1>4, <2>2, <3>4
    <3>. QED
      BY <1>4, <1>6, <3>1, <3>2, <3>3, <3>4
  <2>4. frames'[b + 1].do = "fire"
    BY <1>4
  <2>. QED
    BY <1>4, <1>11, <2>1, <2>3, <2>4, OrderStays
<1>12. ASSUME NEW x \in Watchers, Late(x), x # y PROVE Late(x)'
  <2>1. Brings(f, x, watchers) => Brings(g, x, watchers)
    BY <1>4, <1>12 DEF Brings
  <2>2. Brings(frames[Len(frames)], x, watchers) =>
          \E i \in DOMAIN frames' : /\ Brings(frames'[i], x, watchers')
                                    /\ frames'[i].event = frames[Len(frames)].event
    BY <1>1, <1>2, <1>4, <2>1
  <2>3. \A v : v.stamp <= made /\ v \notin ToSet(elements) => v \notin ToSet(elements')
    BY <1>4
  <2>. QED
    BY <1>2, <1>4, <1>12, <2>2, <2>3, LateStays
<1>13. ASSUME NEW x \in Watchers, Ordered, KeysMirror(x), x # y PROVE KeysMirror(x)'
  <2>1. kept'[x] = kept[x] /\ (Untold(g, x, watchers) <=> Untold(f, x, watchers))
    BY <1>4, <1>13
  <2>2. KeptIsThere(x)'
    <3>1. \A i \in DOMAIN frames : i \in 1 .. b \/
            (Renews(frames[i], x, watchers) =>
               \E j \in DOMAIN frames' : /\ Renews(frames'[j], x, watchers')
                                         /\ frames'[j].event.new.key = frames[i].event.new.key)
      BY <1>1, <1>2, <1>4, <1>5, <2>1 DEF Renews
    <3>. QED
      BY <1>4, <1>13, <2>1, <3>1, KeptStays DEF KeysMirror
  <2>3. ThereIsKept(x)'
    <3>1. \A q, p, k : Promises(f, x, watchers, q, k) => Promises(g, x, watchers, p, k)
      BY <1>4, <2>1 DEF Promises, Brings, Reports, ErasesKey
    <3>2. \A i \in DOMAIN frames : i \in 1 .. b \/
             \A q \in DOMAIN elements, p \in DOMAIN elements' :
                /\ elements[q].key = elements'[p].key
                /\ Promises(frames[i], x, watchers, q, elements[q].key)
                => \E j \in DOMAIN frames' : Promises(frames'[j], x, watchers', p, elements'[p].key)
      BY <1>1, <1>2, <1>4, <1>5, <3>1
    <3>. QED
      BY <1>4, <1>13, <2>1, <3>2, ThereStays DEF KeysMirror
  <2>4. ClearedIsTold(x)' /\ ErasedIsTold(x)'
    <3>1. \A j \in DOMAIN frames' : j \in 1 .. b \/ (frames'[j].do # "clear" /\ frames'[j].do # "erase")
      BY <1>4, <1>6
    <3>2. \A k : HasKey(kept'[x], k) => HasKey(kept[x], k)
      BY <1>4, <2>1
    <3>3. Untold(frames[b + 1], x, watchers) =>
             /\ b < Len(frames') /\ Untold(frames'[b + 1], x, watchers')
             /\ frames'[b + 1].event = frames[b + 1].event
      BY <1>1, <1>4, <2>1
    <3>4. RemovalsAreFired
      BY <1>4, <1>13 DEF Ordered
    <3>. QED
      BY <1>4, <1>13, <3>1, <3>2, <3>3, <3>4, ToldStays DEF KeysMirror
  <2>. QED
    BY <1>4, <2>2, <2>3, <2>4 DEF KeysMirror
<1>. QED
  BY <1>4, <1>8, <1>9, <1>10, <1>11, <1>12, <1>13

LEMMA FireAtWork ==
    ASSUME ViewTypes, Inner.do = "fire", Inner.next <= Len(watchers),
           NEW b, b = Len(frames) - 1, NEW g, g = [Inner EXCEPT !.next = @ + 1],
           NEW y, y = watchers[Inner.next]
    PROVE  /\ b \in Nat /\ b + 1 = Len(frames) /\ DOMAIN frames = 1 .. b + 1
           /\ frames[b + 1] = Inner /\ Inner \in ViewFrames /\ Inner.event \in ViewEvents
           /\ g \in ViewFrames /\ g.do = "fire" /\ g.event = Inner.event /\ IsKnown(g)
           /\ \A x : Told(g, x, watchers) <=> Told(Inner, x, watchers) \/ x = y
           /\ y \in subscribed /\ y \in Watchers
           /\ Untold(Inner, y, watchers) /\ ~Untold(g, y, watchers)
<1>1. /\ b \in Nat /\ b + 1 = Len(frames) /\ DOMAIN frames = 1 .. b + 1
      /\ frames[b + 1] = Inner /\ Inner \in ViewFrames
  BY InnerGoes
<1>2. Inner.event \in ViewEvents
  BY <1>1, ViewFrameFields
<1>3. PICK f : f = Inner
  OBVIOUS
<1>4. /\ g \in ViewFrames /\ g.do = "fire" /\ g.event = f.event /\ IsKnown(g)
      /\ f.next \in DOMAIN watchers
      /\ \A x : Told(g, x, watchers) <=> Told(f, x, watchers) \/ x = watchers[f.next]
      /\ Untold(f, watchers[f.next], watchers)
  <2>1. f \in ViewFrames /\ f.do = "fire" /\ f.next <= Len(watchers) /\ g = [f EXCEPT !.next = @ + 1]
    BY <1>1, <1>3
  <2>. QED
    BY ONLY <2>1, ViewTypes, FireAdvances
<1>5. /\ y = watchers[f.next] /\ y \in subscribed /\ y \in Watchers
  BY <1>3, <1>4 DEF ViewTypes
<1>6. ~Untold(g, y, watchers)
  BY <1>4, <1>5 DEF Untold
<1>. QED
  BY <1>1, <1>2, <1>3, <1>4, <1>5, <1>6

\* The handler of a new element, of a map and of a set.
LEMMA KeyAddedTo ==
    ASSUME ViewTypes, KeyTypes, kind # "list", NEW x \in Watchers, NEW ev \in ViewEvents,
           NEW outer, AddTo(x, ev, outer), ~broken'
    PROVE  /\ x \notin ended /\ ev.new \in ToSet(elements)
           /\ frames' = outer \/ frames' = Append(outer, User)
           /\ kept' \in [Watchers -> Seq(Items)] /\ \A z \in Watchers : KeyedOnce(kept'[z])
           /\ \A z \in Watchers : z # x => kept'[z] = kept[z]
           /\ HasKey(kept'[x], ev.new.key)
           /\ \A p \in DOMAIN kept'[x] :
                 kept'[x][p] = ev.new \/ \E q \in DOMAIN kept[x] : kept[x][q] = kept'[x][p]
           /\ \A k : HasKey(kept[x], k) => HasKey(kept'[x], k)
           /\ \A k : HasKey(kept'[x], k) => HasKey(kept[x], k) \/ k = ev.new.key
<1>1. kind \in {"map", "set"}
  BY DEF ViewTypes
<1>2. /\ x \notin ended /\ ev.new \in ToSet(elements)
      /\ \/ HasKey(kept[x], ev.new.key) /\ kept' = kept /\ frames' = outer
         \/ /\ ~HasKey(kept[x], ev.new.key) /\ frames' = Append(outer, User)
            /\ kept' = [kept EXCEPT ![x] = Append(@, ev.new)]
  BY <1>1 DEF AddTo
<1>3. kept \in [Watchers -> Seq(Items)] /\ \A z \in Watchers : KeyedOnce(kept[z])
  BY DEF ViewTypes, KeyTypes
<1>4. CASE HasKey(kept[x], ev.new.key) /\ kept' = kept /\ frames' = outer
  <2>1. /\ kept' \in [Watchers -> Seq(Items)] /\ (\A z \in Watchers : KeyedOnce(kept'[z]))
        /\ kept'[x] = kept[x]
    BY <1>3, <1>4
  <2>. QED
    BY <1>2, <1>4, <2>1
<1>5. CASE /\ ~HasKey(kept[x], ev.new.key) /\ frames' = Append(outer, User)
           /\ kept' = [kept EXCEPT ![x] = Append(@, ev.new)]
  <2>1. PICK s, v : s = kept[x] /\ v = ev.new
    OBVIOUS
  <2>2. s \in Seq(Items) /\ KeyedOnce(s) /\ v \in Items /\ ~HasKey(s, v.key)
    BY <1>3, <1>5, <2>1 DEF ViewEvents
  <2>3. PICK t : t = Append(s, v)
    OBVIOUS
  <2>4. /\ t \in Seq(Items) /\ KeyedOnce(t) /\ HasKey(t, v.key)
        /\ Len(s) \in Nat /\ DOMAIN s = 1 .. Len(s) /\ DOMAIN t = 1 .. Len(s) + 1
        /\ \A i \in DOMAIN s : t[i] = s[i]
        /\ t[Len(s) + 1] = v
        /\ \A k : HasKey(s, k) => HasKey(t, k)
    BY ONLY <2>2, <2>3, KeyAppended
  <2>5. kept'[x] = t /\ \A z \in Watchers : z # x => kept'[z] = kept[z]
    BY <1>3, <1>5, <2>1, <2>3
  <2>6. kept' \in [Watchers -> Seq(Items)]
    BY <1>3, <1>5, <2>1, <2>3, <2>4
  <2>7. \A z \in Watchers : KeyedOnce(kept'[z])
    <3>1. SUFFICES ASSUME NEW z \in Watchers PROVE KeyedOnce(kept'[z])
      OBVIOUS
    <3>2. CASE z = x
      BY ONLY <2>4, <2>5, <3>2
    <3>3. CASE z # x
      BY ONLY <1>3, <2>5, <3>1, <3>3
    <3>. QED
      BY <3>2, <3>3
  <2>8. \A p \in DOMAIN t : t[p] = v \/ \E q \in DOMAIN s : s[q] = t[p]
    <3>1. \A p \in DOMAIN t : p \in DOMAIN s \/ p = Len(s) + 1
      BY <2>4
    <3>. QED
      BY <2>4, <3>1
  <2>9. \A k : HasKey(t, k) => HasKey(s, k) \/ k = v.key
    BY <2>8 DEF HasKey
  <2>10. /\ \A p \in DOMAIN kept'[x] :
               kept'[x][p] = ev.new \/ \E q \in DOMAIN kept[x] : kept[x][q] = kept'[x][p]
         /\ \A k : HasKey(kept'[x], k) => HasKey(kept[x], k) \/ k = ev.new.key
    BY ONLY <2>1, <2>5, <2>8, <2>9
  <2>11. HasKey(kept'[x], ev.new.key) /\ \A k : HasKey(kept[x], k) => HasKey(kept'[x], k)
    BY ONLY <2>1, <2>4, <2>5
  <2>. QED
    BY ONLY <1>2, <1>5, <2>5, <2>6, <2>7, <2>10, <2>11
<1>. QED
  BY <1>2, <1>4, <1>5

\* The handler of an element that goes.
LEMMA KeyTakenFrom ==
    ASSUME ViewTypes, KeyTypes, kind # "list", NEW x \in Watchers, NEW ev \in ViewEvents,
           ev.old.key = ev.new.key, NEW outer, RemoveOf(x, ev, outer), ~broken'
    PROVE  /\ frames' = Append(outer, User)
           /\ kept' \in [Watchers -> Seq(Items)] /\ \A z \in Watchers : KeyedOnce(kept'[z])
           /\ \A z \in Watchers : z # x => kept'[z] = kept[z]
           /\ HasKey(kept[x], ev.new.key) /\ ~HasKey(kept'[x], ev.new.key)
           /\ \A p \in DOMAIN kept'[x] : \E q \in DOMAIN kept[x] : kept[x][q] = kept'[x][p]
           /\ \A k : HasKey(kept[x], k) => HasKey(kept'[x], k) \/ k = ev.new.key
           /\ \A k : HasKey(kept'[x], k) => HasKey(kept[x], k)
<1>1. PICK s, k : s = kept[x] /\ k = ev.new.key
  OBVIOUS
<1>2. PICK t : t = RemoveAt(s, Position(s, k))
  OBVIOUS
<1>3. HasKey(s, k) /\ frames' = Append(outer, User) /\ kept' = [kept EXCEPT ![x] = t]
  BY <1>1, <1>2 DEF RemoveOf
<1>4. /\ kept \in [Watchers -> Seq(Items)] /\ (\A z \in Watchers : KeyedOnce(kept[z]))
      /\ s \in Seq(Items) /\ KeyedOnce(s)
  BY <1>1 DEF ViewTypes, KeyTypes
<1>5. /\ t \in Seq(Items) /\ KeyedOnce(t) /\ ~HasKey(t, k)
      /\ \A i \in DOMAIN t : \E j \in DOMAIN s : t[i] = s[j] /\ s[j].key # k
      /\ \A j \in DOMAIN s : s[j].key # k => \E i \in DOMAIN t : t[i] = s[j]
  BY ONLY <1>2, <1>3, <1>4, KeyTaken
<1>6. kept'[x] = t /\ \A z \in Watchers : z # x => kept'[z] = kept[z]
  BY <1>3, <1>4
<1>7. kept' \in [Watchers -> Seq(Items)]
  BY <1>3, <1>4, <1>5
<1>8. \A z \in Watchers : KeyedOnce(kept'[z])
  <2>1. SUFFICES ASSUME NEW z \in Watchers PROVE KeyedOnce(kept'[z])
    OBVIOUS
  <2>2. CASE z = x
    BY ONLY <1>5, <1>6, <2>2
  <2>3. CASE z # x
    BY ONLY <1>4, <1>6, <2>1, <2>3
  <2>. QED
    BY <2>2, <2>3
<1>9. /\ \A c : HasKey(s, c) => HasKey(t, c) \/ c = k
      /\ \A c : HasKey(t, c) => HasKey(s, c)
  BY <1>5 DEF HasKey
<1>10. \A p \in DOMAIN t : \E q \in DOMAIN s : s[q] = t[p]
  BY <1>5
<1>. QED
  BY ONLY <1>1, <1>3, <1>5, <1>6, <1>7, <1>8, <1>9, <1>10

LEMMA DeliverEndsKeepsInv ==
    ASSUME KeysInv, kind # "list", Deliver, Inner.next > Len(watchers), ~broken', ~crossed'
    PROVE  KeysInv'
<1>1. ViewTypes /\ KeyTypes
  BY DEF KeysInv
<1>2. PICK b : b = Len(frames) - 1
  OBVIOUS
<1>3. /\ UNCHANGED <<kind, elements, made, watchers, subscribed, ended, kept>>
      /\ frames' = Outer /\ Inner.do = "fire"
  BY DEF Deliver, Doing
<1>4. /\ b \in Nat /\ b + 1 = Len(frames) /\ DOMAIN frames = 1 .. b + 1
      /\ Inner = frames[b + 1] /\ Inner \in ViewFrames
      /\ GoOn(b) /\ DOMAIN frames' = 1 .. b
  <2>1. /\ b \in Nat /\ b + 1 = Len(frames) /\ DOMAIN frames = 1 .. b + 1
        /\ Inner = frames[b + 1] /\ Inner \in ViewFrames
    BY <1>1, <1>2, <1>3, InnerGoes
  <2>2. GoOn(b) /\ DOMAIN frames' = 1 .. b
    BY <1>1, <1>2, <1>3, InnerLeaves
  <2>. QED
    BY <2>1, <2>2
<1>5. /\ b \in 0 .. Len(frames) /\ b <= Len(frames') /\ frames' \in Seq(ViewFrames)
      /\ Len(frames') = b /\ \A i \in 1 .. b : frames'[i] = frames[i]
      /\ \A i \in DOMAIN frames : i \in 1 .. b \/ frames[i].do = "fire"
      /\ frames[Len(frames)].do = "fire" /\ b = Len(frames) - 1
  BY <1>2, <1>3, <1>4 DEF GoOn
<1>6. ViewTypes' /\ KeyTypes'
  BY <1>1, <1>3, <1>4, <1>5, OnlyCallsChange
<1>7. Fatal => Fatal'
  BY <1>1, <1>3, <1>5, FatalStays DEF WillDrop
<1>8. ASSUME Ordered PROVE Ordered'
  <2>1. \A j \in 1 .. b : frames[j].do = "erase" => HasKey(elements', frames[j].key)
    BY <1>3, <1>4, <1>8 DEF Ordered, ErasedOnce
  <2>2. ~(b < Len(frames'))
    BY <1>4, <1>5
  <2>. QED
    BY <1>1, <1>3, <1>4, <1>8, <2>1, <2>2, OrderStays
<1>9. ASSUME NEW x \in subscribed \ ended, Ordered PROVE ~Untold(frames[b + 1], x, watchers)
  <2>1. Listed(x)
    <3>1. SUFFICES ASSUME ~Listed(x) PROVE FALSE
      OBVIOUS
    <3>2. kind = "set" /\ \E i \in DOMAIN frames : Reports(frames[i], x)
      BY <1>1, <1>9, <3>1 DEF KeyTypes, ViewTypes
    <3>3. PICK i \in 1 .. b : frames[i].do = "replay"
      BY <1>5, <3>2 DEF Reports
    <3>4. i \in 1 .. (b + 1) - 1 /\ b + 1 \in DOMAIN frames
      BY <1>4, <3>3
    <3>. QED
      BY <1>3, <1>4, <1>9, <3>2, <3>3, <3>4 DEF Ordered, ReportsAlone
  <2>2. IsKnown(frames[b + 1]) /\ frames[b + 1].next \in Nat
    <3>1. frames[b + 1] \in ViewFrames /\ frames[b + 1].do = "fire"
      BY <1>3, <1>4
    <3>2. frames[b + 1].next \in Nat
      BY ONLY <3>1, ViewFrameFields
    <3>. QED
      BY <1>1, <1>4, <3>2 DEF ViewTypes
  <2>3. PICK i \in DOMAIN watchers : watchers[i] = x
    BY <2>1 DEF Listed
  <2>4. Len(watchers) \in Nat /\ DOMAIN watchers = 1 .. Len(watchers)
    BY <1>1 DEF ViewTypes
  <2>5. i \in 1 .. frames[b + 1].next - 1
    BY <1>4, <2>2, <2>3, <2>4
  <2>. QED
    BY <2>3, <2>5 DEF Untold, Told
<1>10. ASSUME NEW x \in subscribed \ ended, ~Fatal, Ordered, ~Late(x)' PROVE KeysMirror(x)'
  <2>1. ~Untold(frames[b + 1], x, watchers)
    BY <1>9, <1>10
  <2>2. KeysMirror(x)
    <3>1. ~Brings(frames[Len(frames)], x, watchers)
      BY <1>4, <1>5, <2>1 DEF Brings
    <3>2. ~Late(x)
      BY <1>1, <1>3, <1>5, <1>10, <3>1, LateStays
    <3>. QED
      BY <1>10, <3>2 DEF KeysInv
  <2>3. \A i \in DOMAIN frames : i \in 1 .. b \/
           /\ ~Renews(frames[i], x, watchers)
           /\ \A p, k : ~Promises(frames[i], x, watchers, p, k)
    <3>1. \A i \in DOMAIN frames : i \in 1 .. b \/ i = b + 1
      BY <1>4
    <3>2. ~Renews(frames[b + 1], x, watchers) /\ \A p, k : ~Promises(frames[b + 1], x, watchers, p, k)
      BY <1>3, <1>4, <2>1 DEF Renews, Promises, Brings, Reports, ErasesKey
    <3>. QED
      BY <3>1, <3>2
  <2>4. KeptIsThere(x)'
    BY <1>1, <1>3, <1>4, <2>2, <2>3, KeptStays DEF KeysMirror
  <2>5. ThereIsKept(x)'
    BY <1>1, <1>3, <1>4, <2>2, <2>3, ThereStays DEF KeysMirror
  <2>6. ClearedIsTold(x)' /\ ErasedIsTold(x)'
    <3>1. \A k : HasKey(kept'[x], k) => HasKey(kept[x], k)
      BY <1>3
    <3>2. RemovalsAreFired
      BY <1>10 DEF Ordered
    <3>. QED
      BY <1>1, <1>4, <2>1, <2>2, <3>1, <3>2, ToldStays DEF KeysMirror
  <2>. QED
    BY <2>4, <2>5, <2>6 DEF KeysMirror
<1>. QED
  BY <1>3, <1>6, <1>7, <1>8, <1>10, KeysGoOn

\* One whose lifetime has ended hears nothing.
LEMMA DeliverPastKeepsInv ==
    ASSUME KeysInv, kind # "list", Deliver, Inner.next <= Len(watchers),
           watchers[Inner.next] \in ended, ~broken', ~crossed'
    PROVE  KeysInv'
<1>1. ViewTypes /\ KeyTypes
  BY DEF KeysInv
<1>2. PICK b, f, g, y : /\ b = Len(frames) - 1 /\ f = Inner /\ g = [Inner EXCEPT !.next = @ + 1]
                        /\ y = watchers[Inner.next]
  OBVIOUS
<1>3. PICK ev : ev = f.event
  OBVIOUS
<1>4. /\ b \in Nat /\ b + 1 = Len(frames) /\ DOMAIN frames = 1 .. b + 1
      /\ frames[b + 1] = f /\ f \in ViewFrames /\ ev \in ViewEvents /\ f.do = "fire"
      /\ g \in ViewFrames /\ g.do = "fire" /\ g.event = ev /\ IsKnown(g)
      /\ \A x : Told(g, x, watchers) <=> Told(f, x, watchers) \/ x = y
      /\ y \in subscribed /\ y \in Watchers
      /\ Untold(f, y, watchers) /\ ~Untold(g, y, watchers)
  <2>1. Inner.do = "fire"
    BY DEF Deliver, Doing
  <2>2. /\ b \in Nat /\ b + 1 = Len(frames) /\ DOMAIN frames = 1 .. b + 1
        /\ frames[b + 1] = Inner /\ Inner \in ViewFrames /\ Inner.event \in ViewEvents
        /\ g \in ViewFrames /\ g.do = "fire" /\ g.event = Inner.event /\ IsKnown(g)
        /\ \A x : Told(g, x, watchers) <=> Told(Inner, x, watchers) \/ x = y
        /\ y \in subscribed /\ y \in Watchers
        /\ Untold(Inner, y, watchers) /\ ~Untold(g, y, watchers)
    BY <1>1, <1>2, <2>1, FireAtWork
  <2>3. f = Inner
    BY <1>2
  <2>. QED
    BY ONLY <1>3, <2>1, <2>2, <2>3
<1>5. /\ UNCHANGED <<kind, elements, made, watchers, subscribed, ended, kept>>
      /\ frames' = Append(Outer, g) /\ y \in ended
  <2>1. ~(Inner.next > Len(watchers))
    BY <1>1, <1>2, <1>4, ViewFrameFields DEF ViewTypes
  <2>. QED
    BY <1>2, <2>1 DEF Deliver
<1>6. GoOn(b) /\ DOMAIN frames' = 1 .. b + 1 /\ frames'[b + 1] = g /\ b < Len(frames')
  <2>1. GoOn(b) /\ DOMAIN frames' = 1 .. b + 1 /\ frames'[b + 1] = g
    BY <1>1, <1>2, <1>4, <1>5, InnerBecomesOne
  <2>. QED
    BY <1>4, <2>1 DEF GoOn
<1>7. kept' \in [Watchers -> Seq(Items)] /\ \A x \in Watchers : KeyedOnce(kept'[x])
  BY <1>1, <1>5 DEF ViewTypes, KeyTypes
<1>8. /\ ViewTypes' /\ KeyTypes' /\ (Fatal => Fatal') /\ (Ordered => Ordered')
      /\ \A x \in Watchers : Late(x) /\ x # y => Late(x)'
      /\ \A x \in Watchers : Ordered /\ KeysMirror(x) /\ x # y => KeysMirror(x)'
  <2>1. /\ frames[b + 1].do = "fire" /\ frames'[b + 1].do = "fire"
        /\ frames'[b + 1].event = frames[b + 1].event /\ IsKnown(frames'[b + 1])
        /\ \A x : Told(frames'[b + 1], x, watchers) <=> Told(frames[b + 1], x, watchers) \/ x = y
    BY <1>3, <1>4, <1>6
  <2>2. \A i \in DOMAIN frames' :
           \/ i \in 1 .. b + 1 \/ frames'[i].do = "user"
           \/ /\ frames'[i].do = "addTo" /\ frames'[i].of = y
              /\ frames'[i].event = frames[b + 1].event /\ frames[b + 1].event.op = "update"
    BY <1>3, <1>4, <1>5, <1>6
  <2>3. UNCHANGED <<kind, elements, made, watchers, subscribed, ended>>
    BY <1>5
  <2>4. b + 1 = Len(frames) /\ y \in subscribed /\ GoOn(b) /\ b < Len(frames')
    BY <1>4, <1>6
  <2>5. /\ kept' \in [Watchers -> Seq(Items)] /\ \A x \in Watchers : KeyedOnce(kept'[x])
        /\ \A x \in Watchers : x # y => kept'[x] = kept[x]
    BY <1>5, <1>7
  <2>. QED
    BY ONLY <1>1, <2>1, <2>2, <2>3, <2>4, <2>5, Delivers
<1>9. ASSUME NEW x \in subscribed \ ended, ~Fatal, Ordered, ~Late(x)' PROVE KeysMirror(x)'
  <2>1. x # y /\ x \in Watchers
    BY <1>1, <1>5, <1>9 DEF ViewTypes
  <2>2. ~Late(x)
    BY <1>8, <1>9, <2>1
  <2>3. KeysMirror(x)
    BY <1>9, <2>2 DEF KeysInv
  <2>. QED
    BY <1>8, <1>9, <2>1, <2>3
<1>. QED
  BY <1>5, <1>8, <1>9, KeysGoOn

LEMMA DeliverAddKeepsInv ==
    ASSUME KeysInv, kind # "list", Deliver, Inner.next <= Len(watchers),
           watchers[Inner.next] \notin ended, Inner.event.op = "add", ~broken', ~crossed'
    PROVE  KeysInv'
<1>1. ViewTypes /\ KeyTypes
  BY DEF KeysInv
<1>2. PICK b, f, g, y : /\ b = Len(frames) - 1 /\ f = Inner /\ g = [Inner EXCEPT !.next = @ + 1]
                        /\ y = watchers[Inner.next]
  OBVIOUS
<1>3. PICK ev : ev = f.event
  OBVIOUS
<1>4. /\ b \in Nat /\ b + 1 = Len(frames) /\ DOMAIN frames = 1 .. b + 1
      /\ frames[b + 1] = f /\ f \in ViewFrames /\ ev \in ViewEvents /\ f.do = "fire"
      /\ g \in ViewFrames /\ g.do = "fire" /\ g.event = ev /\ IsKnown(g)
      /\ \A x : Told(g, x, watchers) <=> Told(f, x, watchers) \/ x = y
      /\ y \in subscribed /\ y \in Watchers
      /\ Untold(f, y, watchers) /\ ~Untold(g, y, watchers)
  <2>1. Inner.do = "fire"
    BY DEF Deliver, Doing
  <2>2. /\ b \in Nat /\ b + 1 = Len(frames) /\ DOMAIN frames = 1 .. b + 1
        /\ frames[b + 1] = Inner /\ Inner \in ViewFrames /\ Inner.event \in ViewEvents
        /\ g \in ViewFrames /\ g.do = "fire" /\ g.event = Inner.event /\ IsKnown(g)
        /\ \A x : Told(g, x, watchers) <=> Told(Inner, x, watchers) \/ x = y
        /\ y \in subscribed /\ y \in Watchers
        /\ Untold(Inner, y, watchers) /\ ~Untold(g, y, watchers)
    BY <1>1, <1>2, <2>1, FireAtWork
  <2>3. f = Inner
    BY <1>2
  <2>. QED
    BY ONLY <1>3, <2>1, <2>2, <2>3
<1>5. /\ UNCHANGED <<kind, elements, made, watchers, subscribed, ended>>
      /\ AddTo(y, ev, Append(Outer, g)) /\ y \notin ended /\ ev.op = "add"
  <2>1. ~(Inner.next > Len(watchers))
    BY <1>1, <1>2, <1>4, ViewFrameFields DEF ViewTypes
  <2>. QED
    BY <1>2, <1>3, <2>1 DEF Deliver, HearsEvent
<1>6. /\ ev.new \in ToSet(elements)
      /\ frames' = Append(Outer, g) \/ frames' = Append(Append(Outer, g), User)
      /\ kept' \in [Watchers -> Seq(Items)] /\ \A x \in Watchers : KeyedOnce(kept'[x])
      /\ \A x \in Watchers : x # y => kept'[x] = kept[x]
      /\ HasKey(kept'[y], ev.new.key)
      /\ \A p \in DOMAIN kept'[y] :
            kept'[y][p] = ev.new \/ \E q \in DOMAIN kept[y] : kept[y][q] = kept'[y][p]
      /\ \A k : HasKey(kept[y], k) => HasKey(kept'[y], k)
      /\ \A k : HasKey(kept'[y], k) => HasKey(kept[y], k) \/ k = ev.new.key
  <2>1. y \in Watchers /\ ev \in ViewEvents /\ AddTo(y, ev, Append(Outer, g))
    BY <1>4, <1>5
  <2>. QED
    BY ONLY <1>1, <2>1, kind # "list", ~broken', KeyAddedTo
<1>7. /\ GoOn(b) /\ b < Len(frames') /\ frames'[b + 1] = g
      /\ \A i \in DOMAIN frames' : i \in 1 .. b + 1 \/ frames'[i].do = "user"
  <2>1. User \in ViewFrames /\ User.do = "user"
    BY ViewFramesAre
  <2>2. Inner.do # "none"
    BY <1>2, <1>4
  <2>3. CASE frames' = Append(Outer, g)
    <3>1. GoOn(b) /\ DOMAIN frames' = 1 .. b + 1 /\ frames'[b + 1] = g
      BY <1>1, <1>2, <1>4, <1>5, <2>2, <2>3, InnerBecomesOne
    <3>. QED
      BY <1>4, <3>1 DEF GoOn
  <2>4. CASE frames' = Append(Append(Outer, g), User)
    <3>1. GoOn(b) /\ DOMAIN frames' = 1 .. b + 2 /\ frames'[b + 1] = g /\ frames'[b + 2] = User
      <4>1. watchers' = watchers /\ b = Len(frames) - 1 /\ g \in ViewFrames
        BY <1>2, <1>4, <1>5
      <4>. QED
        BY ONLY <1>1, <2>1, <2>2, <2>4, <4>1, InnerBecomesTwo
    <3>. QED
      BY <1>4, <2>1, <3>1 DEF GoOn
  <2>. QED
    BY <1>6, <2>3, <2>4
<1>8. /\ ViewTypes' /\ KeyTypes' /\ (Fatal => Fatal') /\ (Ordered => Ordered')
      /\ \A x \in Watchers : Late(x) /\ x # y => Late(x)'
      /\ \A x \in Watchers : Ordered /\ KeysMirror(x) /\ x # y => KeysMirror(x)'
  <2>1. /\ frames[b + 1].do = "fire" /\ frames'[b + 1].do = "fire"
        /\ frames'[b + 1].event = frames[b + 1].event /\ IsKnown(frames'[b + 1])
        /\ \A x : Told(frames'[b + 1], x, watchers) <=> Told(frames[b + 1], x, watchers) \/ x = y
    BY <1>3, <1>4, <1>7
  <2>2. \A i \in DOMAIN frames' :
           \/ i \in 1 .. b + 1 \/ frames'[i].do = "user"
           \/ /\ frames'[i].do = "addTo" /\ frames'[i].of = y
              /\ frames'[i].event = frames[b + 1].event /\ frames[b + 1].event.op = "update"
    BY <1>3, <1>4, <1>5, <1>7
  <2>3. UNCHANGED <<kind, elements, made, watchers, subscribed, ended>>
    BY <1>5
  <2>4. b + 1 = Len(frames) /\ y \in subscribed /\ GoOn(b) /\ b < Len(frames')
    BY <1>4, <1>7
  <2>5. /\ kept' \in [Watchers -> Seq(Items)] /\ \A x \in Watchers : KeyedOnce(kept'[x])
        /\ \A x \in Watchers : x # y => kept'[x] = kept[x]
    BY <1>6
  <2>. QED
    BY ONLY <1>1, <2>1, <2>2, <2>3, <2>4, <2>5, Delivers
<1>9. /\ b \in 0 .. Len(frames) /\ b <= Len(frames') /\ frames' \in Seq(ViewFrames)
      /\ Len(frames') \in Nat /\ DOMAIN frames' = 1 .. Len(frames') /\ b + 1 \in DOMAIN frames'
      /\ (\A i \in 1 .. b : frames'[i] = frames[i])
      /\ frames[Len(frames)] = f /\ b = Len(frames) - 1
      /\ \A i \in DOMAIN frames : i \in 1 .. b \/ i = b + 1
  BY <1>1, <1>2, <1>4, <1>7, GoingOn DEF GoOn
<1>10. ASSUME ~Late(y)', ~Fatal, y \notin ended PROVE KeysMirror(y)
  <2>1. frames[Len(frames)].event.new \in ToSet(elements)
    BY <1>3, <1>6, <1>9
  <2>2. \A v : v.stamp <= made /\ v \notin ToSet(elements) => v \notin ToSet(elements')
    BY <1>5
  <2>3. ~Late(y)
    BY <1>1, <1>5, <1>9, <1>10, <2>1, <2>2, LateStays
  <2>. QED
    BY <1>4, <1>10, <2>3 DEF KeysInv
<1>11. ASSUME Ordered, KeysMirror(y) PROVE KeysMirror(y)'
  <2>1. KeptIsThere(y)'
    <3>1. \A p \in DOMAIN kept'[y] : \/ kept'[y][p] \in ToSet(elements')
                                     \/ \E q \in DOMAIN kept[y] : kept[y][q] = kept'[y][p]
      BY <1>5, <1>6
    <3>2. \A i \in DOMAIN frames : i \in 1 .. b \/ ~Renews(frames[i], y, watchers)
      BY <1>3, <1>4, <1>5, <1>9 DEF Renews
    <3>. QED
      BY <1>1, <1>5, <1>7, <1>11, <3>1, <3>2, KeptStays DEF KeysMirror
  <2>2. ThereIsKept(y)'
    <3>1. ASSUME NEW i \in DOMAIN frames, i \notin 1 .. b, NEW q, NEW k,
                 Promises(frames[i], y, watchers, q, k)
          PROVE  k = ev.new.key
      BY <1>3, <1>4, <1>9, <3>1 DEF Promises, Brings, Reports, ErasesKey
    <3>. QED
      BY <1>1, <1>5, <1>6, <1>7, <1>11, <3>1, ThereStays DEF KeysMirror
  <2>3. ClearedIsTold(y)' /\ ErasedIsTold(y)'
    <3>1. \A j \in DOMAIN frames' : j \in 1 .. b \/ (frames'[j].do # "clear" /\ frames'[j].do # "erase")
      <4>1. \A j \in DOMAIN frames' : j \in 1 .. b \/ j = b + 1 \/ frames'[j].do = "user"
        BY <1>4, <1>7, <1>9
      <4>. QED
        BY <1>4, <1>7, <4>1
    <3>2. \A j \in DOMAIN frames : frames[j].do # "clear" /\ ~ErasesKey(frames[j], ev.new.key)
      <4>1. \A j \in 1 .. b : /\ j \in DOMAIN frames /\ b + 1 \in j + 1 .. Len(frames)
                              /\ b + 1 \in DOMAIN frames /\ j \in 1 .. (b + 1) - 1
        BY <1>4
      <4>2. \A j \in 1 .. b : frames[j].do # "clear"
        BY <1>3, <1>4, <1>5, <1>11, <4>1 DEF Ordered, ClearsAlone
      <4>3. \A j \in 1 .. b : ~ErasesKey(frames[j], ev.new.key)
        BY <1>3, <1>4, <1>5, <1>11, <4>1 DEF Ordered, ErasedOnce, ErasesKey
      <4>. QED
        BY <1>4, <1>9, <4>2, <4>3 DEF ErasesKey
    <3>3. frames[b + 1].event.op # "remove" /\ RemovalsAreFired
      BY <1>3, <1>4, <1>5, <1>11 DEF Ordered
    <3>. QED
      BY <1>1, <1>6, <1>7, <1>11, <3>1, <3>2, <3>3, ToldStays DEF KeysMirror
  <2>. QED
    BY <2>1, <2>2, <2>3 DEF KeysMirror
<1>12. ASSUME ~Fatal, Ordered, ~Late(y)' PROVE KeysMirror(y)'
  BY <1>5, <1>10, <1>11, <1>12
<1>13. ASSUME NEW x \in subscribed \ ended, ~Fatal, Ordered, ~Late(x)' PROVE KeysMirror(x)'
  <2>1. x \in Watchers
    BY <1>1, <1>13 DEF ViewTypes
  <2>2. CASE x # y
    <3>1. ~Late(x)
      BY <1>8, <1>13, <2>1, <2>2
    <3>2. KeysMirror(x)
      BY <1>13, <3>1 DEF KeysInv
    <3>. QED
      BY <1>8, <1>13, <2>1, <2>2, <3>2
  <2>3. CASE x = y
    BY <1>12, <1>13, <2>3
  <2>. QED
    BY <2>2, <2>3
<1>. QED
  BY <1>5, <1>8, <1>13, KeysGoOn

LEMMA DeliverRemoveKeepsInv ==
    ASSUME KeysInv, kind # "list", Deliver, Inner.next <= Len(watchers),
           watchers[Inner.next] \notin ended, Inner.event.op = "remove", ~broken', ~crossed'
    PROVE  KeysInv'
<1>1. ViewTypes /\ KeyTypes
  BY DEF KeysInv
<1>2. PICK b, f, g, y : /\ b = Len(frames) - 1 /\ f = Inner /\ g = [Inner EXCEPT !.next = @ + 1]
                        /\ y = watchers[Inner.next]
  OBVIOUS
<1>3. PICK ev : ev = f.event
  OBVIOUS
<1>4. /\ b \in Nat /\ b + 1 = Len(frames) /\ DOMAIN frames = 1 .. b + 1
      /\ frames[b + 1] = f /\ f \in ViewFrames /\ ev \in ViewEvents /\ f.do = "fire"
      /\ g \in ViewFrames /\ g.do = "fire" /\ g.event = ev /\ IsKnown(g)
      /\ \A x : Told(g, x, watchers) <=> Told(f, x, watchers) \/ x = y
      /\ y \in subscribed /\ y \in Watchers
      /\ Untold(f, y, watchers) /\ ~Untold(g, y, watchers)
  <2>1. Inner.do = "fire"
    BY DEF Deliver, Doing
  <2>2. /\ b \in Nat /\ b + 1 = Len(frames) /\ DOMAIN frames = 1 .. b + 1
        /\ frames[b + 1] = Inner /\ Inner \in ViewFrames /\ Inner.event \in ViewEvents
        /\ g \in ViewFrames /\ g.do = "fire" /\ g.event = Inner.event /\ IsKnown(g)
        /\ \A x : Told(g, x, watchers) <=> Told(Inner, x, watchers) \/ x = y
        /\ y \in subscribed /\ y \in Watchers
        /\ Untold(Inner, y, watchers) /\ ~Untold(g, y, watchers)
    BY <1>1, <1>2, <2>1, FireAtWork
  <2>3. f = Inner
    BY <1>2
  <2>. QED
    BY ONLY <1>3, <2>1, <2>2, <2>3
<1>5. /\ UNCHANGED <<kind, elements, made, watchers, subscribed, ended>>
      /\ RemoveOf(y, ev, Append(Outer, g)) /\ y \notin ended /\ ev.op = "remove"
  <2>1. ~(Inner.next > Len(watchers))
    BY <1>1, <1>2, <1>4, ViewFrameFields DEF ViewTypes
  <2>. QED
    BY <1>2, <1>3, <2>1 DEF Deliver, HearsEvent
<1>6. /\ frames' = Append(Append(Outer, g), User)
      /\ kept' \in [Watchers -> Seq(Items)] /\ \A x \in Watchers : KeyedOnce(kept'[x])
      /\ \A x \in Watchers : x # y => kept'[x] = kept[x]
      /\ HasKey(kept[y], ev.new.key) /\ ~HasKey(kept'[y], ev.new.key)
      /\ \A p \in DOMAIN kept'[y] : \E q \in DOMAIN kept[y] : kept[y][q] = kept'[y][p]
      /\ \A k : HasKey(kept[y], k) => HasKey(kept'[y], k) \/ k = ev.new.key
      /\ \A k : HasKey(kept'[y], k) => HasKey(kept[y], k)
  <2>1. IsKeyed(f)
    BY <1>1, <1>4 DEF KeyTypes
  <2>2. ev.old.key = ev.new.key
    BY <1>3, <1>4, <2>1 DEF IsKeyed
  <2>. QED
    BY <1>1, <1>4, <1>5, <2>2, KeyTakenFrom
<1>7. /\ GoOn(b) /\ b < Len(frames') /\ frames'[b + 1] = g
      /\ \A i \in DOMAIN frames' : i \in 1 .. b + 1 \/ frames'[i].do = "user"
  <2>1. User \in ViewFrames /\ User.do = "user"
    BY ViewFramesAre
  <2>2. Inner.do # "none"
    BY <1>2, <1>4
  <2>3. GoOn(b) /\ DOMAIN frames' = 1 .. b + 2 /\ frames'[b + 1] = g /\ frames'[b + 2] = User
    <3>1. watchers' = watchers /\ b = Len(frames) - 1 /\ g \in ViewFrames
      BY <1>2, <1>4, <1>5
    <3>2. frames' = Append(Append(Outer, g), User)
      BY <1>6
    <3>. QED
      BY ONLY <1>1, <2>1, <2>2, <3>1, <3>2, InnerBecomesTwo
  <2>. QED
    BY <1>4, <2>1, <2>3 DEF GoOn
<1>8. /\ ViewTypes' /\ KeyTypes' /\ (Fatal => Fatal') /\ (Ordered => Ordered')
      /\ \A x \in Watchers : Late(x) /\ x # y => Late(x)'
      /\ \A x \in Watchers : Ordered /\ KeysMirror(x) /\ x # y => KeysMirror(x)'
  <2>1. /\ frames[b + 1].do = "fire" /\ frames'[b + 1].do = "fire"
        /\ frames'[b + 1].event = frames[b + 1].event /\ IsKnown(frames'[b + 1])
        /\ \A x : Told(frames'[b + 1], x, watchers) <=> Told(frames[b + 1], x, watchers) \/ x = y
    BY <1>3, <1>4, <1>7
  <2>2. \A i \in DOMAIN frames' :
           \/ i \in 1 .. b + 1 \/ frames'[i].do = "user"
           \/ /\ frames'[i].do = "addTo" /\ frames'[i].of = y
              /\ frames'[i].event = frames[b + 1].event /\ frames[b + 1].event.op = "update"
    BY <1>3, <1>4, <1>5, <1>7
  <2>3. UNCHANGED <<kind, elements, made, watchers, subscribed, ended>>
    BY <1>5
  <2>4. b + 1 = Len(frames) /\ y \in subscribed /\ GoOn(b) /\ b < Len(frames')
    BY <1>4, <1>7
  <2>5. /\ kept' \in [Watchers -> Seq(Items)] /\ \A x \in Watchers : KeyedOnce(kept'[x])
        /\ \A x \in Watchers : x # y => kept'[x] = kept[x]
    BY <1>6
  <2>. QED
    BY ONLY <1>1, <2>1, <2>2, <2>3, <2>4, <2>5, Delivers
<1>9. /\ b \in 0 .. Len(frames) /\ b <= Len(frames') /\ frames' \in Seq(ViewFrames)
      /\ Len(frames') \in Nat /\ DOMAIN frames' = 1 .. Len(frames') /\ b + 1 \in DOMAIN frames'
      /\ (\A i \in 1 .. b : frames'[i] = frames[i])
      /\ frames[Len(frames)] = f /\ b = Len(frames) - 1
      /\ \A i \in DOMAIN frames : i \in 1 .. b \/ i = b + 1
  BY <1>1, <1>2, <1>4, <1>7, GoingOn DEF GoOn
<1>10. ASSUME ~Late(y)', ~Fatal, y \notin ended PROVE KeysMirror(y)
  <2>1. ~Brings(frames[Len(frames)], y, watchers)
    BY <1>3, <1>4, <1>5, <1>9 DEF Brings
  <2>2. \A v : v.stamp <= made /\ v \notin ToSet(elements) => v \notin ToSet(elements')
    BY <1>5
  <2>3. ~Late(y)
    BY <1>1, <1>5, <1>9, <1>10, <2>1, <2>2, LateStays
  <2>. QED
    BY <1>4, <1>10, <2>3 DEF KeysInv
<1>11. ASSUME Ordered, KeysMirror(y) PROVE KeysMirror(y)'
  <2>1. KeptIsThere(y)'
    <3>1. \A i \in DOMAIN frames : i \in 1 .. b \/ ~Renews(frames[i], y, watchers)
      BY <1>3, <1>4, <1>5, <1>9 DEF Renews
    <3>. QED
      BY <1>1, <1>5, <1>6, <1>7, <1>11, <3>1, KeptStays DEF KeysMirror
  <2>2. ThereIsKept(y)'
    <3>1. b > 0 /\ b \in DOMAIN frames' /\ frames'[b] = frames[b]
          /\ (frames[b].do = "clear" \/ ErasesKey(frames[b], ev.new.key))
      <4>1. b + 1 > 1 /\ (frames[(b + 1) - 1].do = "clear" \/ ErasesKey(frames[(b + 1) - 1], ev.new.key))
        BY <1>3, <1>4, <1>5, <1>11 DEF Ordered, RemovalsAreFired
      <4>2. (b + 1) - 1 = b /\ b > 0 /\ b \in 1 .. b
        BY <1>4, <4>1
      <4>. QED
        BY <1>4, <1>9, <4>1, <4>2
    <3>2. \A p : Promises(frames'[b], y, watchers', p, ev.new.key)
      BY <3>1 DEF Promises
    <3>3. ASSUME NEW i \in DOMAIN frames, i \notin 1 .. b, NEW q, NEW k
          PROVE  ~Promises(frames[i], y, watchers, q, k)
      BY <1>3, <1>4, <1>5, <1>9, <3>3 DEF Promises, Brings, Reports, ErasesKey
    <3>. QED
      BY <1>1, <1>5, <1>6, <1>7, <1>11, <3>1, <3>2, <3>3, ThereStays DEF KeysMirror
  <2>3. ClearedIsTold(y)' /\ ErasedIsTold(y)'
    <3>1. \A j \in DOMAIN frames' : j \in 1 .. b \/ (frames'[j].do # "clear" /\ frames'[j].do # "erase")
      <4>1. \A j \in DOMAIN frames' : j \in 1 .. b \/ j = b + 1 \/ frames'[j].do = "user"
        BY <1>4, <1>7, <1>9
      <4>. QED
        BY <1>4, <1>7, <4>1
    <3>2. ~HasKey(kept'[y], frames[b + 1].event.new.key) /\ RemovalsAreFired
      BY <1>3, <1>4, <1>6, <1>11 DEF Ordered
    <3>. QED
      BY <1>1, <1>6, <1>7, <1>11, <3>1, <3>2, ToldStays DEF KeysMirror
  <2>. QED
    BY <2>1, <2>2, <2>3 DEF KeysMirror
<1>12. ASSUME ~Fatal, Ordered, ~Late(y)' PROVE KeysMirror(y)'
  BY <1>5, <1>10, <1>11, <1>12
<1>13. ASSUME NEW x \in subscribed \ ended, ~Fatal, Ordered, ~Late(x)' PROVE KeysMirror(x)'
  <2>1. x \in Watchers
    BY <1>1, <1>13 DEF ViewTypes
  <2>2. CASE x # y
    <3>1. ~Late(x)
      BY <1>8, <1>13, <2>1, <2>2
    <3>2. KeysMirror(x)
      BY <1>13, <3>1 DEF KeysInv
    <3>. QED
      BY <1>8, <1>13, <2>1, <2>2, <3>2
  <2>3. CASE x = y
    BY <1>12, <1>13, <2>3
  <2>. QED
    BY <2>2, <2>3
<1>. QED
  BY <1>5, <1>8, <1>13, KeysGoOn

LEMMA DeliverUpdateKeepsInv ==
    ASSUME KeysInv, kind # "list", Deliver, Inner.next <= Len(watchers),
           watchers[Inner.next] \notin ended, Inner.event.op = "update", ~broken', ~crossed'
    PROVE  KeysInv'
<1>1. ViewTypes /\ KeyTypes
  BY DEF KeysInv
<1>2. PICK b, f, g, y : /\ b = Len(frames) - 1 /\ f = Inner /\ g = [Inner EXCEPT !.next = @ + 1]
                        /\ y = watchers[Inner.next]
  OBVIOUS
<1>3. PICK ev : ev = f.event
  OBVIOUS
<1>4. /\ b \in Nat /\ b + 1 = Len(frames) /\ DOMAIN frames = 1 .. b + 1
      /\ frames[b + 1] = f /\ f \in ViewFrames /\ ev \in ViewEvents /\ f.do = "fire"
      /\ g \in ViewFrames /\ g.do = "fire" /\ g.event = ev /\ IsKnown(g)
      /\ \A x : Told(g, x, watchers) <=> Told(f, x, watchers) \/ x = y
      /\ y \in subscribed /\ y \in Watchers
      /\ Untold(f, y, watchers) /\ ~Untold(g, y, watchers)
  <2>1. Inner.do = "fire"
    BY DEF Deliver, Doing
  <2>2. /\ b \in Nat /\ b + 1 = Len(frames) /\ DOMAIN frames = 1 .. b + 1
        /\ frames[b + 1] = Inner /\ Inner \in ViewFrames /\ Inner.event \in ViewEvents
        /\ g \in ViewFrames /\ g.do = "fire" /\ g.event = Inner.event /\ IsKnown(g)
        /\ \A x : Told(g, x, watchers) <=> Told(Inner, x, watchers) \/ x = y
        /\ y \in subscribed /\ y \in Watchers
        /\ Untold(Inner, y, watchers) /\ ~Untold(g, y, watchers)
    BY <1>1, <1>2, <2>1, FireAtWork
  <2>3. f = Inner
    BY <1>2
  <2>. QED
    BY ONLY <1>3, <2>1, <2>2, <2>3
<1>5. /\ UNCHANGED <<kind, elements, made, watchers, subscribed, ended>>
      /\ RemoveOf(y, ev, Append(Append(Outer, g), [do |-> "addTo", of |-> y, event |-> ev])) /\ y \notin ended /\ ev.op = "update"
  <2>1. ~(Inner.next > Len(watchers))
    BY <1>1, <1>2, <1>4, ViewFrameFields DEF ViewTypes
  <2>. QED
    BY <1>2, <1>3, <2>1 DEF Deliver, HearsEvent
<1>6. /\ frames' = Append(Append(Append(Outer, g), [do |-> "addTo", of |-> y, event |-> ev]), User)
      /\ kept' \in [Watchers -> Seq(Items)] /\ \A x \in Watchers : KeyedOnce(kept'[x])
      /\ \A x \in Watchers : x # y => kept'[x] = kept[x]
      /\ HasKey(kept[y], ev.new.key) /\ ~HasKey(kept'[y], ev.new.key)
      /\ \A p \in DOMAIN kept'[y] : \E q \in DOMAIN kept[y] : kept[y][q] = kept'[y][p]
      /\ \A k : HasKey(kept[y], k) => HasKey(kept'[y], k) \/ k = ev.new.key
      /\ \A k : HasKey(kept'[y], k) => HasKey(kept[y], k)
  <2>1. IsKeyed(f)
    BY <1>1, <1>4 DEF KeyTypes
  <2>2. ev.old.key = ev.new.key
    BY <1>3, <1>4, <2>1 DEF IsKeyed
  <2>. QED
    BY <1>1, <1>4, <1>5, <2>2, KeyTakenFrom
<1>7. /\ GoOn(b) /\ b < Len(frames') /\ frames'[b + 1] = g /\ b + 2 \in DOMAIN frames'
      /\ frames'[b + 2].do = "addTo" /\ frames'[b + 2].of = y /\ frames'[b + 2].event = ev
      /\ \A i \in DOMAIN frames' : i \in 1 .. b + 1 \/ i = b + 2 \/ frames'[i].do = "user"
  <2>1. PICK h : h = [do |-> "addTo", of |-> y, event |-> ev]
    OBVIOUS
  <2>2. User \in ViewFrames /\ User.do = "user"
    BY ViewFramesAre
  <2>3. h \in ViewFrames /\ h.do = "addTo" /\ h.of = y /\ h.event = ev
    BY ONLY <1>4, <2>1, ViewFramesAre
  <2>4. GoOn(b) /\ DOMAIN frames' = 1 .. b + 3 /\ frames'[b + 1] = g /\ frames'[b + 2] = h /\ frames'[b + 3] = User
    <3>1. frames' = Append(Append(Append(Outer, g), h), User)
      BY ONLY <1>6, <2>1
    <3>2. Inner.do # "none" /\ b = Len(frames) - 1 /\ watchers' = watchers
      BY <1>2, <1>4, <1>5
    <3>3. User \in ViewFrames /\ g \in ViewFrames /\ h \in ViewFrames
      BY <1>4, <2>2, <2>3
    <3>. QED
      BY ONLY <1>1, <3>1, <3>2, <3>3, InnerBecomesThree
  <2>. QED
    BY <1>4, <2>2, <2>3, <2>4 DEF GoOn
<1>8. /\ ViewTypes' /\ KeyTypes' /\ (Fatal => Fatal') /\ (Ordered => Ordered')
      /\ \A x \in Watchers : Late(x) /\ x # y => Late(x)'
      /\ \A x \in Watchers : Ordered /\ KeysMirror(x) /\ x # y => KeysMirror(x)'
  <2>1. /\ frames[b + 1].do = "fire" /\ frames'[b + 1].do = "fire"
        /\ frames'[b + 1].event = frames[b + 1].event /\ IsKnown(frames'[b + 1])
        /\ \A x : Told(frames'[b + 1], x, watchers) <=> Told(frames[b + 1], x, watchers) \/ x = y
    BY <1>3, <1>4, <1>7
  <2>2. \A i \in DOMAIN frames' :
           \/ i \in 1 .. b + 1 \/ frames'[i].do = "user"
           \/ /\ frames'[i].do = "addTo" /\ frames'[i].of = y
              /\ frames'[i].event = frames[b + 1].event /\ frames[b + 1].event.op = "update"
    BY <1>3, <1>4, <1>5, <1>7
  <2>3. UNCHANGED <<kind, elements, made, watchers, subscribed, ended>>
    BY <1>5
  <2>4. b + 1 = Len(frames) /\ y \in subscribed /\ GoOn(b) /\ b < Len(frames')
    BY <1>4, <1>7
  <2>5. /\ kept' \in [Watchers -> Seq(Items)] /\ \A x \in Watchers : KeyedOnce(kept'[x])
        /\ \A x \in Watchers : x # y => kept'[x] = kept[x]
    BY <1>6
  <2>. QED
    BY ONLY <1>1, <2>1, <2>2, <2>3, <2>4, <2>5, Delivers
<1>9. /\ b \in 0 .. Len(frames) /\ b <= Len(frames') /\ frames' \in Seq(ViewFrames)
      /\ Len(frames') \in Nat /\ DOMAIN frames' = 1 .. Len(frames') /\ b + 1 \in DOMAIN frames'
      /\ (\A i \in 1 .. b : frames'[i] = frames[i])
      /\ frames[Len(frames)] = f /\ b = Len(frames) - 1
      /\ \A i \in DOMAIN frames : i \in 1 .. b \/ i = b + 1
  BY <1>1, <1>2, <1>4, <1>7, GoingOn DEF GoOn
<1>10. ASSUME ~Late(y)', ~Fatal, y \notin ended PROVE KeysMirror(y)
  <2>1. \E i \in DOMAIN frames' : /\ Brings(frames'[i], y, watchers')
                                  /\ frames'[i].event = frames[Len(frames)].event
    BY <1>3, <1>7, <1>9 DEF Brings
  <2>2. \A v : v.stamp <= made /\ v \notin ToSet(elements) => v \notin ToSet(elements')
    BY <1>5
  <2>3. ~Late(y)
    BY <1>1, <1>5, <1>9, <1>10, <2>1, <2>2, LateStays
  <2>. QED
    BY <1>4, <1>10, <2>3 DEF KeysInv
<1>11. ASSUME Ordered, KeysMirror(y) PROVE KeysMirror(y)'
  <2>1. KeptIsThere(y)'
    <3>1. \A i \in DOMAIN frames : i \in 1 .. b \/ ~HasKey(kept'[y], frames[i].event.new.key)
      BY <1>3, <1>4, <1>6, <1>9
    <3>. QED
      BY <1>1, <1>5, <1>6, <1>7, <1>11, <3>1, KeptStays DEF KeysMirror
  <2>2. ThereIsKept(y)'
    <3>1. \A p : Promises(frames'[b + 2], y, watchers', p, ev.new.key)
      BY <1>7 DEF Promises, Brings
    <3>2. ASSUME NEW i \in DOMAIN frames, i \notin 1 .. b, NEW q, NEW k,
                 Promises(frames[i], y, watchers, q, k)
          PROVE  k = ev.new.key
      BY <1>3, <1>4, <1>9, <3>2 DEF Promises, Brings, Reports, ErasesKey
    <3>. QED
      BY <1>1, <1>5, <1>6, <1>7, <1>11, <3>1, <3>2, ThereStays DEF KeysMirror
  <2>3. ClearedIsTold(y)' /\ ErasedIsTold(y)'
    <3>1. \A j \in DOMAIN frames' : j \in 1 .. b \/ (frames'[j].do # "clear" /\ frames'[j].do # "erase")
      <4>1. \A j \in DOMAIN frames' : j \in 1 .. b \/ j = b + 1 \/ j = b + 2 \/ frames'[j].do = "user"
        BY <1>4, <1>7, <1>9
      <4>. QED
        BY <1>4, <1>7, <4>1
    <3>2. frames[b + 1].event.op # "remove" /\ RemovalsAreFired
      BY <1>3, <1>4, <1>5, <1>11 DEF Ordered
    <3>. QED
      BY <1>1, <1>6, <1>7, <1>11, <3>1, <3>2, ToldStays DEF KeysMirror
  <2>. QED
    BY <2>1, <2>2, <2>3 DEF KeysMirror
<1>12. ASSUME ~Fatal, Ordered, ~Late(y)' PROVE KeysMirror(y)'
  BY <1>5, <1>10, <1>11, <1>12
<1>13. ASSUME NEW x \in subscribed \ ended, ~Fatal, Ordered, ~Late(x)' PROVE KeysMirror(x)'
  <2>1. x \in Watchers
    BY <1>1, <1>13 DEF ViewTypes
  <2>2. CASE x # y
    <3>1. ~Late(x)
      BY <1>8, <1>13, <2>1, <2>2
    <3>2. KeysMirror(x)
      BY <1>13, <3>1 DEF KeysInv
    <3>. QED
      BY <1>8, <1>13, <2>1, <2>2, <3>2
  <2>3. CASE x = y
    BY <1>12, <1>13, <2>3
  <2>. QED
    BY <2>2, <2>3
<1>. QED
  BY <1>5, <1>8, <1>13, KeysGoOn

LEMMA DeliverKeepsInv ==
    ASSUME KeysInv, kind # "list", Deliver, ~broken', ~crossed'
    PROVE  KeysInv'
<1>1. CASE Inner.next > Len(watchers)
  BY <1>1, DeliverEndsKeepsInv
<1>2. CASE ~(Inner.next > Len(watchers))
  <2>1. ViewTypes /\ Inner.do = "fire"
    BY DEF KeysInv, Deliver, Doing
  <2>2. Inner.next \in Nat /\ Inner.event \in ViewEvents
    <3>1. Inner \in ViewFrames
      BY <2>1, InnerIs
    <3>. QED
      BY <2>1, <3>1, ViewFrameFields
  <2>3. Inner.next <= Len(watchers)
    BY <1>2, <2>1, <2>2 DEF ViewTypes
  <2>4. Inner.event.op \in {"add", "update", "remove"}
    BY <2>2 DEF ViewEvents
  <2>5. CASE watchers[Inner.next] \in ended
    BY <2>3, <2>5, DeliverPastKeepsInv
  <2>6. CASE watchers[Inner.next] \notin ended
    BY <2>3, <2>4, <2>6, DeliverAddKeepsInv, DeliverUpdateKeepsInv, DeliverRemoveKeepsInv
  <2>. QED
    BY <2>5, <2>6
<1>. QED
  BY <1>1, <1>2

LEMMA SecondHalfKeepsInv ==
    ASSUME KeysInv, kind # "list", SecondHalf, ~broken', ~crossed'
    PROVE  KeysInv'
<1>1. ViewTypes /\ KeyTypes
  BY DEF KeysInv
<1>2. PICK b, y, ev : b = Len(frames) - 1 /\ y = Inner.of /\ ev = Inner.event
  OBVIOUS
<1>3. /\ UNCHANGED <<kind, elements, made, watchers, subscribed, ended>>
      /\ AddTo(y, ev, Outer) /\ Inner.do = "addTo"
  BY <1>2 DEF SecondHalf, Doing
<1>4. /\ b \in Nat /\ b + 1 = Len(frames) /\ DOMAIN frames = 1 .. b + 1
      /\ Inner = frames[b + 1] /\ Inner \in ViewFrames
      /\ y \in Watchers /\ y \in subscribed /\ ev \in ViewEvents
  <2>1. /\ b \in Nat /\ b + 1 = Len(frames) /\ DOMAIN frames = 1 .. b + 1
        /\ Inner = frames[b + 1] /\ Inner \in ViewFrames
    BY <1>1, <1>2, <1>3, InnerGoes
  <2>2. y \in Watchers /\ ev \in ViewEvents
    BY <1>2, <1>3, <2>1, ViewFrameFields
  <2>3. IsKnown(frames[b + 1])
    BY <1>1, <2>1 DEF ViewTypes
  <2>. QED
    BY <1>2, <1>3, <2>1, <2>2, <2>3 DEF IsKnown
<1>5. /\ y \notin ended /\ ev.new \in ToSet(elements)
      /\ frames' = Outer \/ frames' = Append(Outer, User)
      /\ kept' \in [Watchers -> Seq(Items)] /\ \A z \in Watchers : KeyedOnce(kept'[z])
      /\ \A z \in Watchers : z # y => kept'[z] = kept[z]
      /\ HasKey(kept'[y], ev.new.key)
      /\ \A p \in DOMAIN kept'[y] :
            kept'[y][p] = ev.new \/ \E q \in DOMAIN kept[y] : kept[y][q] = kept'[y][p]
      /\ \A k : HasKey(kept[y], k) => HasKey(kept'[y], k)
      /\ \A k : HasKey(kept'[y], k) => HasKey(kept[y], k) \/ k = ev.new.key
  <2>1. y \in Watchers /\ ev \in ViewEvents /\ AddTo(y, ev, Outer)
    BY <1>3, <1>4
  <2>. QED
    BY ONLY <1>1, <2>1, kind # "list", ~broken', KeyAddedTo
<1>6. /\ GoOn(b) /\ \A i \in DOMAIN frames' : i \in 1 .. b \/ frames'[i].do = "user"
  <2>1. User \in ViewFrames /\ User.do = "user"
    BY ViewFramesAre
  <2>2. Inner.do # "none" /\ watchers' = watchers /\ b = Len(frames) - 1
    BY <1>2, <1>3
  <2>3. CASE frames' = Outer
    <3>1. GoOn(b) /\ DOMAIN frames' = 1 .. b
      BY ONLY <1>1, <2>2, <2>3, InnerLeaves
    <3>. QED
      BY <3>1
  <2>4. CASE frames' = Append(Outer, User)
    <3>1. GoOn(b) /\ DOMAIN frames' = 1 .. b + 1 /\ frames'[b + 1] = User
      BY ONLY <1>1, <2>1, <2>2, <2>4, InnerBecomesOne
    <3>. QED
      BY <1>4, <2>1, <3>1
  <2>. QED
    BY <1>5, <2>3, <2>4
<1>7. /\ b \in 0 .. Len(frames) /\ b <= Len(frames') /\ frames' \in Seq(ViewFrames)
      /\ \A i \in 1 .. b : frames'[i] = frames[i]
      /\ b = Len(frames) - 1 /\ frames[Len(frames)] = frames[b + 1]
      /\ \A i \in DOMAIN frames : i \in 1 .. b \/ i = b + 1
  BY <1>2, <1>4, <1>6 DEF GoOn
<1>8. frames[b + 1].do = "addTo" /\ frames[b + 1].of = y /\ frames[b + 1].event = ev
  BY <1>2, <1>3, <1>4
<1>9. ViewTypes'
  <2>1. made' \in Nat /\ elements' \in Seq(Items) /\ \A x \in Watchers \ subscribed : kept'[x] = <<>>
    BY <1>1, <1>3, <1>4, <1>5 DEF ViewTypes
  <2>2. \A i \in DOMAIN frames' : i \in 1 .. b \/ (IsKnown(frames'[i]) /\ frames'[i].do # "replay")
    BY <1>6 DEF IsKnown
  <2>. QED
    BY <1>1, <1>3, <1>5, <1>7, <2>1, <2>2, TypesGoOn
<1>10. KeyTypes'
  <2>1. /\ made' \in Nat /\ made <= made' /\ KeyedOnce(elements')
        /\ \A i \in DOMAIN elements' : elements'[i].key \in ItemKeys /\ elements'[i].stamp <= made'
    BY <1>1, <1>3 DEF ViewTypes, KeyTypes
  <2>2. \A i \in DOMAIN frames' : i \in 1 .. b \/ IsKeyed(frames[i])'
    BY <1>6 DEF IsKeyed
  <2>3. \A i \in DOMAIN frames : i \in 1 .. b \/ frames[i].do # "replay"
    BY <1>7, <1>8
  <2>. QED
    BY <1>1, <1>3, <1>5, <1>7, <2>1, <2>2, <2>3, KeyTypesGoOn
<1>11. Fatal => Fatal'
  <2>1. ~WillDrop(frames[Len(frames)])
    BY <1>7, <1>8 DEF WillDrop
  <2>. QED
    BY <1>1, <1>3, <1>7, <2>1, FatalStays
<1>12. ASSUME Ordered
       PROVE  \A j \in DOMAIN frames : frames[j].do # "clear" /\ ~ErasesKey(frames[j], ev.new.key)
  <2>1. \A j \in 1 .. b : /\ j \in DOMAIN frames /\ b + 1 \in j + 1 .. Len(frames)
                          /\ b + 1 \in DOMAIN frames /\ j \in 1 .. (b + 1) - 1
    BY <1>4
  <2>2. \A j \in 1 .. b : frames[j].do # "clear"
    BY <1>8, <1>12, <2>1 DEF Ordered, ClearsAlone
  <2>3. \A j \in 1 .. b : ~ErasesKey(frames[j], ev.new.key)
    BY <1>8, <1>12, <2>1 DEF Ordered, ErasedOnce, ErasesKey
  <2>. QED
    BY <1>7, <1>8, <2>2, <2>3 DEF ErasesKey
<1>13. ASSUME Ordered PROVE Ordered'
  <2>1. \A j \in 1 .. b : frames[j].do = "erase" => HasKey(elements', frames[j].key)
    BY <1>3, <1>4, <1>13 DEF Ordered, ErasedOnce
  <2>2. ~(b > 0 /\ frames[b].do = "erase")
    <3>1. SUFFICES ASSUME b > 0, frames[b].do = "erase" PROVE FALSE
      OBVIOUS
    <3>2. b \in DOMAIN frames /\ b < Len(frames)
      BY <1>4, <3>1
    <3>. QED
      BY <1>8, <1>13, <3>1, <3>2 DEF Ordered, RemovalsAreFired, Tells
  <2>. QED
    BY <1>1, <1>3, <1>6, <1>13, <2>1, <2>2, OrderStays
<1>14. ASSUME NEW x \in subscribed \ ended, ~Fatal, Ordered, ~Late(x)' PROVE KeysMirror(x)'
  <2>1. x \in Watchers
    BY <1>1, <1>14 DEF ViewTypes
  <2>2. KeysMirror(x)
    <3>1. Brings(frames[Len(frames)], x, watchers) => frames[Len(frames)].event.new \in ToSet(elements)
      BY <1>5, <1>7, <1>8
    <3>2. \A v : v.stamp <= made /\ v \notin ToSet(elements) => v \notin ToSet(elements')
      BY <1>3
    <3>3. ~Late(x)
      BY <1>1, <1>3, <1>7, <1>14, <3>1, <3>2, LateStays
    <3>. QED
      BY <1>14, <3>3 DEF KeysInv
  <2>3. /\ \A p \in DOMAIN kept'[x] :
              \/ kept'[x][p] = ev.new
              \/ \E q \in DOMAIN kept[x] : kept[x][q] = kept'[x][p]
        /\ \A k : HasKey(kept[x], k) => HasKey(kept'[x], k)
        /\ \A k : HasKey(kept'[x], k) => HasKey(kept[x], k) \/ k = ev.new.key
        /\ x = y => HasKey(kept'[x], ev.new.key)
    BY <1>5, <2>1
  <2>4. KeptIsThere(x)'
    <3>1. \A p \in DOMAIN kept'[x] : \/ kept'[x][p] \in ToSet(elements')
                                     \/ \E q \in DOMAIN kept[x] : kept[x][q] = kept'[x][p]
      BY <1>3, <1>5, <2>3
    <3>2. \A i \in DOMAIN frames : i \in 1 .. b \/ ~Renews(frames[i], x, watchers)
      BY <1>7, <1>8 DEF Renews, Untold
    <3>. QED
      BY <1>1, <1>3, <1>6, <2>2, <3>1, <3>2, KeptStays DEF KeysMirror
  <2>5. ThereIsKept(x)'
    <3>1. ASSUME NEW i \in DOMAIN frames, i \notin 1 .. b, NEW q, NEW k,
                 Promises(frames[i], x, watchers, q, k)
          PROVE  k = ev.new.key /\ x = y
      BY <1>7, <1>8, <3>1 DEF Promises, Brings, Untold, Reports, ErasesKey
    <3>. QED
      BY <1>1, <1>3, <1>6, <2>2, <2>3, <3>1, ThereStays DEF KeysMirror
  <2>6. ClearedIsTold(x)' /\ ErasedIsTold(x)'
    <3>1. \A j \in DOMAIN frames' : j \in 1 .. b \/ (frames'[j].do # "clear" /\ frames'[j].do # "erase")
      BY <1>6
    <3>2. \A j \in DOMAIN frames : frames[j].do # "clear" /\ ~ErasesKey(frames[j], ev.new.key)
      BY <1>12, <1>14
    <3>3. ~Untold(frames[b + 1], x, watchers) /\ RemovalsAreFired
      BY <1>8, <1>14 DEF Ordered, Untold
    <3>. QED
      BY <1>1, <1>6, <2>2, <2>3, <3>1, <3>2, <3>3, ToldStays DEF KeysMirror
  <2>. QED
    BY <2>4, <2>5, <2>6 DEF KeysMirror
<1>. QED
  BY <1>3, <1>9, <1>10, <1>11, <1>13, <1>14, KeysGoOn

-----------------------------------------------------------------------------
(***************************************************************************)
(* Maps and sets: a view subscribes and is told what there is               *)
(***************************************************************************)

\* The report goes on.
LEMMA ReplayGoesOnKeepsInv ==
    ASSUME KeysInv, kind # "list", Replay, Inner.next <= Len(elements), ~broken', ~crossed'
    PROVE  KeysInv'
<1>1. ViewTypes /\ KeyTypes /\ kind \in {"map", "set"}
  BY DEF KeysInv, ViewTypes
<1>2. PICK b, y, i0, r : /\ b = Len(frames) - 1 /\ y = Inner.of /\ i0 = Inner.next
                         /\ r = [Inner EXCEPT !.next = Inner.next + 1]
  OBVIOUS
<1>3. PICK ev : ev = Added(i0, elements[i0])
  OBVIOUS
<1>4. Inner.do = "replay"
  BY DEF Replay, Doing
<1>5. /\ b \in Nat /\ b + 1 = Len(frames) /\ DOMAIN frames = 1 .. b + 1
      /\ Inner = frames[b + 1] /\ Inner \in ViewFrames
      /\ y \in Watchers /\ y \in subscribed /\ i0 \in Nat \ {0}
      /\ kind = "set" => ~Listed(y)
  <2>1. /\ b \in Nat /\ b + 1 = Len(frames) /\ DOMAIN frames = 1 .. b + 1
        /\ Inner = frames[b + 1] /\ Inner \in ViewFrames
    BY <1>1, <1>2, <1>4, InnerGoes
  <2>2. y \in Watchers /\ i0 \in Nat \ {0}
    BY <1>2, <1>4, <2>1, ViewFrameFields
  <2>3. IsKnown(frames[b + 1])
    BY <1>1, <2>1 DEF ViewTypes
  <2>. QED
    BY <1>2, <1>4, <2>1, <2>2, <2>3 DEF IsKnown
<1>6. i0 \in DOMAIN elements /\ elements[i0] \in Items /\ elements[i0] \in ToSet(elements)
  <2>1. i0 <= Len(elements) /\ elements \in Seq(Items)
    BY <1>1, <1>2 DEF ViewTypes
  <2>2. i0 \in DOMAIN elements
    BY <1>5, <2>1
  <2>. QED
    BY <2>1, <2>2, Entries
<1>7. /\ ev.new = elements[i0] /\ ev.op = "add" /\ ev \in ViewEvents
  BY <1>3, <1>5, <1>6 DEF Added, ViewEvents
<1>8. /\ UNCHANGED <<kind, elements, made, watchers, subscribed, ended>>
      /\ AddTo(y, ev, Append(Outer, r)) /\ ~(kind = "map" /\ MovedOut(ev.new.key))
  <2>1. ~(Inner.next > Len(elements))
    BY <1>1, <1>2, <1>5 DEF ViewTypes
  <2>. QED
    BY <1>2, <1>3, <1>7, <2>1 DEF Replay
<1>9. /\ frames' = Append(Outer, r) \/ frames' = Append(Append(Outer, r), User)
      /\ kept' \in [Watchers -> Seq(Items)] /\ \A z \in Watchers : KeyedOnce(kept'[z])
      /\ \A z \in Watchers : z # y => kept'[z] = kept[z]
      /\ HasKey(kept'[y], ev.new.key)
      /\ \A p \in DOMAIN kept'[y] :
            kept'[y][p] = ev.new \/ \E q \in DOMAIN kept[y] : kept[y][q] = kept'[y][p]
      /\ \A k : HasKey(kept[y], k) => HasKey(kept'[y], k)
      /\ \A k : HasKey(kept'[y], k) => HasKey(kept[y], k) \/ k = ev.new.key
  <2>1. y \in Watchers /\ ev \in ViewEvents /\ AddTo(y, ev, Append(Outer, r))
    BY <1>5, <1>7, <1>8
  <2>. QED
    BY ONLY <1>1, <2>1, kind # "list", ~broken', KeyAddedTo
<1>10. r \in ViewFrames /\ r.do = "replay" /\ r.of = y /\ r.next = i0 + 1
  <2>1. PICK h : h = Inner
    OBVIOUS
  <2>2. h \in ViewFrames /\ h.do = "replay" /\ r = [h EXCEPT !.next = h.next + 1] /\ h.of = y /\ h.next = i0
    BY <1>2, <1>4, <1>5, <2>1
  <2>. QED
    BY ONLY <2>2, GoesOn
<1>11. /\ GoOn(b) /\ b < Len(frames') /\ frames'[b + 1] = r
       /\ \A i \in DOMAIN frames' : i \in 1 .. b + 1 \/ frames'[i].do = "user"
  <2>1. User \in ViewFrames /\ User.do = "user"
    BY ViewFramesAre
  <2>2. Inner.do # "none" /\ watchers' = watchers /\ b = Len(frames) - 1 /\ r \in ViewFrames
    BY <1>2, <1>4, <1>8, <1>10
  <2>3. CASE frames' = Append(Outer, r)
    <3>1. GoOn(b) /\ DOMAIN frames' = 1 .. b + 1 /\ frames'[b + 1] = r
      BY ONLY <1>1, <2>2, <2>3, InnerBecomesOne
    <3>. QED
      BY <1>5, <3>1 DEF GoOn
  <2>4. CASE frames' = Append(Append(Outer, r), User)
    <3>1. GoOn(b) /\ DOMAIN frames' = 1 .. b + 2 /\ frames'[b + 1] = r /\ frames'[b + 2] = User
      <4>1. ViewTypes /\ r \in ViewFrames /\ User \in ViewFrames /\ Inner.do # "none"
        BY <1>1, <2>1, <2>2
      <4>2. watchers' = watchers /\ b = Len(frames) - 1
        BY <2>2
      <4>. QED
        BY ONLY <2>4, <4>1, <4>2, InnerBecomesTwo
    <3>2. (\A i \in 1 .. b + 2 : i \in 1 .. b + 1 \/ i = b + 2) /\ b < b + 2
      BY ONLY <1>5
    <3>3. Len(frames') = b + 2
      BY <1>5, <3>1 DEF GoOn
    <3>. QED
      BY ONLY <2>1, <3>1, <3>2, <3>3
  <2>. QED
    BY <1>9, <2>3, <2>4
<1>12. /\ b \in 0 .. Len(frames) /\ b <= Len(frames') /\ frames' \in Seq(ViewFrames)
       /\ \A i \in 1 .. b : frames'[i] = frames[i]
       /\ b = Len(frames) - 1 /\ frames[Len(frames)] = frames[b + 1]
       /\ b + 1 \in DOMAIN frames /\ b + 1 \in DOMAIN frames'
       /\ \A i \in DOMAIN frames : i \in 1 .. b \/ i = b + 1
       /\ \A i \in DOMAIN frames' : i \in 1 .. b \/ i = b + 1 \/ frames'[i].do = "user"
  BY <1>1, <1>2, <1>5, <1>11, GoingOn DEF GoOn
<1>13. frames[b + 1].do = "replay" /\ frames[b + 1].of = y /\ frames[b + 1].next = i0
  BY <1>2, <1>4, <1>5
<1>14. ViewTypes'
  <2>1. made' \in Nat /\ elements' \in Seq(Items) /\ \A x \in Watchers \ subscribed : kept'[x] = <<>>
    BY <1>1, <1>5, <1>8, <1>9 DEF ViewTypes
  <2>2. IsKnown(r)
    BY <1>5, <1>10 DEF IsKnown
  <2>3. \A i \in DOMAIN frames' : i \in 1 .. b \/
           /\ IsKnown(frames'[i])
           /\ frames'[i].do = "replay" =>
                i \in DOMAIN frames /\ frames[i].do = "replay" /\ frames[i].of = frames'[i].of
    <3>1. SUFFICES ASSUME NEW i \in DOMAIN frames', i \notin 1 .. b
                   PROVE  /\ IsKnown(frames'[i])
                          /\ frames'[i].do = "replay" =>
                               i \in DOMAIN frames /\ frames[i].do = "replay" /\ frames[i].of = frames'[i].of
      OBVIOUS
    <3>2. CASE i = b + 1
      BY <1>10, <1>11, <1>12, <1>13, <2>2, <3>2
    <3>3. CASE frames'[i].do = "user"
      BY <3>3 DEF IsKnown
    <3>. QED
      BY <1>12, <3>1, <3>2, <3>3
  <2>4. UNCHANGED <<kind, watchers, subscribed>> /\ kept' \in [Watchers -> Seq(Items)]
    BY <1>8, <1>9
  <2>. QED
    BY <1>1, <1>12, <2>1, <2>3, <2>4, TypesGoOn
<1>15. KeyTypes'
  <2>1. /\ made' \in Nat /\ made <= made' /\ KeyedOnce(elements')
        /\ \A i \in DOMAIN elements' : elements'[i].key \in ItemKeys /\ elements'[i].stamp <= made'
    BY <1>1, <1>8 DEF ViewTypes, KeyTypes
  <2>2. \A i \in DOMAIN frames' : i \in 1 .. b \/ IsKeyed(frames[i])'
    BY <1>10, <1>11, <1>12 DEF IsKeyed
  <2>3. \A i \in DOMAIN frames : i \in 1 .. b \/ frames[i].do # "replay" \/
           (i \in DOMAIN frames' /\ Reports(frames'[i], frames[i].of))
    BY <1>10, <1>11, <1>12, <1>13 DEF Reports
  <2>4. UNCHANGED <<kind, watchers, subscribed>> /\ ended \subseteq ended' /\ \A z \in Watchers : KeyedOnce(kept'[z])
    BY <1>8, <1>9
  <2>. QED
    BY <1>1, <1>12, <2>1, <2>2, <2>3, <2>4, KeyTypesGoOn
<1>16. Fatal => Fatal'
  <2>1. ~WillDrop(frames[Len(frames)])
    BY <1>12, <1>13 DEF WillDrop
  <2>. QED
    BY <1>1, <1>8, <1>12, <2>1, FatalStays
<1>17. ASSUME Ordered PROVE \A j \in DOMAIN frames : frames[j].do # "clear"
  <2>1. \A j \in 1 .. b : j \in DOMAIN frames /\ b + 1 \in j + 1 .. Len(frames)
    BY <1>5
  <2>2. \A j \in 1 .. b : frames[j].do # "clear"
    BY <1>13, <1>17, <2>1 DEF Ordered, ClearsAlone
  <2>. QED
    BY <1>12, <1>13, <2>2
<1>18. ASSUME Ordered PROVE Ordered'
  <2>1. \A j \in 1 .. b : frames[j].do = "erase" => HasKey(elements', frames[j].key)
    BY <1>5, <1>8, <1>18 DEF Ordered, ErasedOnce
  <2>2. ~(b > 0 /\ frames[b].do = "erase")
    <3>1. SUFFICES ASSUME b > 0, frames[b].do = "erase" PROVE FALSE
      OBVIOUS
    <3>2. b \in DOMAIN frames /\ b < Len(frames)
      BY <1>5, <3>1
    <3>. QED
      BY <1>13, <1>18, <3>1, <3>2 DEF Ordered, RemovalsAreFired, Tells
  <2>3. \A i \in DOMAIN frames' : i \in 1 .. b \/ frames'[i].do = "user"
           \/ (frames'[i].do = "replay" /\ \A j \in 1 .. b : frames[j].do # "clear")
    <3>1. \A j \in 1 .. b : frames[j].do # "clear"
      BY <1>5, <1>17, <1>18
    <3>. QED
      BY <1>10, <1>11, <1>12, <3>1
  <2>. QED
    BY <1>1, <1>8, <1>11, <1>18, <2>1, <2>2, <2>3, OrderStays
<1>19. ASSUME NEW x \in subscribed \ ended, ~Fatal, Ordered, ~Late(x)' PROVE KeysMirror(x)'
  <2>1. x \in Watchers
    BY <1>1, <1>19 DEF ViewTypes
  <2>2. KeysMirror(x)
    <3>1. ~Brings(frames[Len(frames)], x, watchers)
      BY <1>12, <1>13 DEF Brings, Untold
    <3>2. \A v : v.stamp <= made /\ v \notin ToSet(elements) => v \notin ToSet(elements')
      BY <1>8
    <3>3. ~Late(x)
      BY <1>1, <1>8, <1>12, <1>19, <3>1, <3>2, LateStays
    <3>. QED
      BY <1>19, <3>3 DEF KeysInv
  <2>3. /\ \A p \in DOMAIN kept'[x] :
              \/ kept'[x][p] = ev.new
              \/ \E q \in DOMAIN kept[x] : kept[x][q] = kept'[x][p]
        /\ \A k : HasKey(kept[x], k) => HasKey(kept'[x], k)
        /\ \A k : HasKey(kept'[x], k) => HasKey(kept[x], k) \/ (x = y /\ k = ev.new.key)
        /\ x = y => HasKey(kept'[x], ev.new.key)
    BY <1>9, <2>1
  <2>4. KeptIsThere(x)'
    <3>1. \A p \in DOMAIN kept'[x] : \/ kept'[x][p] \in ToSet(elements')
                                     \/ \E q \in DOMAIN kept[x] : kept[x][q] = kept'[x][p]
      BY <1>6, <1>7, <1>8, <2>3
    <3>2. \A i \in DOMAIN frames : i \in 1 .. b \/ ~Renews(frames[i], x, watchers)
      BY <1>12, <1>13 DEF Renews, Untold
    <3>. QED
      BY <1>1, <1>8, <1>11, <2>2, <3>1, <3>2, KeptStays DEF KeysMirror
  <2>5. ThereIsKept(x)'
    <3>1. ASSUME NEW i \in DOMAIN frames, i \notin 1 .. b, NEW q \in DOMAIN elements, NEW p \in DOMAIN elements',
                 elements[q].key = elements'[p].key,
                 Promises(frames[i], x, watchers, q, elements[q].key)
          PROVE  \/ HasKey(kept'[x], elements'[p].key)
                 \/ \E j \in DOMAIN frames' : Promises(frames'[j], x, watchers', p, elements'[p].key)
      <4>1. x = y /\ i0 <= q
        BY <1>12, <1>13, <3>1 DEF Promises, Brings, Untold, Reports, ErasesKey
      <4>2. p = q
        BY <1>1, <1>8, <3>1 DEF KeyTypes, KeyedOnce
      <4>3. CASE q = i0
        BY <1>7, <1>8, <2>3, <4>1, <4>2, <4>3
      <4>4. CASE q # i0
        <5>1. i0 + 1 <= p
          <6>1. q \in Nat
            BY <1>1, <3>1 DEF ViewTypes
          <6>. QED
            BY <1>5, <4>1, <4>2, <4>4, <6>1
        <5>2. Promises(frames'[b + 1], x, watchers', p, elements'[p].key)
          BY <1>10, <1>11, <4>1, <5>1 DEF Promises, Reports
        <5>. QED
          BY <1>12, <5>2
      <4>. QED
        BY <4>3, <4>4
    <3>2. \A p \in DOMAIN elements' : p \in DOMAIN elements /\ elements[p].key = elements'[p].key
      BY <1>8
    <3>3. ThereIsKept(x)
      BY <2>2 DEF KeysMirror
    <3>. QED
      BY <1>1, <1>11, <2>3, <3>1, <3>2, <3>3, ThereStays
  <2>6. ClearedIsTold(x)' /\ ErasedIsTold(x)'
    <3>1. \A j \in DOMAIN frames' : j \in 1 .. b \/ (frames'[j].do # "clear" /\ frames'[j].do # "erase")
      BY <1>10, <1>11, <1>12
    <3>2. ASSUME x = y, NEW j \in DOMAIN frames, ErasesKey(frames[j], ev.new.key)
          PROVE  j < Len(frames) /\ Untold(frames[j + 1], x, watchers)
      <4>1. kind = "set"
        BY <1>1, <1>8, <3>2 DEF MovedOut, ErasesKey
      <4>2. j < Len(frames)
        BY <1>5, <1>12, <1>13, <3>2 DEF ErasesKey
      <4>3. frames[j + 1].do = "fire"
        BY <1>19, <3>2, <4>2 DEF Ordered, RemovalsAreFired, ErasesKey, Tells
      <4>4. ~Told(frames[j + 1], x, watchers)
        <5>1. j + 1 \in DOMAIN frames
          BY <1>5, <3>2, <4>2
        <5>2. IsKnown(frames[j + 1]) /\ frames[j + 1].next \in Nat
          <6>1. frames[j + 1] \in ViewFrames
            BY <1>1, <5>1 DEF ViewTypes
          <6>2. frames[j + 1].next \in Nat
            BY ONLY <4>3, <6>1, ViewFrameFields
          <6>. QED
            BY <1>1, <5>1, <6>2 DEF ViewTypes
        <5>3. Len(watchers) \in Nat /\ DOMAIN watchers = 1 .. Len(watchers)
          BY <1>1 DEF ViewTypes
        <5>4. \A i \in 1 .. frames[j + 1].next - 1 : i \in DOMAIN watchers
          BY <4>3, <5>2, <5>3 DEF IsKnown
        <5>. QED
          BY <1>5, <3>2, <4>1, <5>4 DEF Told, Listed
      <4>. QED
        BY <4>2, <4>3, <4>4 DEF Untold
    <3>3. ~Untold(frames[b + 1], x, watchers) /\ RemovalsAreFired
      BY <1>13, <1>19 DEF Ordered, Untold
    <3>4. \A k : HasKey(kept'[x], k) => HasKey(kept[x], k) \/
             \A j \in DOMAIN frames : /\ frames[j].do # "clear"
                                      /\ ErasesKey(frames[j], k) =>
                                           j < Len(frames) /\ Untold(frames[j + 1], x, watchers)
      BY <1>17, <1>19, <2>3, <3>2
    <3>. QED
      BY <1>1, <1>11, <2>2, <3>1, <3>3, <3>4, ToldStays DEF KeysMirror
  <2>. QED
    BY <2>4, <2>5, <2>6 DEF KeysMirror
<1>. QED
  BY <1>8, <1>14, <1>15, <1>16, <1>18, <1>19, KeysGoOn

\* A report ends: only now a set subscribes.
LEMMA ReplayEndsKeepsInv ==
    ASSUME KeysInv, kind # "list", Replay, Inner.next > Len(elements), ~broken', ~crossed'
    PROVE  KeysInv'
<1>1. ViewTypes /\ KeyTypes
  BY DEF KeysInv
<1>2. PICK b, y : b = Len(frames) - 1 /\ y = Inner.of
  OBVIOUS
<1>3. /\ UNCHANGED <<kind, elements, made, subscribed, ended, kept>>
      /\ frames' = Outer /\ Inner.do = "replay"
      /\ watchers' = IF kind = "set" /\ y \notin ended THEN Append(watchers, y) ELSE watchers
  BY <1>2 DEF Replay, Doing
<1>4. /\ b \in Nat /\ b + 1 = Len(frames) /\ DOMAIN frames = 1 .. b + 1
      /\ Inner = frames[b + 1] /\ Inner \in ViewFrames
  BY <1>1, <1>2, <1>3, InnerGoes
<1>5. /\ frames[b + 1].do = "replay" /\ frames[b + 1].of = y /\ y \in Watchers /\ y \in subscribed
      /\ kind = "set" => ~Listed(y)
  <2>1. IsKnown(frames[b + 1])
    BY <1>1, <1>4 DEF ViewTypes
  <2>2. y \in Watchers
    BY <1>2, <1>3, <1>4, ViewFrameFields
  <2>. QED
    BY <1>2, <1>3, <1>4, <2>1, <2>2 DEF IsKnown
<1>6. watchers' = watchers \/ \E z \in Watchers : watchers' = Append(watchers, z)
  BY <1>3, <1>5
<1>7. GoOn(b) /\ DOMAIN frames' = 1 .. b
  <2>1. Inner.do # "none" /\ b = Len(frames) - 1
    BY <1>2, <1>3
  <2>. QED
    BY <1>1, <1>3, <1>6, <2>1, InnerLeaves
<1>8. /\ b \in 0 .. Len(frames) /\ b <= Len(frames') /\ frames' \in Seq(ViewFrames)
      /\ Len(frames') = b /\ \A i \in 1 .. b : frames'[i] = frames[i]
      /\ \A i \in DOMAIN frames : i \in 1 .. b \/ i = b + 1
      /\ frames[Len(frames)] = frames[b + 1] /\ b = Len(frames) - 1
      /\ b + 1 \in DOMAIN frames /\ \A i \in 1 .. b : i \in DOMAIN frames /\ i # b + 1
  <2>1. /\ b \in 0 .. Len(frames) /\ b <= Len(frames') /\ frames' \in Seq(ViewFrames)
        /\ Len(frames') = b /\ \A i \in 1 .. b : frames'[i] = frames[i]
    BY <1>4, <1>7 DEF GoOn
  <2>2. /\ \A i \in DOMAIN frames : i \in 1 .. b \/ i = b + 1
        /\ frames[Len(frames)] = frames[b + 1] /\ b = Len(frames) - 1
        /\ b + 1 \in DOMAIN frames /\ \A i \in 1 .. b : i \in DOMAIN frames /\ i # b + 1
    BY <1>4
  <2>. QED
    BY ONLY <2>1, <2>2
<1>9. /\ watchers \in Seq(Watchers) /\ Len(watchers) \in Nat /\ DOMAIN watchers = 1 .. Len(watchers)
      /\ \A i, j \in DOMAIN watchers : watchers[i] = watchers[j] => i = j
      /\ \A i \in DOMAIN watchers : watchers[i] \in subscribed
  BY <1>1 DEF ViewTypes
<1>10. /\ watchers' \in Seq(Watchers) /\ Len(watchers') \in Nat /\ Len(watchers) <= Len(watchers')
       /\ \A i, j \in DOMAIN watchers' : watchers'[i] = watchers'[j] => i = j
       /\ \A i \in DOMAIN watchers' : watchers'[i] \in subscribed
       /\ \A i \in DOMAIN watchers' : \/ i \in DOMAIN watchers /\ watchers'[i] = watchers[i]
                                      \/ watchers'[i] = y
       /\ \A i \in DOMAIN watchers : i \in DOMAIN watchers' /\ watchers'[i] = watchers[i]
       /\ kind = "set" /\ y \notin ended => \E i \in DOMAIN watchers' : watchers'[i] = y
  <2>1. CASE kind = "set" /\ y \notin ended
    <3>1. PICK w : w = Append(watchers, y)
      OBVIOUS
    <3>2. /\ w \in Seq(Watchers) /\ Len(w) = Len(watchers) + 1 /\ DOMAIN w = 1 .. Len(watchers) + 1
          /\ (\A i \in 1 .. Len(watchers) : w[i] = watchers[i]) /\ w[Len(watchers) + 1] = y
      BY <1>5, <1>9, <3>1
    <3>3. \A i \in DOMAIN w : i \in DOMAIN watchers \/ i = Len(watchers) + 1
      BY <1>9, <3>2
    <3>4. \A i \in DOMAIN watchers : watchers[i] # y
      BY <1>5, <2>1 DEF Listed
    <3>5. \A i, j \in DOMAIN w : w[i] = w[j] => i = j
      BY <1>9, <3>2, <3>3, <3>4
    <3>6. Len(watchers) + 1 \in DOMAIN w
      BY <1>9, <3>2
    <3>7. watchers' = w
      BY <1>3, <2>1, <3>1
    <3>. QED
      BY <1>5, <1>9, <3>2, <3>3, <3>5, <3>6, <3>7
  <2>2. CASE ~(kind = "set" /\ y \notin ended)
    BY <1>3, <1>9, <2>2
  <2>. QED
    BY <2>1, <2>2
<1>11. \A x : (Listed(x) => Listed(x)') /\ (Listed(x)' => Listed(x) \/ x = y)
  BY <1>10 DEF Listed
<1>12. \A i \in 1 .. b : ~Reports(frames[i], y)
  BY <1>1, <1>5, <1>8 DEF ViewTypes, Reports
<1>13. ViewTypes'
  <2>1. /\ kind' \in {"list", "map", "set"} /\ made' \in Nat
        /\ elements' \in Seq(Items) /\ kept' \in [Watchers -> Seq(Items)]
        /\ subscribed' \subseteq Watchers /\ \A x \in Watchers \ subscribed' : kept'[x] = <<>>
    BY <1>1, <1>3 DEF ViewTypes
  <2>2. \A i \in 1 .. b : IsKnown(frames[i])'
    <3>1. SUFFICES ASSUME NEW i \in 1 .. b PROVE IsKnown(frames[i])'
      OBVIOUS
    <3>2. IsKnown(frames[i]) /\ frames'[i] = frames[i] /\ frames[i] \in ViewFrames
      <4>1. i \in DOMAIN frames /\ frames'[i] = frames[i]
        BY <1>8
      <4>2. frames \in Seq(ViewFrames) /\ \A j \in DOMAIN frames : IsKnown(frames[j])
        BY <1>1 DEF ViewTypes
      <4>. QED
        BY ONLY <4>1, <4>2
    <3>3. frames[i].do = "fire" => frames[i].next <= Len(watchers') + 1
      <4>1. frames[i].do = "fire" => frames[i].next \in Nat
        BY ONLY <3>2, ViewFrameFields
      <4>. QED
        BY <1>9, <1>10, <3>2, <4>1 DEF IsKnown
    <3>4. frames[i].do = "replay" /\ kind = "set" => ~Listed(frames[i].of)'
      BY <1>11, <1>12, <3>2 DEF IsKnown, Reports
    <3>. QED
      BY <1>3, <3>2, <3>3, <3>4 DEF IsKnown
  <2>3. \A i, j \in DOMAIN frames' :
           frames'[i].do = "replay" /\ Reports(frames'[j], frames'[i].of) => i = j
    BY <1>1, <1>7, <1>8 DEF ViewTypes
  <2>. QED
    BY <1>3, <1>7, <1>8, <1>10, <2>1, <2>2, <2>3 DEF ViewTypes
<1>14. KeyTypes'
  <2>1. /\ KeyedOnce(elements') /\ \A x \in Watchers : KeyedOnce(kept'[x])
        /\ \A i \in DOMAIN elements' : elements'[i].key \in ItemKeys /\ elements'[i].stamp <= made'
    BY <1>1, <1>3 DEF KeyTypes
  <2>2. \A i \in DOMAIN frames' : IsKeyed(frames[i])'
    <3>1. \A i \in 1 .. b : IsKeyed(frames[i]) /\ frames'[i] = frames[i]
      <4>1. \A i \in DOMAIN frames : IsKeyed(frames[i])
        BY <1>1 DEF KeyTypes
      <4>. QED
        BY <1>8, <4>1
    <3>2. \A i \in 1 .. b : IsKeyed(frames[i])'
      BY <1>3, <3>1 DEF IsKeyed
    <3>. QED
      BY <1>7, <3>2
  <2>3. \A x \in subscribed \ ended : Listed(x)' \/ \E i \in DOMAIN frames' : Reports(frames'[i], x)
    <3>1. SUFFICES ASSUME NEW x \in subscribed \ ended, ~Listed(x)'
                   PROVE  \E i \in DOMAIN frames' : Reports(frames'[i], x)
      OBVIOUS
    <3>2. ~Listed(x)
      BY <1>11, <3>1
    <3>3. kind = "set"
      BY <1>1, <3>1, <3>2 DEF KeyTypes
    <3>4. x # y
      BY <1>10, <3>1, <3>3 DEF Listed
    <3>5. PICK i \in DOMAIN frames : Reports(frames[i], x)
      BY <1>1, <3>1, <3>2 DEF KeyTypes
    <3>6. i \in 1 .. b
      BY <1>5, <1>8, <3>4, <3>5 DEF Reports
    <3>. QED
      BY <1>7, <1>8, <3>5, <3>6
  <2>4. kind # "set" => \A x \in subscribed : Listed(x)'
    BY <1>1, <1>11 DEF KeyTypes
  <2>. QED
    BY <1>3, <2>1, <2>2, <2>3, <2>4 DEF KeyTypes
<1>15. Fatal => Fatal'
  <2>1. ~WillDrop(frames[Len(frames)])
    BY <1>5, <1>8 DEF WillDrop
  <2>. QED
    BY <1>1, <1>3, <1>8, <2>1, FatalStays
<1>16. ASSUME Ordered PROVE Ordered'
  <2>1. \A j \in 1 .. b : frames[j].do = "erase" => HasKey(elements', frames[j].key)
    BY <1>3, <1>8, <1>16 DEF Ordered, ErasedOnce
  <2>2. ~(b < Len(frames')) /\ \A i \in DOMAIN frames' : i \in 1 .. b
    <3>1. b \in Nat /\ Len(frames') = b /\ DOMAIN frames' = 1 .. b
      BY <1>4, <1>7, <1>8
    <3>. QED
      BY ONLY <3>1
  <2>3. ViewTypes /\ Ordered /\ GoOn(b) /\ kind' = kind
    BY <1>1, <1>3, <1>7, <1>16
  <2>. QED
    BY ONLY <2>1, <2>2, <2>3, OrderStays
<1>17. ASSUME NEW x \in subscribed \ ended, ~Fatal, Ordered, ~Late(x)' PROVE KeysMirror(x)'
  <2>1. KeysMirror(x)
    <3>1. ~Brings(frames[Len(frames)], x, watchers)
      BY <1>5, <1>8 DEF Brings, Untold
    <3>2. \A v : v.stamp <= made /\ v \notin ToSet(elements) => v \notin ToSet(elements')
      BY <1>3
    <3>3. ~Late(x)
      BY <1>1, <1>6, <1>8, <1>17, <3>1, <3>2, LateStays
    <3>. QED
      BY <1>17, <3>3 DEF KeysInv
  <2>2. ~Renews(frames[b + 1], x, watchers) /\ ~Untold(frames[b + 1], x, watchers)
    BY <1>5 DEF Renews, Untold
  <2>3. KeptIsThere(x)'
    BY <1>1, <1>3, <1>7, <1>8, <2>1, <2>2, KeptStays DEF KeysMirror
  <2>4. ThereIsKept(x)'
    <3>1. \A p \in DOMAIN elements : \A k : ~Promises(frames[b + 1], x, watchers, p, k)
      <4>1. \A p \in DOMAIN elements : ~(frames[b + 1].next <= p)
        <5>1. frames[b + 1].next \in Nat /\ frames[b + 1].next > Len(elements)
          BY <1>3, <1>4, ViewFrameFields
        <5>2. DOMAIN elements = 1 .. Len(elements) /\ Len(elements) \in Nat
          BY <1>1 DEF ViewTypes
        <5>. QED
          BY <5>1, <5>2
      <4>. QED
        BY <1>5, <2>2, <4>1 DEF Promises, Brings, Reports, ErasesKey
    <3>2. \A i \in DOMAIN frames : i \in 1 .. b \/
             \A q \in DOMAIN elements, p \in DOMAIN elements' :
                ~Promises(frames[i], x, watchers, q, elements[q].key)
      BY <1>8, <3>1
    <3>. QED
      BY <1>1, <1>3, <1>7, <2>1, <3>2, ThereStays DEF KeysMirror
  <2>5. ClearedIsTold(x)' /\ ErasedIsTold(x)'
    <3>1. \A k : HasKey(kept'[x], k) => HasKey(kept[x], k)
      BY <1>3
    <3>2. RemovalsAreFired
      BY <1>17 DEF Ordered
    <3>. QED
      BY <1>1, <1>7, <2>1, <2>2, <3>1, <3>2, ToldStays DEF KeysMirror
  <2>. QED
    BY <2>3, <2>4, <2>5 DEF KeysMirror
<1>. QED
  BY <1>3, <1>13, <1>14, <1>15, <1>16, <1>17, KeysGoOn

LEMMA ReplayKeepsInv ==
    ASSUME KeysInv, kind # "list", Replay, ~broken', ~crossed'
    PROVE  KeysInv'
<1>1. ViewTypes /\ Inner.do = "replay"
  BY DEF KeysInv, Replay, Doing
<1>2. Inner.next \in Nat
  <2>1. Inner \in ViewFrames
    BY <1>1, InnerIs
  <2>. QED
    BY <1>1, <2>1, ViewFrameFields
<1>3. Inner.next > Len(elements) \/ Inner.next <= Len(elements)
  BY <1>1, <1>2 DEF ViewTypes
<1>. QED
  BY <1>3, ReplayEndsKeepsInv, ReplayGoesOnKeepsInv

\* A new subscription, whatever the collection.
LEMMA WatchBegins ==
    ASSUME ViewTypes, NEW y \in Watchers, Watch(y), NEW b, b = Len(frames),
           NEW r, r = [do |-> "replay", of |-> y, next |-> 1]
    PROVE  /\ r \in ViewFrames /\ r.do = "replay" /\ r.of = y /\ r.next = 1
           /\ watchers' = watchers \/ \E z \in Watchers : watchers' = Append(watchers, z)
           /\ b \in Nat /\ DOMAIN frames = 1 .. b /\ (b > 0 => frames[b].do = "user")
           /\ GoOn(b) /\ DOMAIN frames' = 1 .. b + 1 /\ frames'[b + 1] = r
           /\ b \in 0 .. Len(frames) /\ b <= Len(frames') /\ frames' \in Seq(ViewFrames)
           /\ Len(frames') = b + 1 /\ \A i \in 1 .. b : frames'[i] = frames[i]
           /\ \A i \in DOMAIN frames' : i \in 1 .. b \/ i = b + 1
           /\ b + 1 \in DOMAIN frames' /\ \A i \in 1 .. b : i \in DOMAIN frames /\ i # b + 1
           /\ \A x : Listed(x) => Listed(x)'
           /\ kind # "set" => Listed(y)'
           /\ \A i \in DOMAIN frames : ~Reports(frames[i], y)
           /\ ViewTypes'
<1>1. ViewTypes /\ b = Len(frames) /\ r = [do |-> "replay", of |-> y, next |-> 1]
  OBVIOUS
<1>2. y \in Watchers /\ Watch(y)
  OBVIOUS
<1>3. /\ UNCHANGED <<kind, elements, made, ended, kept>> /\ ProgramRuns /\ y \notin subscribed
      /\ subscribed' = subscribed \union {y} /\ frames' = Append(frames, r)
      /\ watchers' = IF kind = "set" THEN watchers ELSE Append(watchers, y)
  BY <1>1, <1>2 DEF Watch
<1>4. r \in ViewFrames /\ r.do = "replay" /\ r.of = y /\ r.next = 1
  BY ONLY <1>1, <1>2, ViewFramesAre
<1>5. watchers' = watchers \/ \E z \in Watchers : watchers' = Append(watchers, z)
  BY <1>3
<1>6. /\ b \in Nat /\ DOMAIN frames = 1 .. b /\ (b > 0 => frames[b].do = "user")
      /\ GoOn(b) /\ DOMAIN frames' = 1 .. b + 1 /\ frames'[b + 1] = r
  <2>1. b = Len(frames)
    BY <1>1
  <2>2. /\ b \in Nat /\ DOMAIN frames = 1 .. b /\ (b > 0 => frames[b].do = "user")
        /\ \A g \in ViewFrames : frames' = frames \o <<g>> \/ frames' = Append(frames, g) =>
              GoOn(b) /\ DOMAIN frames' = 1 .. b + 1 /\ frames'[b + 1] = g
    BY ONLY <1>1, <1>3, <1>5, <2>1, ProgramCalls
  <2>. QED
    BY <1>3, <1>4, <2>2
<1>7. /\ b \in 0 .. Len(frames) /\ b <= Len(frames') /\ frames' \in Seq(ViewFrames)
      /\ Len(frames') = b + 1 /\ \A i \in 1 .. b : frames'[i] = frames[i]
      /\ \A i \in DOMAIN frames' : i \in 1 .. b \/ i = b + 1
      /\ b = Len(frames) /\ b + 1 \in DOMAIN frames' /\ \A i \in 1 .. b : i \in DOMAIN frames /\ i # b + 1
  BY <1>1, <1>6 DEF GoOn
<1>8. /\ watchers \in Seq(Watchers) /\ Len(watchers) \in Nat /\ DOMAIN watchers = 1 .. Len(watchers)
      /\ \A i, j \in DOMAIN watchers : watchers[i] = watchers[j] => i = j
      /\ \A i \in DOMAIN watchers : watchers[i] \in subscribed
  BY <1>1 DEF ViewTypes
<1>9. /\ watchers' \in Seq(Watchers) /\ Len(watchers') \in Nat /\ Len(watchers) <= Len(watchers')
      /\ \A i, j \in DOMAIN watchers' : watchers'[i] = watchers'[j] => i = j
      /\ \A i \in DOMAIN watchers' : watchers'[i] \in subscribed'
      /\ \A i \in DOMAIN watchers : i \in DOMAIN watchers' /\ watchers'[i] = watchers[i]
      /\ kind # "set" => \E i \in DOMAIN watchers' : watchers'[i] = y
  <2>1. CASE kind # "set"
    <3>1. PICK w : w = Append(watchers, y)
      OBVIOUS
    <3>2. /\ w \in Seq(Watchers) /\ Len(w) = Len(watchers) + 1 /\ DOMAIN w = 1 .. Len(watchers) + 1
          /\ (\A i \in 1 .. Len(watchers) : w[i] = watchers[i]) /\ w[Len(watchers) + 1] = y
      BY <1>8, <3>1
    <3>3. \A i \in DOMAIN w : i \in DOMAIN watchers \/ i = Len(watchers) + 1
      BY <1>8, <3>2
    <3>4. \A i \in DOMAIN watchers : watchers[i] # y
      BY <1>3, <1>8
    <3>5. \A i, j \in DOMAIN w : w[i] = w[j] => i = j
      BY <1>8, <3>2, <3>3, <3>4
    <3>6. Len(watchers) + 1 \in DOMAIN w
      BY <1>8, <3>2
    <3>7. watchers' = w
      BY <1>3, <2>1, <3>1
    <3>. QED
      BY <1>3, <1>8, <3>2, <3>3, <3>5, <3>6, <3>7
  <2>2. CASE kind = "set"
    BY <1>3, <1>8, <2>2
  <2>. QED
    BY <2>1, <2>2
<1>10. \A x : Listed(x) => Listed(x)'
  BY <1>9 DEF Listed
<1>11. ~Listed(y) /\ \A i \in DOMAIN frames : ~Reports(frames[i], y)
  <2>1. ~Listed(y)
    BY <1>3, <1>8 DEF Listed
  <2>2. \A i \in DOMAIN frames : IsKnown(frames[i])
    BY <1>1 DEF ViewTypes
  <2>. QED
    BY <1>3, <2>1, <2>2 DEF IsKnown, Reports
<1>12. ViewTypes'
  <2>1. /\ kind' \in {"list", "map", "set"} /\ made' \in Nat
        /\ elements' \in Seq(Items) /\ kept' \in [Watchers -> Seq(Items)]
        /\ subscribed' \subseteq Watchers /\ \A x \in Watchers \ subscribed' : kept'[x] = <<>>
    BY <1>1, <1>3 DEF ViewTypes
  <2>2. \A i \in 1 .. b : IsKnown(frames[i])'
    <3>1. SUFFICES ASSUME NEW i \in 1 .. b PROVE IsKnown(frames[i])'
      OBVIOUS
    <3>2. IsKnown(frames[i]) /\ frames'[i] = frames[i] /\ frames[i] \in ViewFrames
      <4>1. i \in DOMAIN frames /\ frames'[i] = frames[i]
        BY <1>7
      <4>2. frames \in Seq(ViewFrames) /\ \A j \in DOMAIN frames : IsKnown(frames[j])
        BY <1>1 DEF ViewTypes
      <4>. QED
        BY ONLY <4>1, <4>2
    <3>3. frames[i].do = "fire" => frames[i].next <= Len(watchers') + 1
      <4>1. frames[i].do = "fire" => frames[i].next \in Nat
        BY ONLY <3>2, ViewFrameFields
      <4>. QED
        BY <1>8, <1>9, <3>2, <4>1 DEF IsKnown
    <3>4. frames[i].do = "replay" /\ kind = "set" => ~Listed(frames[i].of)'
      BY <1>3, <3>2 DEF IsKnown, Listed
    <3>. QED
      BY <1>3, <3>2, <3>3, <3>4 DEF IsKnown
  <2>3. IsKnown(frames[b + 1])'
    <3>1. kind = "set" => ~Listed(y)'
      BY <1>3, <1>11 DEF Listed
    <3>. QED
      BY <1>3, <1>4, <1>6, <3>1 DEF IsKnown
  <2>4. \A i, j \in DOMAIN frames' :
           frames'[i].do = "replay" /\ Reports(frames'[j], frames'[i].of) => i = j
    <3>1. SUFFICES ASSUME NEW i \in DOMAIN frames', NEW j \in DOMAIN frames', frames'[i].do = "replay",
                          Reports(frames'[j], frames'[i].of), i # j
                   PROVE  FALSE
      OBVIOUS
    <3>2. CASE i \in 1 .. b /\ j \in 1 .. b
      BY <1>1, <1>7, <3>1, <3>2 DEF ViewTypes
    <3>3. CASE i = b + 1 /\ j \in 1 .. b
      BY <1>4, <1>6, <1>7, <1>11, <3>1, <3>3
    <3>4. CASE i \in 1 .. b /\ j = b + 1
      <4>1. frames[i].of = y /\ frames[i].do = "replay"
        BY <1>4, <1>6, <1>7, <3>1, <3>4 DEF Reports
      <4>. QED
        BY <1>7, <1>11, <3>4, <4>1 DEF Reports
    <3>. QED
      BY <1>7, <3>1, <3>2, <3>3, <3>4
  <2>. QED
    BY <1>7, <1>9, <2>1, <2>2, <2>3, <2>4 DEF ViewTypes
<1>13. kind # "set" => Listed(y)'
  BY <1>9 DEF Listed
<1>. QED
  BY ONLY <1>4, <1>5, <1>6, <1>7, <1>10, <1>11, <1>12, <1>13

\* A new subscription; a map subscribes before it reports what it holds.
LEMMA WatchKeepsInv ==
    ASSUME KeysInv, kind # "list", NEW y \in Watchers, Watch(y), ~broken', ~crossed'
    PROVE  KeysInv'
<1>1. ViewTypes /\ KeyTypes
  BY DEF KeysInv
<1>2. PICK b, r : b = Len(frames) /\ r = [do |-> "replay", of |-> y, next |-> 1]
  OBVIOUS
<1>3. /\ UNCHANGED <<kind, elements, made, ended, kept>>
      /\ subscribed' = subscribed \union {y} /\ y \notin subscribed /\ ~Under(frames, "clear")
  BY DEF Watch
<1>4. r \in ViewFrames /\ r.do = "replay" /\ r.of = y /\ r.next = 1
  BY <1>1, <1>2, WatchBegins
<1>5. watchers' = watchers \/ \E z \in Watchers : watchers' = Append(watchers, z)
  BY <1>1, <1>2, WatchBegins
<1>6. /\ b \in Nat /\ DOMAIN frames = 1 .. b /\ (b > 0 => frames[b].do = "user")
      /\ GoOn(b) /\ DOMAIN frames' = 1 .. b + 1 /\ frames'[b + 1] = r
  BY <1>1, <1>2, WatchBegins
<1>7. /\ b \in 0 .. Len(frames) /\ b <= Len(frames') /\ frames' \in Seq(ViewFrames)
      /\ Len(frames') = b + 1 /\ \A i \in 1 .. b : frames'[i] = frames[i]
      /\ \A i \in DOMAIN frames' : i \in 1 .. b \/ i = b + 1
      /\ b = Len(frames) /\ b + 1 \in DOMAIN frames' /\ \A i \in 1 .. b : i \in DOMAIN frames /\ i # b + 1
  BY <1>1, <1>2, WatchBegins
<1>8. kind # "set" => Listed(y)'
  BY <1>1, <1>2, WatchBegins
<1>9. \A x : Listed(x) => Listed(x)'
  BY <1>1, <1>2, WatchBegins
<1>10. ViewTypes'
  BY <1>1, <1>2, WatchBegins
<1>11. KeyTypes'
  <2>1. /\ KeyedOnce(elements') /\ \A x \in Watchers : KeyedOnce(kept'[x])
        /\ \A i \in DOMAIN elements' : elements'[i].key \in ItemKeys /\ elements'[i].stamp <= made'
    BY <1>1, <1>3 DEF KeyTypes
  <2>2. \A i \in DOMAIN frames' : IsKeyed(frames[i])'
    <3>1. IsKeyed(frames[b + 1])'
      BY <1>4, <1>6 DEF IsKeyed
    <3>2. \A i \in 1 .. b : IsKeyed(frames[i])'
      BY <1>1, <1>3, <1>7 DEF KeyTypes, IsKeyed
    <3>. QED
      BY <1>7, <3>1, <3>2
  <2>3. \A x \in subscribed' \ ended' : Listed(x)' \/ \E i \in DOMAIN frames' : Reports(frames'[i], x)
    <3>1. SUFFICES ASSUME NEW x \in subscribed' \ ended', ~Listed(x)'
                   PROVE  \E i \in DOMAIN frames' : Reports(frames'[i], x)
      OBVIOUS
    <3>2. CASE x = y
      BY <1>4, <1>6, <1>7, <3>2 DEF Reports
    <3>3. CASE x # y
      <4>1. x \in subscribed \ ended /\ ~Listed(x)
        BY <1>3, <1>9, <3>1, <3>3
      <4>2. PICK i \in DOMAIN frames : Reports(frames[i], x)
        BY <1>1, <4>1 DEF KeyTypes
      <4>. QED
        BY <1>6, <1>7, <4>2
    <3>. QED
      BY <3>2, <3>3
  <2>4. kind # "set" => \A x \in subscribed' : Listed(x)'
    BY <1>1, <1>3, <1>8, <1>9 DEF KeyTypes
  <2>. QED
    BY <1>3, <2>1, <2>2, <2>3, <2>4 DEF KeyTypes
<1>12. Fatal => Fatal'
  BY <1>1, <1>3, <1>7, FatalStays
<1>13. ASSUME Ordered PROVE Ordered'
  <2>1. \A j \in 1 .. b : frames[j].do = "erase" => HasKey(elements', frames[j].key)
    BY <1>3, <1>7, <1>13 DEF Ordered, ErasedOnce
  <2>2. \A j \in 1 .. b : frames[j].do # "clear"
    BY <1>3, <1>6 DEF Under
  <2>. QED
    BY <1>1, <1>3, <1>4, <1>6, <1>7, <1>13, <2>1, <2>2, OrderStays
<1>14. ASSUME NEW x \in (subscribed \ ended)', ~Fatal, Ordered, ~Late(x)' PROVE KeysMirror(x)'
  <2>1. CASE x # y
    <3>1. x \in subscribed \ ended
      BY <1>3, <1>14, <2>1
    <3>2. KeysMirror(x)
      <4>1. \A v : v.stamp <= made /\ v \notin ToSet(elements) => v \notin ToSet(elements')
        BY <1>3
      <4>2. ~Late(x)
        BY <1>1, <1>5, <1>7, <1>14, <4>1, LateStays
      <4>. QED
        BY <1>14, <3>1, <4>2 DEF KeysInv
    <3>3. \A i \in DOMAIN frames : i \in 1 .. b
      BY <1>6
    <3>4. KeptIsThere(x)'
      BY <1>1, <1>3, <1>6, <3>2, <3>3, KeptStays DEF KeysMirror
    <3>5. ThereIsKept(x)'
      BY <1>1, <1>3, <1>6, <3>2, <3>3, ThereStays DEF KeysMirror
    <3>6. ClearedIsTold(x)' /\ ErasedIsTold(x)'
      <4>1. \A k : HasKey(kept'[x], k) => HasKey(kept[x], k)
        BY <1>3
      <4>2. RemovalsAreFired /\ ~(b < Len(frames))
        BY <1>6, <1>7, <1>14 DEF Ordered
      <4>3. \A j \in DOMAIN frames' : j \in 1 .. b \/ (frames'[j].do # "clear" /\ frames'[j].do # "erase")
        BY <1>4, <1>6, <1>7
      <4>. QED
        BY <1>1, <1>6, <3>2, <4>1, <4>2, <4>3, ToldStays DEF KeysMirror
    <3>. QED
      BY <3>4, <3>5, <3>6 DEF KeysMirror
  <2>2. CASE x = y
    <3>1. kept'[x] = <<>> /\ DOMAIN kept'[x] = {} /\ \A k : ~HasKey(kept'[x], k)
      <4>1. kept[y] = <<>>
        BY <1>1, <1>3 DEF ViewTypes
      <4>. QED
        BY <1>3, <2>2, <4>1 DEF HasKey
    <3>2. ThereIsKept(x)'
      <4>1. \A p \in DOMAIN elements' : 1 <= p
        BY <1>1, <1>3 DEF ViewTypes
      <4>2. \A p \in DOMAIN elements' : \A k : Promises(frames'[b + 1], x, watchers', p, k)
        BY <1>4, <1>6, <2>2, <4>1 DEF Promises, Reports
      <4>. QED
        BY <1>7, <4>2 DEF ThereIsKept
    <3>. QED
      BY <3>1, <3>2 DEF KeysMirror, KeptIsThere, ClearedIsTold, ErasedIsTold
  <2>. QED
    BY <2>1, <2>2
<1>. QED
  BY <1>3, <1>10, <1>11, <1>12, <1>13, <1>14, KeysGoOn

-----------------------------------------------------------------------------
(***************************************************************************)
(* Lists: what a step leaves as it is                                       *)
(***************************************************************************)

\* What the calls of a list mean to a view.
LEMMA CalmMeans ==
    ASSUME ViewTypes, NEW x, Listed(x), NEW f \in ViewFrames, ~Busy(f)
    PROVE  Silent(f, x, watchers) /\ f.do \notin {"clear", "addTo", "replay"}
<1>1. f.do \notin {"clear", "addTo", "replay"} /\ (f.do = "fire" => ~(f.next <= Len(watchers)))
  BY DEF Busy
<1>2. ASSUME f.do = "fire" PROVE Told(f, x, watchers)
  <2>1. f.next \in Nat /\ Len(watchers) \in Nat /\ DOMAIN watchers = 1 .. Len(watchers)
    BY <1>2, ViewFrameFields DEF ViewTypes
  <2>2. PICK i \in DOMAIN watchers : watchers[i] = x
    BY DEF Listed
  <2>3. i \in 1 .. f.next - 1
    BY <1>1, <1>2, <2>1
  <2>. QED
    BY <2>2, <2>3 DEF Told
<1>. QED
  BY <1>1, <1>2 DEF Silent, Reports, Brings, Untold

LEMMA AllCalm ==
    ASSUME ViewTypes, kind = "list", NEW s \in Seq(ViewFrames), ~Awaits(s)
    PROVE  \A i \in DOMAIN s : ~Busy(s[i])
BY DEF Awaits, Under, Busy

\* Calls that are not an event.
LEMMA PlainMeans ==
    ASSUME NEW f, f.do \in {"user", "addAll", "removeAll"}
    PROVE  ~Busy(f) /\ \A x, ws : Silent(f, x, ws)
BY DEF Busy, Silent, Reports, Brings, Untold

\* An event that has reached no one.
LEMMA FiresToAll ==
    ASSUME NEW f, f.do = "fire", f.next = 1
    PROVE  \A x, ws : Untold(f, x, ws)
<1>1. 1 .. f.next - 1 = {}
  OBVIOUS
<1>. QED
  BY <1>1 DEF Untold, Told

\* A view for which nothing is on its way.
LEMMA SilentMirrors ==
    ASSUME NEW x, kept'[x] = elements', \A i \in DOMAIN frames' : Silent(frames'[i], x, watchers')
    PROVE  ListMirrors(x)'
<1>1. \A i \in DOMAIN frames' : /\ ~Reports(frames'[i], x) /\ ~Untold(frames'[i], x, watchers')
                                /\ ~(frames'[i].do = "addTo" /\ frames'[i].of = x)
                                /\ frames'[i].do # "clear"
  BY DEF Silent, Brings
<1>2. ListReported(x)' /\ ListHalfTold(x)'
  BY <1>1 DEF ListReported, ListHalfTold
<1>3. ListUntold(x)'
  BY <1>1 DEF ListUntold
<1>4. ListCleared(x)'
  BY <1>1 DEF ListCleared
<1>5. ListQuiet(x)'
  BY DEF ListQuiet
<1>. QED
  BY <1>2, <1>3, <1>4, <1>5 DEF ListMirrors

\* A step that means nothing to x.
Likewise(f, g, x) ==
    /\ f.do = "fire" /\ g.do = "fire" /\ g.event = f.event
    /\ Untold(f, x, watchers) /\ Untold(g, x, watchers)

LEMMA MirrorStays ==
    ASSUME ViewTypes, NEW b, GoOn(b), NEW x, ListMirrors(x), elements' = elements, kept'[x] = kept[x],
           \A i \in DOMAIN frames : i \in 1 .. b \/ Silent(frames[i], x, watchers) \/
              (/\ i \in DOMAIN frames' /\ watchers' = watchers
               /\ Likewise(frames[i], frames'[i], x)),
           \A i \in DOMAIN frames' : i \in 1 .. b \/ Silent(frames'[i], x, watchers') \/
              (/\ i \in DOMAIN frames /\ watchers' = watchers
               /\ Likewise(frames[i], frames'[i], x))
    PROVE  ListMirrors(x)'
<1>1. /\ b \in 0 .. Len(frames) /\ \A i \in 1 .. b : frames'[i] = frames[i]
      /\ watchers' = watchers \/ \E y \in Watchers : watchers' = Append(watchers, y)
      /\ \A i \in 1 .. b : i \in DOMAIN frames /\ i \in DOMAIN frames'
  BY GoingOn DEF GoOn
<1>2. \A i \in 1 .. b : /\ Untold(frames'[i], x, watchers') <=> Untold(frames[i], x, watchers)
                        /\ Silent(frames'[i], x, watchers') <=> Silent(frames[i], x, watchers)
  <2>1. \A i \in 1 .. b : /\ Untold(frames'[i], x, watchers') <=> Untold(frames[i], x, watchers)
                          /\ Brings(frames'[i], x, watchers') <=> Brings(frames[i], x, watchers)
    BY <1>1, MeaningStays
  <2>. QED
    BY <1>1, <2>1 DEF Silent
<1>3. ASSUME NEW i \in DOMAIN frames', ~Silent(frames'[i], x, watchers')
      PROVE  /\ i \in DOMAIN frames /\ ~Silent(frames[i], x, watchers)
             /\ frames'[i].do = frames[i].do /\ (frames[i].do # "fire" => frames'[i] = frames[i])
             /\ (frames[i].do = "fire" => frames'[i].event = frames[i].event)
             /\ (Untold(frames'[i], x, watchers') <=> Untold(frames[i], x, watchers))
  <2>1. CASE i \in 1 .. b
    BY <1>1, <1>2, <1>3, <2>1
  <2>2. CASE i \notin 1 .. b
    BY <1>3, <2>2 DEF Likewise, Silent
  <2>. QED
    BY <2>1, <2>2
<1>4. ASSUME NEW i \in DOMAIN frames, ~Silent(frames[i], x, watchers)
      PROVE  /\ i \in DOMAIN frames' /\ ~Silent(frames'[i], x, watchers')
             /\ frames'[i].do = frames[i].do
             /\ (Untold(frames'[i], x, watchers') <=> Untold(frames[i], x, watchers))
  <2>1. CASE i \in 1 .. b
    BY <1>1, <1>2, <1>4, <2>1
  <2>2. CASE i \notin 1 .. b
    BY <1>4, <2>2 DEF Likewise, Silent
  <2>. QED
    BY <2>1, <2>2
<1>5. (\E i \in DOMAIN frames' : frames'[i].do = "clear") <=> \E i \in DOMAIN frames : frames[i].do = "clear"
  BY <1>3, <1>4 DEF Silent
<1>6. (\E i \in DOMAIN frames' : Untold(frames'[i], x, watchers'))
         <=> \E i \in DOMAIN frames : Untold(frames[i], x, watchers)
  BY <1>3, <1>4 DEF Silent
<1>7. ListReported(x)'
  <2>1. SUFFICES ASSUME NEW i \in DOMAIN frames', Reports(frames'[i], x)
                 PROVE  /\ frames'[i].next <= Len(elements') + 1
                        /\ kept'[x] = SubSeq(elements', 1, frames'[i].next - 1)
    BY DEF ListReported
  <2>2. i \in DOMAIN frames /\ frames'[i] = frames[i]
    BY <1>3, <2>1 DEF Silent, Reports
  <2>. QED
    BY <2>1, <2>2 DEF ListMirrors, ListReported
<1>8. ListHalfTold(x)'
  <2>1. SUFFICES ASSUME NEW i \in DOMAIN frames', frames'[i].do = "addTo", frames'[i].of = x
                 PROVE  /\ frames'[i].event.op # "remove" /\ IsMade(frames[i].event)'
                        /\ kept'[x] = RemoveAt(elements', frames'[i].event.at)
    BY DEF ListHalfTold
  <2>2. i \in DOMAIN frames /\ frames'[i] = frames[i]
    BY <1>3, <2>1 DEF Silent, Brings
  <2>. QED
    BY <2>1, <2>2 DEF ListMirrors, ListHalfTold, IsMade
<1>9. ListUntold(x)'
  <2>1. SUFFICES ASSUME NEW i \in DOMAIN frames', Untold(frames'[i], x, watchers'),
                        \A j \in DOMAIN frames' : frames'[j].do # "clear"
                 PROVE  IsMade(frames[i].event)' /\ kept'[x] = Before(frames[i].event)'
    BY DEF ListUntold
  <2>2. i \in DOMAIN frames /\ frames'[i].event = frames[i].event /\ Untold(frames[i], x, watchers)
    BY <1>3, <2>1 DEF Silent, Untold
  <2>3. \A j \in DOMAIN frames : frames[j].do # "clear"
    BY <1>5, <2>1
  <2>4. IsMade(frames[i].event) /\ kept[x] = Before(frames[i].event)
    BY <2>2, <2>3 DEF ListMirrors, ListUntold
  <2>. QED
    BY <2>2, <2>4 DEF IsMade, Before
<1>10. ListCleared(x)'
  <2>1. SUFFICES ASSUME NEW i \in DOMAIN frames', frames'[i].do = "clear", NEW n, n = Len(frames'[i].events)
                 PROVE  /\ \A j \in 1 .. n :
                             /\ n + 1 - j \in DOMAIN elements'
                             /\ frames'[i].events[j] = Removed(n + 1 - j, elements'[n + 1 - j])
                        /\ \A j \in DOMAIN frames' : Untold(frames'[j], x, watchers') =>
                             /\ n + 1 \in DOMAIN elements'
                             /\ frames'[j].event = Removed(n + 1, elements'[n + 1])
                             /\ kept'[x] = SubSeq(elements', 1, n + 1)
                        /\ (\A j \in DOMAIN frames' : ~Untold(frames'[j], x, watchers')) =>
                             kept'[x] = SubSeq(elements', 1, n)
    BY DEF ListCleared
  <2>2. i \in DOMAIN frames /\ frames'[i] = frames[i]
    BY <1>3, <2>1 DEF Silent
  <2>3. /\ \A j \in 1 .. n : /\ n + 1 - j \in DOMAIN elements
                             /\ frames[i].events[j] = Removed(n + 1 - j, elements[n + 1 - j])
        /\ \A j \in DOMAIN frames : Untold(frames[j], x, watchers) =>
             /\ n + 1 \in DOMAIN elements /\ frames[j].event = Removed(n + 1, elements[n + 1])
             /\ kept[x] = SubSeq(elements, 1, n + 1)
        /\ (\A j \in DOMAIN frames : ~Untold(frames[j], x, watchers)) => kept[x] = SubSeq(elements, 1, n)
    BY <2>1, <2>2 DEF ListMirrors, ListCleared
  <2>4. \A j \in DOMAIN frames' : Untold(frames'[j], x, watchers') =>
           j \in DOMAIN frames /\ frames'[j].event = frames[j].event /\ Untold(frames[j], x, watchers)
    BY <1>3 DEF Silent, Untold
  <2>. QED
    BY <1>6, <2>2, <2>3, <2>4
<1>11. ListQuiet(x)'
  <2>1. SUFFICES ASSUME \A i \in DOMAIN frames' : Silent(frames'[i], x, watchers')
                 PROVE  kept'[x] = elements'
    BY DEF ListQuiet
  <2>2. \A i \in DOMAIN frames : Silent(frames[i], x, watchers)
    BY <1>4, <2>1
  <2>. QED
    BY <2>2 DEF ListMirrors, ListQuiet
<1>. QED
  BY <1>7, <1>8, <1>9, <1>10, <1>11 DEF ListMirrors

LEMMA OneStays ==
    ASSUME ViewTypes, OneAtATime, NEW b, GoOn(b), UNCHANGED <<watchers, subscribed>>,
           \A i \in DOMAIN frames' :
              \/ i \in 1 .. b
              \/ frames'[i].do \in {"user", "addAll", "removeAll"}
              \/ /\ i = b + 1 /\ i \in DOMAIN frames /\ frames'[i].do = frames[i].do
                 /\ frames[i].do \in {"fire", "replay"}
                 /\ Busy(frames'[i]) => Busy(frames[i])
                 /\ \A x : Untold(frames'[i], x, watchers) => Untold(frames[i], x, watchers)
    PROVE  OneAtATime'
<1>1. /\ watchers' = watchers /\ subscribed' = subscribed /\ b \in Nat
      /\ \A i \in 1 .. b : i \in DOMAIN frames /\ i \in DOMAIN frames' /\ frames'[i] = frames[i]
      /\ DOMAIN frames = 1 .. Len(frames)
  BY GoingOn
<1>2. ASSUME NEW i \in DOMAIN frames'
      PROVE  \/ /\ frames'[i].do \in {"user", "addAll", "removeAll"}
                /\ ~Busy(frames'[i]) /\ \A x : ~Untold(frames'[i], x, watchers)
             \/ /\ i \in DOMAIN frames /\ frames'[i].do = frames[i].do
                /\ frames[i].do \notin {"fire", "replay"} => i \in 1 .. b
                /\ Busy(frames'[i]) => Busy(frames[i])
                /\ \A x : Untold(frames'[i], x, watchers) => Untold(frames[i], x, watchers)
  <2>1. CASE i \in 1 .. b
    BY <1>1, <2>1
  <2>2. CASE frames'[i].do \in {"user", "addAll", "removeAll"}
    BY <2>2 DEF Busy, Untold
  <2>. QED
    BY <2>1, <2>2
<1>3. (\A x \in subscribed : Listed(x))'
  BY <1>1 DEF OneAtATime, Listed
<1>4. \A j \in DOMAIN frames' : frames'[j].do # "erase"
  BY <1>2 DEF OneAtATime
<1>5. \A i, j \in DOMAIN frames' :
         frames'[i].do = "replay" => frames'[j].do \notin {"fire", "clear", "addTo"}
  <2>1. SUFFICES ASSUME NEW i \in DOMAIN frames', NEW j \in DOMAIN frames', frames'[i].do = "replay",
                        frames'[j].do \in {"fire", "clear", "addTo"}
                 PROVE  FALSE
    OBVIOUS
  <2>2. i \in DOMAIN frames /\ frames[i].do = "replay"
    BY <1>2, <2>1
  <2>3. j \in DOMAIN frames /\ frames[j].do \in {"fire", "clear", "addTo"}
    BY <1>2, <2>1
  <2>. QED
    BY <2>2, <2>3 DEF OneAtATime
<1>6. ASSUME NEW j \in DOMAIN frames', frames'[j].do = "addTo"
      PROVE  /\ \E i \in 1 .. j - 1 : frames'[i].do = "fire"
             /\ \A i \in DOMAIN frames' : ~Untold(frames'[i], frames'[j].of, watchers')
  <2>1. j \in 1 .. b /\ j \in DOMAIN frames /\ frames[j] = frames'[j]
    <3>1. j \in 1 .. b
      BY <1>2, <1>6
    <3>. QED
      BY <1>1, <3>1
  <2>2. /\ \E i \in 1 .. j - 1 : frames[i].do = "fire"
        /\ \A i \in DOMAIN frames : ~Untold(frames[i], frames[j].of, watchers)
    BY <1>6, <2>1 DEF OneAtATime
  <2>3. \A i \in 1 .. j - 1 : i \in 1 .. b
    BY <1>1, <2>1
  <2>4. \E i \in 1 .. j - 1 : frames'[i].do = "fire"
    BY <1>1, <2>2, <2>3
  <2>5. \A i \in DOMAIN frames' : ~Untold(frames'[i], frames'[j].of, watchers')
    BY <1>1, <1>2, <2>1, <2>2
  <2>. QED
    BY <2>4, <2>5
<1>7. ASSUME NEW j \in DOMAIN frames', NEW i \in 1 .. j - 1, Busy(frames'[i]), Busy(frames'[j]),
             frames'[i].do # "replay"
      PROVE  \/ frames'[i].do = "clear" /\ frames'[j].do = "fire"
             \/ frames'[i].do = "fire" /\ frames'[j].do = "addTo"
  <2>1. i \in DOMAIN frames'
    <3>1. DOMAIN frames' = 1 .. Len(frames') /\ Len(frames') \in Nat
      BY GoingOn
    <3>. QED
      BY <3>1
  <2>2. /\ i \in DOMAIN frames /\ frames'[i].do = frames[i].do /\ Busy(frames[i])
        /\ j \in DOMAIN frames /\ frames'[j].do = frames[j].do /\ Busy(frames[j])
    BY <1>2, <1>7, <2>1
  <2>. QED
    BY <1>7, <2>2 DEF OneAtATime
<1>8. \A f : Busy(f)' <=> Busy(f)
  BY <1>1 DEF Busy
<1>9. \A j \in DOMAIN frames' : \A i \in 1 .. j - 1 :
         Busy(frames[i])' /\ Busy(frames[j])' /\ frames'[i].do # "replay" =>
            \/ frames'[i].do = "clear" /\ frames'[j].do = "fire"
            \/ frames'[i].do = "fire" /\ frames'[j].do = "addTo"
  BY <1>1, <1>7 DEF Busy
<1>. QED
  BY <1>3, <1>4, <1>5, <1>6, <1>9 DEF OneAtATime

\* A new event, or a clear, when all else is over.
LEMMA OneBusy ==
    ASSUME ViewTypes, OneAtATime, NEW b, GoOn(b), UNCHANGED <<watchers, subscribed>>,
           \A i \in 1 .. b : ~Busy(frames[i]),
           \A i \in DOMAIN frames' :
              \/ i \in 1 .. b
              \/ frames'[i].do \in {"user", "addAll", "removeAll"}
              \/ frames'[i].do = "clear" /\ i = b + 1
              \/ frames'[i].do = "fire" /\ i = Len(frames')
    PROVE  OneAtATime'
<1>1. /\ watchers' = watchers /\ subscribed' = subscribed /\ b \in Nat
      /\ \A i \in 1 .. b : i \in DOMAIN frames /\ i \in DOMAIN frames' /\ frames'[i] = frames[i]
      /\ DOMAIN frames' = 1 .. Len(frames') /\ Len(frames') \in Nat
  BY GoingOn
<1>2. \A i \in 1 .. b : ~Busy(frames'[i])
  BY <1>1
<1>3. (\A x \in subscribed : Listed(x))'
  BY <1>1 DEF OneAtATime, Listed
<1>4. \A j \in DOMAIN frames' : frames'[j].do \notin {"erase", "replay", "addTo"}
  <2>1. \A j \in 1 .. b : frames'[j].do \notin {"erase", "replay", "addTo"}
    BY <1>1, <1>2 DEF OneAtATime, Busy
  <2>. QED
    BY <2>1
<1>5. ASSUME NEW j \in DOMAIN frames', NEW i \in 1 .. j - 1, Busy(frames'[i]), Busy(frames'[j])
      PROVE  frames'[i].do = "clear" /\ frames'[j].do = "fire"
  <2>1. i \in DOMAIN frames' /\ i # Len(frames') /\ i \notin 1 .. b /\ j \notin 1 .. b /\ j # b + 1
    <3>1. i \notin 1 .. b /\ j \notin 1 .. b
      BY <1>2, <1>5
    <3>2. PICK m : m = Len(frames')
      OBVIOUS
    <3>3. m \in Nat /\ DOMAIN frames' = 1 .. m /\ b \in Nat
      BY <1>1, <3>2
    <3>4. j \in 1 .. m /\ i \in 1 .. j - 1
      BY <3>3
    <3>5. i \in 1 .. m /\ i # m /\ j # b + 1
      BY ONLY <3>1, <3>3, <3>4
    <3>. QED
      BY <3>1, <3>2, <3>3, <3>5
  <2>2. frames'[i].do \notin {"user", "addAll", "removeAll"} /\ frames'[j].do \notin {"user", "addAll", "removeAll"}
    BY <1>5 DEF Busy
  <2>. QED
    BY <2>1, <2>2
<1>6. \A j \in DOMAIN frames' : \A i \in 1 .. j - 1 :
         Busy(frames[i])' /\ Busy(frames[j])' /\ frames'[i].do # "replay" =>
            \/ frames'[i].do = "clear" /\ frames'[j].do = "fire"
            \/ frames'[i].do = "fire" /\ frames'[j].do = "addTo"
  BY <1>1, <1>5 DEF Busy
<1>. QED
  BY <1>3, <1>4, <1>6 DEF OneAtATime

\* An event of a list: all views have what the list was before it.
LEMMA ListFires ==
    ASSUME kind = "list", ListsInv, UNCHANGED <<kind, watchers, subscribed, ended, kept>>,
           made' \in Nat, elements' \in Seq(Items), NEW b, GoOn(b),
           \A i \in DOMAIN frames : ~Busy(frames[i]),
           NEW n, n = Len(frames'), n \in DOMAIN frames', n \notin 1 .. b,
           frames'[n].do = "fire", frames'[n].next = 1,
           IsMade(frames[n].event)', elements = Before(frames[n].event)',
           \A i \in DOMAIN frames' : i \in 1 .. b \/ i = n \/ frames'[i].do \in {"user", "addAll", "removeAll"}
    PROVE  ListsInv'
<1>1. /\ ViewTypes /\ OneAtATime /\ \A x \in subscribed \ ended : ListMirrors(x)
      /\ watchers' = watchers /\ subscribed' = subscribed
  BY DEF ListsInv
<1>2. /\ \A i \in 1 .. b : i \in DOMAIN frames /\ frames'[i] = frames[i]
      /\ b \in 0 .. Len(frames) /\ frames' \in Seq(ViewFrames) /\ frames \in Seq(ViewFrames)
  BY <1>1, GoingOn DEF GoOn, ViewTypes
<1>3. OneAtATime'
  <2>1. \A i \in 1 .. b : ~Busy(frames[i])
    BY <1>2
  <2>. QED
    BY <1>1, <2>1, OneBusy
<1>4. ViewTypes'
  <2>1. \A i \in DOMAIN frames' : i \in 1 .. b \/ (IsKnown(frames'[i]) /\ frames'[i].do # "replay")
    <3>1. IsKnown(frames'[n])
      BY <1>1 DEF IsKnown, ViewTypes
    <3>. QED
      BY <3>1 DEF IsKnown
  <2>2. kept' \in [Watchers -> Seq(Items)] /\ \A x \in Watchers \ subscribed : kept'[x] = <<>>
    BY <1>1 DEF ViewTypes
  <2>. QED
    BY <1>1, <1>2, <2>1, <2>2, TypesGoOn
<1>5. ASSUME NEW x \in (subscribed \ ended)' PROVE ListMirrors(x)'
  <2>1. x \in subscribed \ ended /\ ListMirrors(x) /\ Listed(x) /\ kept'[x] = kept[x]
    BY <1>1 DEF OneAtATime
  <2>2. \A i \in DOMAIN frames : Silent(frames[i], x, watchers) /\ frames[i].do \notin {"clear", "addTo", "replay"}
    <3>1. \A i \in DOMAIN frames : frames[i] \in ViewFrames
      BY <1>2
    <3>. QED
      BY <1>1, <2>1, <3>1, CalmMeans
  <2>3. kept[x] = elements
    BY <2>1, <2>2 DEF ListMirrors, ListQuiet
  <2>4. \A i \in DOMAIN frames' : i # n => /\ frames'[i].do \notin {"clear", "addTo", "replay"}
                                           /\ ~Untold(frames'[i], x, watchers)
    <3>1. \A i \in 1 .. b : /\ frames'[i].do \notin {"clear", "addTo", "replay"}
                            /\ ~Untold(frames'[i], x, watchers)
      BY <1>2, <2>2 DEF Silent
    <3>2. \A i \in DOMAIN frames' : frames'[i].do \in {"user", "addAll", "removeAll"} =>
             ~Untold(frames'[i], x, watchers)
      BY DEF Untold
    <3>. QED
      BY <3>1, <3>2
  <2>5. Untold(frames'[n], x, watchers')
    BY FiresToAll
  <2>6. ListReported(x)' /\ ListHalfTold(x)' /\ ListCleared(x)'
    BY <2>4 DEF ListReported, ListHalfTold, ListCleared, Reports
  <2>7. ListUntold(x)'
    <3>1. \A i \in DOMAIN frames' : Untold(frames'[i], x, watchers') => i = n
      BY <1>1, <2>4
    <3>2. IsMade(frames[n].event)' /\ kept'[x] = Before(frames[n].event)'
      BY <2>1, <2>3
    <3>. QED
      BY <3>1, <3>2 DEF ListUntold
  <2>8. ListQuiet(x)'
    BY <2>5 DEF ListQuiet, Silent
  <2>. QED
    BY <2>6, <2>7, <2>8 DEF ListMirrors
<1>. QED
  BY <1>3, <1>4, <1>5 DEF ListsInv

-----------------------------------------------------------------------------
(***************************************************************************)
(* Lists: the program changes them                                          *)
(***************************************************************************)

\* The three events of a list, and what the list was before them.
LEMMA ListEvents ==
    \A i \in Nat \ {0} : \A v, u \in Items :
       /\ Added(i, v) \in ViewEvents /\ Added(i, v).op = "add"
       /\ Added(i, v).at = i /\ Added(i, v).new = v
       /\ Updated(i, u, v) \in ViewEvents /\ Updated(i, u, v).op = "update"
       /\ Updated(i, u, v).at = i /\ Updated(i, u, v).new = v /\ Updated(i, u, v).old = u
       /\ Removed(i, v) \in ViewEvents /\ Removed(i, v).op = "remove"
       /\ Removed(i, v).at = i /\ Removed(i, v).old = v
BY DEF Added, Updated, Removed, ViewEvents

LEMMA NewIsItem == ViewTypes => New(NoKey) \in Items /\ made + 1 \in Nat
BY DEF ViewTypes, New, Items

LEMMA InsertIsMade ==
    ASSUME ViewTypes, NEW i \in 1 .. Len(elements) + 1, NEW v \in Items, NEW ev, ev = Added(i, v),
           elements' = InsertAt(elements, i, v)
    PROVE  /\ elements' \in Seq(Items) /\ ev \in ViewEvents
           /\ IsMade(ev)' /\ elements = Before(ev)'
<1>1. elements \in Seq(Items) /\ Len(elements) \in Nat
  BY DEF ViewTypes
<1>2. PICK t : t = InsertAt(elements, i, v)
  OBVIOUS
<1>3. t \in Seq(Items) /\ Len(t) = Len(elements) + 1 /\ t[i] = v
  BY <1>1, <1>2, Inserted
<1>4. RemoveAt(t, i) = elements
  BY <1>1, <1>2, RemoveUndoesInsert
<1>5. i \in Nat \ {0}
  BY <1>1
<1>6. ev \in ViewEvents /\ ev.op = "add" /\ ev.at = i /\ ev.new = v
  BY ONLY <1>5, v \in Items, ev = Added(i, v), ListEvents
<1>7. elements' = t /\ i \in DOMAIN t
  BY <1>1, <1>2, <1>3
<1>. QED
  BY <1>3, <1>4, <1>6, <1>7 DEF IsMade, Before

LEMMA RemoveIsMade ==
    ASSUME ViewTypes, NEW i \in 1 .. Len(elements), NEW ev, ev = Removed(i, elements[i]),
           elements' = RemoveAt(elements, i)
    PROVE  /\ elements' \in Seq(Items) /\ ev \in ViewEvents
           /\ IsMade(ev)' /\ elements = Before(ev)'
<1>1. elements \in Seq(Items) /\ Len(elements) \in Nat /\ elements[i] \in Items
  BY DEF ViewTypes
<1>2. PICK t : t = RemoveAt(elements, i)
  OBVIOUS
<1>3. t \in Seq(Items) /\ Len(t) = Len(elements) - 1
  BY <1>1, <1>2, TakenOut
<1>4. InsertAt(t, i, elements[i]) = elements
  BY <1>1, <1>2, InsertUndoesRemove
<1>5. i \in Nat \ {0} /\ i \in 1 .. Len(t) + 1
  BY <1>1, <1>3
<1>6. ev \in ViewEvents /\ ev.op = "remove" /\ ev.at = i /\ ev.old = elements[i]
  BY ONLY <1>1, <1>5, ev = Removed(i, elements[i]), ListEvents
<1>7. elements' = t
  BY <1>2
<1>. QED
  BY <1>3, <1>4, <1>5, <1>6, <1>7 DEF IsMade, Before

LEMMA ReplaceIsMade ==
    ASSUME ViewTypes, NEW i \in 1 .. Len(elements), NEW v \in Items, NEW ev,
           ev = Updated(i, elements[i], v), elements' = ReplaceAt(elements, i, v)
    PROVE  /\ elements' \in Seq(Items) /\ ev \in ViewEvents
           /\ IsMade(ev)' /\ elements = Before(ev)'
<1>1. elements \in Seq(Items) /\ Len(elements) \in Nat /\ elements[i] \in Items
  BY DEF ViewTypes
<1>2. PICK t : t = ReplaceAt(elements, i, v)
  OBVIOUS
<1>3. t \in Seq(Items) /\ Len(t) = Len(elements) /\ t[i] = v
  <2>1. ReplaceAt(elements, i, v) = [elements EXCEPT ![i] = v]
    BY DEF ReplaceAt
  <2>. QED
    BY ONLY <1>1, <1>2, <2>1, i \in 1 .. Len(elements), v \in Items
<1>4. ReplaceAt(t, i, elements[i]) = elements
  BY <1>1, <1>2, ReplaceUndoesReplace
<1>5. i \in Nat \ {0} /\ i \in DOMAIN t
  BY <1>1, <1>3
<1>6. ev \in ViewEvents /\ ev.op = "update" /\ ev.at = i /\ ev.old = elements[i] /\ ev.new = v
  BY ONLY <1>1, <1>5, v \in Items, ev = Updated(i, elements[i], v), ListEvents
<1>7. elements' = t
  BY <1>2
<1>. QED
  BY <1>3, <1>4, <1>5, <1>6, <1>7 DEF IsMade, Before

\* The program changes the list, or a step of addAll or removeAll.
LEMMA ProgramFires ==
    ASSUME kind = "list", ListsInv, ProgramRuns, UNCHANGED <<kind, watchers, subscribed, ended, kept>>,
           ~Awaits(frames), made' \in Nat, elements' \in Seq(Items), NEW ev \in ViewEvents,
           IsMade(ev)', elements = Before(ev)', frames' = frames \o <<FireEvent(ev)>>
    PROVE  ListsInv'
<1>1. ViewTypes /\ frames \in Seq(ViewFrames)
  BY DEF ListsInv, ViewTypes
<1>2. PICK b, h : b = Len(frames) /\ h = FireEvent(ev)
  OBVIOUS
<1>3. h \in ViewFrames /\ h.do = "fire" /\ h.event = ev /\ h.next = 1
  BY ONLY <1>2, ev \in ViewEvents, ViewFramesAre
<1>4. GoOn(b) /\ DOMAIN frames' = 1 .. b + 1 /\ frames'[b + 1] = h /\ b \in Nat
  <2>1. frames' = frames \o <<h>> /\ b = Len(frames) /\ watchers' = watchers
    BY <1>2
  <2>. QED
    BY ONLY <1>1, <1>3, <2>1, ProgramRuns, ProgramCalls
<1>5. \A i \in DOMAIN frames : ~Busy(frames[i])
  BY <1>1, AllCalm
<1>6. Len(frames') = b + 1 /\ b + 1 \in DOMAIN frames' /\ b + 1 \notin 1 .. b
      /\ \A i \in DOMAIN frames' : i \in 1 .. b \/ i = b + 1
  <2>1. frames' \in Seq(ViewFrames)
    BY <1>4 DEF GoOn
  <2>2. DOMAIN frames' = 1 .. b + 1 /\ b \in Nat
    BY <1>4
  <2>3. Len(frames') = b + 1
    BY ONLY <2>1, <2>2
  <2>4. b + 1 \in 1 .. b + 1 /\ b + 1 \notin 1 .. b /\ \A i \in 1 .. b + 1 : i \in 1 .. b \/ i = b + 1
    BY ONLY <2>2
  <2>. QED
    BY ONLY <2>2, <2>3, <2>4
<1>7. IsMade(frames[b + 1].event)' /\ elements = Before(frames[b + 1].event)'
  BY <1>3, <1>4 DEF IsMade, Before
<1>8. frames'[b + 1].do = "fire" /\ frames'[b + 1].next = 1
  BY <1>3, <1>4
<1>. QED
  BY <1>4, <1>5, <1>6, <1>7, <1>8, ListFires

LEMMA StepFires ==
    ASSUME kind = "list", ListsInv, Inner.do \in {"addAll", "removeAll"},
           UNCHANGED <<kind, watchers, subscribed, ended, kept>>,
           ~Awaits(Outer), made' \in Nat, elements' \in Seq(Items), NEW ev \in ViewEvents,
           NEW g \in ViewFrames, g.do \in {"addAll", "removeAll"},
           IsMade(ev)', elements = Before(ev)', frames' = Outer \o <<g, FireEvent(ev)>>
    PROVE  ListsInv'
<1>1. ViewTypes /\ frames \in Seq(ViewFrames) /\ Inner.do # "none"
  BY DEF ListsInv, ViewTypes
<1>2. PICK b, h : b = Len(frames) - 1 /\ h = FireEvent(ev)
  OBVIOUS
<1>3. h \in ViewFrames /\ h.do = "fire" /\ h.event = ev /\ h.next = 1
  BY ONLY <1>2, ev \in ViewEvents, ViewFramesAre
<1>4. /\ b \in Nat /\ b + 1 = Len(frames) /\ DOMAIN frames = 1 .. b + 1
      /\ Inner = frames[b + 1] /\ Outer \in Seq(ViewFrames) /\ b = Len(Outer)
      /\ \A i \in 1 .. b : Outer[i] = frames[i]
  BY <1>1, <1>2, InnerGoes
<1>5. GoOn(b) /\ DOMAIN frames' = 1 .. b + 2 /\ frames'[b + 1] = g /\ frames'[b + 2] = h
  <2>1. Outer \o <<g, h>> = Append(Append(Outer, g), h)
    BY ONLY <1>3, <1>4, g \in ViewFrames, TwoMore
  <2>2. frames' = Append(Append(Outer, g), h) /\ b = Len(frames) - 1 /\ watchers' = watchers
    BY <1>2, <2>1
  <2>3. ViewTypes /\ Inner.do # "none" /\ g \in ViewFrames /\ h \in ViewFrames
    BY <1>1, <1>3
  <2>. QED
    BY ONLY <2>2, <2>3, InnerBecomesTwo
<1>6. \A i \in DOMAIN frames : ~Busy(frames[i])
  <2>1. \A i \in DOMAIN Outer : ~Busy(Outer[i])
    BY <1>1, <1>4, AllCalm
  <2>2. \A i \in 1 .. b : ~Busy(frames[i])
    <3>1. DOMAIN Outer = 1 .. b /\ \A i \in 1 .. b : Outer[i] = frames[i]
      BY <1>4
    <3>. QED
      BY ONLY <2>1, <3>1
  <2>3. ~Busy(frames[b + 1])
    BY <1>4 DEF Busy
  <2>. QED
    BY <1>4, <2>2, <2>3
<1>7. Len(frames') = b + 2 /\ b + 2 \in DOMAIN frames' /\ b + 2 \notin 1 .. b
      /\ \A i \in DOMAIN frames' : i \in 1 .. b \/ i = b + 1 \/ i = b + 2
  <2>1. frames' \in Seq(ViewFrames)
    BY <1>5 DEF GoOn
  <2>. QED
    BY <1>4, <1>5, <2>1
<1>8. IsMade(frames[b + 2].event)' /\ elements = Before(frames[b + 2].event)'
  BY <1>3, <1>5 DEF IsMade, Before
<1>9. /\ frames'[b + 2].do = "fire" /\ frames'[b + 2].next = 1
      /\ \A i \in DOMAIN frames' : i \in 1 .. b \/ i = b + 2 \/ frames'[i].do \in {"user", "addAll", "removeAll"}
  BY <1>3, <1>5, <1>7
<1>. QED
  BY <1>5, <1>6, <1>7, <1>8, <1>9, ListFires

LEMMA InsertKeepsInv ==
    ASSUME ListsInv, NEW i \in 1 .. Len(elements) + 1, Insert(i), ~crossed'
    PROVE  ListsInv'
<1>1. PICK ev, v : ev = Added(i, v) /\ v = New(NoKey)
  OBVIOUS
<1>2. /\ kind = "list" /\ ProgramRuns /\ UNCHANGED <<kind, watchers, subscribed, ended, kept>>
      /\ ~Awaits(frames) /\ made' = made + 1 /\ elements' = InsertAt(elements, i, v)
      /\ frames' = frames \o <<FireEvent(ev)>>
  BY <1>1 DEF Insert, Changes
<1>3. ViewTypes /\ v \in Items /\ made' \in Nat
  BY <1>1, <1>2, NewIsItem DEF ListsInv
<1>4. elements' \in Seq(Items) /\ ev \in ViewEvents /\ IsMade(ev)' /\ elements = Before(ev)'
  BY <1>1, <1>2, <1>3, InsertIsMade
<1>. QED
  BY <1>2, <1>3, <1>4, ProgramFires

LEMMA ReplaceWithKeepsInv ==
    ASSUME ListsInv, NEW i \in DOMAIN elements, ReplaceWith(i), ~crossed'
    PROVE  ListsInv'
<1>1. PICK ev, v : ev = Updated(i, elements[i], v) /\ v = New(NoKey)
  OBVIOUS
<1>2. /\ kind = "list" /\ ProgramRuns /\ UNCHANGED <<kind, watchers, subscribed, ended, kept>>
      /\ ~Awaits(frames) /\ made' = made + 1 /\ elements' = ReplaceAt(elements, i, v)
      /\ frames' = frames \o <<FireEvent(ev)>>
  BY <1>1 DEF ReplaceWith, Changes
<1>3. ViewTypes /\ v \in Items /\ made' \in Nat /\ i \in 1 .. Len(elements)
  BY <1>1, <1>2, NewIsItem DEF ListsInv, ViewTypes
<1>4. elements' \in Seq(Items) /\ ev \in ViewEvents /\ IsMade(ev)' /\ elements = Before(ev)'
  BY <1>1, <1>2, <1>3, ReplaceIsMade
<1>. QED
  BY <1>2, <1>3, <1>4, ProgramFires

LEMMA RemoveFromKeepsInv ==
    ASSUME ListsInv, NEW i \in DOMAIN elements, RemoveFrom(i), ~crossed'
    PROVE  ListsInv'
<1>1. PICK ev : ev = Removed(i, elements[i])
  OBVIOUS
<1>2. /\ kind = "list" /\ ProgramRuns /\ UNCHANGED <<kind, watchers, subscribed, ended, kept>>
      /\ ~Awaits(frames) /\ made' = made /\ elements' = RemoveAt(elements, i)
      /\ frames' = frames \o <<FireEvent(ev)>>
  BY <1>1 DEF RemoveFrom, Changes
<1>3. ViewTypes /\ made' \in Nat /\ i \in 1 .. Len(elements)
  BY <1>2 DEF ListsInv, ViewTypes
<1>4. elements' \in Seq(Items) /\ ev \in ViewEvents /\ IsMade(ev)' /\ elements = Before(ev)'
  BY <1>1, <1>2, <1>3, RemoveIsMade
<1>. QED
  BY <1>2, <1>3, <1>4, ProgramFires

\* A call that is over, and what changes nothing by itself.
LEMMA ListCallsOn ==
    ASSUME ListsInv, UNCHANGED <<kind, elements, made, watchers, subscribed, ended, kept>>,
           NEW b, GoOn(b), \A i \in DOMAIN frames : i \in 1 .. b \/ ~Busy(frames[i]),
           \A i \in DOMAIN frames' : i \in 1 .. b \/ frames'[i].do \in {"user", "addAll", "removeAll"}
    PROVE  ListsInv'
<1>1. /\ ViewTypes /\ OneAtATime /\ \A x \in subscribed \ ended : ListMirrors(x)
      /\ watchers' = watchers /\ subscribed' = subscribed
  BY DEF ListsInv
<1>2. OneAtATime'
  BY <1>1, OneStays
<1>3. ViewTypes'
  <2>1. b \in 0 .. Len(frames) /\ frames' \in Seq(ViewFrames) /\ \A i \in 1 .. b : frames'[i] = frames[i]
    BY DEF GoOn
  <2>2. /\ kept' \in [Watchers -> Seq(Items)] /\ \A x \in Watchers \ subscribed : kept'[x] = <<>>
        /\ made' \in Nat /\ elements' \in Seq(Items)
    BY <1>1 DEF ViewTypes
  <2>3. \A i \in DOMAIN frames' : i \in 1 .. b \/ (IsKnown(frames'[i]) /\ frames'[i].do # "replay")
    BY DEF IsKnown
  <2>. QED
    BY <1>1, <2>1, <2>2, <2>3, TypesGoOn
<1>4. ASSUME NEW x \in (subscribed \ ended)' PROVE ListMirrors(x)'
  <2>1. x \in subscribed \ ended /\ ListMirrors(x) /\ Listed(x)
    BY <1>1 DEF OneAtATime
  <2>2. \A i \in DOMAIN frames : i \in 1 .. b \/ Silent(frames[i], x, watchers)
    <3>1. \A i \in DOMAIN frames : frames[i] \in ViewFrames
      BY <1>1 DEF ViewTypes
    <3>. QED
      BY <1>1, <2>1, <3>1, CalmMeans
  <2>3. \A i \in DOMAIN frames' : i \in 1 .. b \/ Silent(frames'[i], x, watchers')
    BY PlainMeans
  <2>4. elements' = elements /\ kept'[x] = kept[x]
    OBVIOUS
  <2>. QED
    BY <1>1, <2>1, <2>2, <2>3, <2>4, MirrorStays
<1>. QED
  BY <1>2, <1>3, <1>4 DEF ListsInv

LEMMA ListUserReturns ==
    ASSUME ListsInv, UserReturns
    PROVE  ListsInv'
<1>1. PICK b : b = Len(frames) - 1
  OBVIOUS
<1>2. /\ UNCHANGED <<kind, elements, made, watchers, subscribed, ended, kept>>
      /\ frames' = Outer /\ Inner.do = "user" /\ ViewTypes
  BY DEF UserReturns, Doing, ListsInv
<1>3. GoOn(b) /\ DOMAIN frames' = 1 .. b
  <2>1. watchers' = watchers /\ Inner.do # "none"
    BY <1>2
  <2>. QED
    BY ONLY <1>1, <1>2, <2>1, InnerLeaves
<1>4. \A i \in DOMAIN frames : i \in 1 .. b \/ ~Busy(frames[i])
  <2>1. b \in Nat /\ DOMAIN frames = 1 .. b + 1 /\ Inner = frames[b + 1]
    BY <1>1, <1>2, InnerGoes
  <2>. QED
    BY <1>2, <2>1 DEF Busy
<1>5. \A i \in DOMAIN frames' : i \in 1 .. b
  BY <1>3
<1>. QED
  BY <1>2, <1>3, <1>4, <1>5, ListCallsOn

\* The program calls addAll or removeAll.
LEMMA ProgramBegins ==
    ASSUME ListsInv, ProgramRuns, UNCHANGED <<kind, elements, made, watchers, subscribed, ended, kept>>,
           NEW g \in ViewFrames, g.do \in {"addAll", "removeAll"}, frames' = frames \o <<g>>
    PROVE  ListsInv'
<1>1. PICK b : b = Len(frames)
  OBVIOUS
<1>2. ViewTypes /\ watchers' = watchers
  BY DEF ListsInv
<1>3. b \in Nat /\ DOMAIN frames = 1 .. b /\ GoOn(b) /\ DOMAIN frames' = 1 .. b + 1 /\ frames'[b + 1] = g
  BY ONLY <1>1, <1>2, ProgramRuns, g \in ViewFrames, frames' = frames \o <<g>>, ProgramCalls
<1>4. \A i \in DOMAIN frames : i \in 1 .. b
  BY <1>3
<1>5. \A i \in DOMAIN frames' : i \in 1 .. b \/ frames'[i].do \in {"user", "addAll", "removeAll"}
  BY <1>3
<1>. QED
  BY <1>3, <1>4, <1>5, ListCallsOn

LEMMA AddTwoKeepsInv ==
    ASSUME ListsInv, NEW i \in 0 .. Len(elements) + 1, AddTwo(i)
    PROVE  ListsInv'
<1>1. PICK g : g = [do |-> "addAll", at |-> i, left |-> 2]
  OBVIOUS
<1>2. g \in ViewFrames /\ g.do = "addAll"
  <2>1. Len(elements) \in Nat
    BY DEF ListsInv, ViewTypes
  <2>2. i \in Nat
    BY <2>1
  <2>. QED
    BY <1>1, <2>2 DEF ViewFrames
<1>3. /\ UNCHANGED <<kind, elements, made, watchers, subscribed, ended, kept>> /\ ProgramRuns
      /\ frames' = frames \o <<g>>
  BY <1>1 DEF AddTwo, Changes
<1>. QED
  BY <1>2, <1>3, ProgramBegins

LEMMA RemoveTheseKeepsInv ==
    ASSUME ListsInv, NEW entries \in SUBSET ToSet(elements), RemoveThese(entries)
    PROVE  ListsInv'
<1>1. PICK g : g = [do |-> "removeAll", at |-> Len(elements), these |-> entries]
  OBVIOUS
<1>2. g \in ViewFrames /\ g.do = "removeAll"
  <2>1. Len(elements) \in Nat /\ entries \in SUBSET Items
    BY DEF ListsInv, ViewTypes, ToSet
  <2>. QED
    BY <1>1, <2>1 DEF ViewFrames
<1>3. /\ UNCHANGED <<kind, elements, made, watchers, subscribed, ended, kept>> /\ ProgramRuns
      /\ frames' = frames \o <<g>>
  BY <1>1 DEF RemoveThese, Changes
<1>. QED
  BY <1>2, <1>3, ProgramBegins

\* addAll and removeAll: a step that fires nothing.
LEMMA StepPasses ==
    ASSUME ListsInv, Inner.do \in {"addAll", "removeAll"},
           UNCHANGED <<kind, elements, made, watchers, subscribed, ended, kept>>,
           \/ frames' = Outer
           \/ \E g \in ViewFrames : g.do \in {"addAll", "removeAll"} /\ frames' = Append(Outer, g)
    PROVE  ListsInv'
<1>1. PICK b : b = Len(frames) - 1
  OBVIOUS
<1>2. ViewTypes /\ watchers' = watchers /\ Inner.do # "none"
  BY DEF ListsInv
<1>3. GoOn(b) /\ \A i \in DOMAIN frames' : i \in 1 .. b \/ frames'[i].do \in {"user", "addAll", "removeAll"}
  <2>1. CASE frames' = Outer
    <3>1. GoOn(b) /\ DOMAIN frames' = 1 .. b
      BY ONLY <1>1, <1>2, <2>1, InnerLeaves
    <3>. QED
      BY <3>1
  <2>2. CASE \E g \in ViewFrames : g.do \in {"addAll", "removeAll"} /\ frames' = Append(Outer, g)
    <3>1. PICK g \in ViewFrames : g.do \in {"addAll", "removeAll"} /\ frames' = Append(Outer, g)
      BY <2>2
    <3>2. GoOn(b) /\ DOMAIN frames' = 1 .. b + 1 /\ frames'[b + 1] = g
      BY ONLY <1>1, <1>2, <3>1, g \in ViewFrames, InnerBecomesOne
    <3>3. b \in Nat
      BY <1>1, <1>2, InnerGoes
    <3>. QED
      BY <3>1, <3>2, <3>3
  <2>. QED
    BY <2>1, <2>2
<1>4. \A i \in DOMAIN frames : i \in 1 .. b \/ ~Busy(frames[i])
  <2>1. b \in Nat /\ DOMAIN frames = 1 .. b + 1 /\ Inner = frames[b + 1]
    BY <1>1, <1>2, InnerGoes
  <2>. QED
    BY <2>1 DEF Busy
<1>. QED
  BY <1>3, <1>4, ListCallsOn

\* The frame of an addAll or a removeAll after one step of it.
LEMMA StepsOn ==
    ASSUME NEW f \in ViewFrames
    PROVE  /\ f.do = "addAll" /\ f.left # 0 =>
                LET g == [f EXCEPT !.at = IF @ = 0 THEN 0 ELSE @ + 1, !.left = @ - 1] IN
                g \in ViewFrames /\ g.do = "addAll"
           /\ f.do = "removeAll" /\ f.at # 0 =>
                LET g == [f EXCEPT !.at = f.at - 1] IN g \in ViewFrames /\ g.do = "removeAll"
<1>1. ASSUME f.do = "addAll", f.left # 0
      PROVE  LET g == [f EXCEPT !.at = IF @ = 0 THEN 0 ELSE @ + 1, !.left = @ - 1] IN
             g \in ViewFrames /\ g.do = "addAll"
  <2>1. f \in [do : {"addAll"}, at : Nat, left : Nat]
    BY <1>1 DEF ViewFrames
  <2>2. PICK a, l : a = (IF f.at = 0 THEN 0 ELSE f.at + 1) /\ l = f.left - 1
    OBVIOUS
  <2>3. a \in Nat /\ l \in Nat
    BY <1>1, <2>1, <2>2
  <2>4. PICK g : g = [f EXCEPT !.at = IF @ = 0 THEN 0 ELSE @ + 1, !.left = @ - 1]
    OBVIOUS
  <2>5. g = [f EXCEPT !.at = a, !.left = l]
    BY <2>1, <2>2, <2>4
  <2>6. g \in [do : {"addAll"}, at : Nat, left : Nat] /\ g.do = "addAll"
    BY ONLY <2>1, <2>3, <2>5
  <2>. QED
    BY <2>4, <2>6 DEF ViewFrames
<1>2. ASSUME f.do = "removeAll", f.at # 0
      PROVE  LET g == [f EXCEPT !.at = f.at - 1] IN g \in ViewFrames /\ g.do = "removeAll"
  <2>1. f \in [do : {"removeAll"}, at : Nat, these : SUBSET Items]
    BY <1>2 DEF ViewFrames
  <2>2. PICK a : a = f.at - 1
    OBVIOUS
  <2>3. a \in Nat
    BY <1>2, <2>1, <2>2
  <2>4. PICK g : g = [f EXCEPT !.at = a]
    OBVIOUS
  <2>5. g \in [do : {"removeAll"}, at : Nat, these : SUBSET Items] /\ g.do = "removeAll"
    BY ONLY <2>1, <2>3, <2>4
  <2>. QED
    BY <2>2, <2>4, <2>5 DEF ViewFrames
<1>. QED
  BY <1>1, <1>2

LEMMA AddAllKeepsInv ==
    ASSUME kind = "list", ListsInv, AddAllStep, ~broken', ~crossed'
    PROVE  ListsInv'
<1>1. ViewTypes /\ Inner.do = "addAll" /\ Inner \in ViewFrames
  BY InnerIs DEF ListsInv, AddAllStep, Doing
<1>2. CASE Inner.left = 0
  <2>1. UNCHANGED <<kind, elements, made, watchers, subscribed, ended, kept>> /\ frames' = Outer
    BY <1>2 DEF AddAllStep
  <2>. QED
    BY <1>1, <2>1, StepPasses
<1>3. CASE Inner.left # 0
  <2>1. PICK i, v, ev, g : /\ i = (IF Inner.at = 0 THEN Len(elements) + 1 ELSE Inner.at)
                           /\ v = New(NoKey) /\ ev = Added(i, v)
                           /\ g = [Inner EXCEPT !.at = IF @ = 0 THEN 0 ELSE @ + 1, !.left = @ - 1]
    OBVIOUS
  <2>2. /\ UNCHANGED <<kind, watchers, subscribed, ended, kept>> /\ ~Awaits(Outer) /\ made' = made + 1
        /\ ~(i > Len(elements) + 1) /\ elements' = InsertAt(elements, i, v)
        /\ frames' = Outer \o <<g, FireEvent(ev)>>
    BY <1>3, <2>1 DEF AddAllStep
  <2>3. g \in ViewFrames /\ g.do = "addAll"
    BY <1>1, <1>3, <2>1, StepsOn
  <2>4. i \in 1 .. Len(elements) + 1
    <3>1. Len(elements) \in Nat /\ Inner.at \in Nat
      BY <1>1, ViewFrameFields DEF ViewTypes
    <3>. QED
      BY <2>1, <2>2, <3>1
  <2>5. v \in Items /\ made' \in Nat
    BY <1>1, <2>1, <2>2, NewIsItem
  <2>6. elements' \in Seq(Items) /\ ev \in ViewEvents /\ IsMade(ev)' /\ elements = Before(ev)'
    BY ONLY <1>1, <2>1, <2>2, <2>4, <2>5, InsertIsMade
  <2>. QED
    BY <1>1, <2>2, <2>3, <2>5, <2>6, StepFires
<1>. QED
  BY <1>2, <1>3

LEMMA RemoveAllKeepsInv ==
    ASSUME kind = "list", ListsInv, RemoveAllStep, ~broken', ~crossed'
    PROVE  ListsInv'
<1>1. ViewTypes /\ Inner.do = "removeAll" /\ Inner \in ViewFrames
  BY InnerIs DEF ListsInv, RemoveAllStep, Doing
<1>2. CASE Inner.at = 0
  <2>1. UNCHANGED <<kind, elements, made, watchers, subscribed, ended, kept>> /\ frames' = Outer
    BY <1>2 DEF RemoveAllStep
  <2>. QED
    BY <1>1, <2>1, StepPasses
<1>3. ASSUME Inner.at # 0 PROVE ListsInv'
  <2>1. PICK i, ev, g : /\ i = Inner.at /\ ev = Removed(i, elements[i])
                        /\ g = [Inner EXCEPT !.at = Inner.at - 1]
    OBVIOUS
  <2>2. ~(i > Len(elements))
    BY <1>3, <2>1 DEF RemoveAllStep
  <2>3. g \in ViewFrames /\ g.do = "removeAll"
    BY <1>1, <1>3, <2>1, StepsOn
  <2>4. i \in 1 .. Len(elements)
    <3>1. Len(elements) \in Nat /\ Inner.at \in Nat
      BY <1>1, ViewFrameFields DEF ViewTypes
    <3>. QED
      BY <1>3, <2>1, <2>2, <3>1
  <2>5. CASE elements[i] \in Inner.these
    <3>1. /\ UNCHANGED <<kind, made, watchers, subscribed, ended, kept>> /\ ~Awaits(Outer)
          /\ elements' = RemoveAt(elements, i)
          /\ frames' = Outer \o <<g, FireEvent(ev)>>
      BY <1>3, <2>1, <2>2, <2>5 DEF RemoveAllStep
    <3>2. elements' \in Seq(Items) /\ ev \in ViewEvents /\ IsMade(ev)' /\ elements = Before(ev)'
      BY ONLY <1>1, <2>1, <2>4, <3>1, RemoveIsMade
    <3>3. made' \in Nat
      BY <1>1, <3>1 DEF ViewTypes
    <3>. QED
      BY <1>1, <2>3, <3>1, <3>2, <3>3, StepFires
  <2>6. CASE elements[i] \notin Inner.these
    <3>1. /\ UNCHANGED <<kind, elements, made, watchers, subscribed, ended, kept>>
          /\ frames' = Append(Outer, g)
      BY <1>3, <2>1, <2>2, <2>6 DEF RemoveAllStep
    <3>2. \E h \in ViewFrames : h.do \in {"addAll", "removeAll"} /\ frames' = Append(Outer, h)
      BY <2>3, <3>1
    <3>. QED
      BY <1>1, <3>1, <3>2, StepPasses
  <2>. QED
    BY <2>5, <2>6
<1>. QED
  BY <1>2, <1>3

LEMMA ListEndWatch ==
    ASSUME ListsInv, NEW y \in Watchers, EndWatch(y)
    PROVE  ListsInv'
<1>1. /\ UNCHANGED <<kind, elements, made, watchers, subscribed, kept, frames>>
      /\ ended' = ended \union {y}
  BY DEF EndWatch
<1>2. /\ ViewTypes /\ OneAtATime /\ \A x \in subscribed \ ended : ListMirrors(x)
  BY DEF ListsInv
<1>3. ViewTypes'
  BY <1>1, <1>2 DEF ViewTypes, IsKnown, Listed, Reports
<1>4. OneAtATime'
  BY <1>1, <1>2 DEF OneAtATime, Listed, Busy
<1>5. ASSUME NEW x \in (subscribed \ ended)' PROVE ListMirrors(x)'
  <2>1. ListMirrors(x)
    BY <1>1, <1>2
  <2>2. PICK b : b = Len(frames)
    OBVIOUS
  <2>3. GoOn(b) /\ \A i \in DOMAIN frames : i \in 1 .. b
    <3>1. frames \in Seq(ViewFrames)
      BY <1>2 DEF ViewTypes
    <3>. QED
      BY <1>1, <2>2, <3>1 DEF GoOn
  <2>4. \A i \in DOMAIN frames' : i \in 1 .. b
    BY <1>1, <2>3
  <2>5. elements' = elements /\ kept'[x] = kept[x]
    BY <1>1
  <2>. QED
    BY ONLY <1>2, <2>1, <2>3, <2>4, <2>5, MirrorStays
<1>. QED
  BY <1>3, <1>4, <1>5 DEF ListsInv

-----------------------------------------------------------------------------
(***************************************************************************)
(* Lists: clear                                                             *)
(***************************************************************************)

\* A clear of a list.
LEMMA ListClearKeepsInv ==
    ASSUME kind = "list", ListsInv, Clear, ~crossed'
    PROVE  ListsInv'
<1>1. ViewTypes /\ OneAtATime /\ \A x \in subscribed \ ended : ListMirrors(x)
  BY DEF ListsInv
<1>2. PICK b, s, n : b = Len(frames) /\ s = ClearEvents /\ n = Len(elements)
  OBVIOUS
<1>3. PICK c : c = [do |-> "clear", events |-> s]
  OBVIOUS
<1>4. /\ UNCHANGED <<kind, elements, made, watchers, subscribed, ended, kept>>
      /\ frames' = frames \o <<c>> /\ ~Awaits(frames) /\ ProgramRuns
  BY <1>2, <1>3 DEF Clear, Changes
<1>5. /\ elements \in Seq(Items) /\ n \in Nat /\ DOMAIN elements = 1 .. n
      /\ s \in Seq(ViewEvents) /\ Len(s) = n
      /\ \A j \in 1 .. n : n + 1 - j \in DOMAIN elements /\ s[j] = Removed(n + 1 - j, elements[n + 1 - j])
  <2>1. elements \in Seq(Items) /\ n \in Nat /\ DOMAIN elements = 1 .. n
    BY <1>1, <1>2 DEF ViewTypes
  <2>2. s = [j \in 1 .. n |-> Removed(n + 1 - j, elements[n + 1 - j])]
    BY <1>2 DEF ClearEvents
  <2>3. \A j \in 1 .. n : n + 1 - j \in DOMAIN elements /\ n + 1 - j \in Nat \ {0}
    BY <2>1
  <2>4. \A j \in 1 .. n : Removed(n + 1 - j, elements[n + 1 - j]) \in ViewEvents
    <3>1. \A j \in 1 .. n : elements[n + 1 - j] \in Items
      BY <2>1, <2>3
    <3>. QED
      BY ONLY <2>3, <3>1, ListEvents
  <2>5. s \in Seq(ViewEvents) /\ Len(s) = n
    BY <2>1, <2>2, <2>4
  <2>. QED
    BY <2>1, <2>2, <2>3, <2>5
<1>6. c \in ViewFrames /\ c.do = "clear" /\ c.events = s
  BY ONLY <1>3, <1>5, ViewFramesAre
<1>7. /\ b \in Nat /\ DOMAIN frames = 1 .. b
      /\ GoOn(b) /\ DOMAIN frames' = 1 .. b + 1 /\ frames'[b + 1] = c
  <2>1. watchers' = watchers
    BY <1>4
  <2>. QED
    BY ONLY <1>1, <1>2, <1>4, <1>6, <2>1, ProgramCalls
<1>8. /\ b \in 0 .. Len(frames) /\ frames' \in Seq(ViewFrames) /\ \A i \in 1 .. b : frames'[i] = frames[i]
      /\ b + 1 \in DOMAIN frames' /\ \A i \in DOMAIN frames' : i \in 1 .. b \/ i = b + 1
  <2>1. b + 1 \in 1 .. b + 1 /\ \A i \in 1 .. b + 1 : i \in 1 .. b \/ i = b + 1
    BY ONLY <1>7
  <2>. QED
    BY <1>7, <2>1 DEF GoOn
<1>9. \A i \in DOMAIN frames : ~Busy(frames[i])
  <2>1. frames \in Seq(ViewFrames)
    BY <1>1 DEF ViewTypes
  <2>. QED
    BY <1>1, <1>4, <2>1, AllCalm
<1>10. OneAtATime'
  BY <1>1, <1>4, <1>6, <1>7, <1>8, <1>9, OneBusy
<1>11. ViewTypes'
  <2>1. /\ kept' \in [Watchers -> Seq(Items)] /\ (\A x \in Watchers \ subscribed : kept'[x] = <<>>)
        /\ made' \in Nat /\ elements' \in Seq(Items)
    BY <1>1, <1>4 DEF ViewTypes
  <2>2. \A i \in DOMAIN frames' : i \in 1 .. b \/ (IsKnown(frames'[i]) /\ frames'[i].do # "replay")
    BY <1>6, <1>7, <1>8 DEF IsKnown
  <2>. QED
    BY <1>1, <1>4, <1>8, <2>1, <2>2, TypesGoOn
<1>12. ASSUME NEW x \in (subscribed \ ended)' PROVE ListMirrors(x)'
  <2>1. x \in subscribed \ ended /\ ListMirrors(x) /\ Listed(x)
    BY <1>1, <1>4 DEF OneAtATime
  <2>2. \A i \in 1 .. b : Silent(frames[i], x, watchers) /\ frames[i].do \notin {"clear", "addTo", "replay"}
    <3>1. \A i \in 1 .. b : frames[i] \in ViewFrames
      BY <1>1, <1>7 DEF ViewTypes
    <3>. QED
      BY <1>1, <1>7, <1>9, <2>1, <3>1, CalmMeans
  <2>3. kept[x] = elements
    BY <1>7, <2>1, <2>2 DEF ListMirrors, ListQuiet
  <2>4. \A i \in DOMAIN frames' : /\ ~Untold(frames'[i], x, watchers')
                                  /\ frames'[i].do \notin {"addTo", "replay"}
                                  /\ frames'[i].do = "clear" => frames'[i] = c
    <3>1. \A i \in 1 .. b : /\ ~Untold(frames'[i], x, watchers')
                            /\ frames'[i].do \notin {"clear", "addTo", "replay"}
      BY <1>4, <1>8, <2>2 DEF Silent
    <3>2. ~Untold(c, x, watchers') /\ c.do \notin {"addTo", "replay"}
      BY <1>6 DEF Untold
    <3>. QED
      BY <1>7, <1>8, <3>1, <3>2
  <2>5. ListReported(x)' /\ ListHalfTold(x)' /\ ListUntold(x)'
    BY <2>4 DEF ListReported, ListHalfTold, ListUntold, Reports
  <2>6. ListCleared(x)'
    <3>1. SubSeq(elements, 1, n) = elements
      BY <1>2, <1>5, BeginningOfAll
    <3>2. kept'[x] = SubSeq(elements', 1, n)
      BY <1>4, <2>3, <3>1
    <3>. QED
      BY <1>4, <1>5, <1>6, <2>4, <3>2 DEF ListCleared
  <2>7. ListQuiet(x)'
    BY <1>6, <1>7, <1>8 DEF ListQuiet, Silent
  <2>. QED
    BY <2>5, <2>6, <2>7 DEF ListMirrors
<1>. QED
  BY <1>10, <1>11, <1>12 DEF ListsInv

\* Where a clear is at work all else is over.
LEMMA BelowClear ==
    ASSUME ViewTypes, OneAtATime, NEW b \in Nat, b + 1 = Len(frames), frames[b + 1].do = "clear"
    PROVE  /\ \A i \in 1 .. b : ~Busy(frames[i])
           /\ \A y \in subscribed : \A i \in 1 .. b + 1 : ~Untold(frames[i], y, watchers)
<1>1. b \in Nat /\ DOMAIN frames = 1 .. b + 1 /\ b + 1 \in DOMAIN frames
  <2>1. frames \in Seq(ViewFrames)
    BY DEF ViewTypes
  <2>. QED
    BY <2>1
<1>2. ASSUME NEW i \in 1 .. b PROVE ~Busy(frames[i])
  <2>1. i \in 1 .. (b + 1) - 1 /\ Busy(frames[b + 1]) /\ i \in DOMAIN frames
    BY <1>1 DEF Busy
  <2>2. frames[i].do # "replay"
    BY <1>1, <2>1 DEF OneAtATime
  <2>. QED
    BY <1>1, <2>1, <2>2 DEF OneAtATime
<1>3. ASSUME NEW y \in subscribed, NEW i \in 1 .. b + 1 PROVE ~Untold(frames[i], y, watchers)
  <2>1. CASE i \in 1 .. b
    <3>1. Listed(y) /\ frames[i] \in ViewFrames /\ ~Busy(frames[i])
      BY <1>1, <1>2, <2>1 DEF OneAtATime, ViewTypes
    <3>. QED
      BY <3>1, CalmMeans DEF Silent
  <2>2. CASE i = b + 1
    BY <2>2 DEF Untold
  <2>. QED
    BY <1>1, <2>1, <2>2
<1>. QED
  BY <1>2, <1>3

LEMMA ListClearEnds ==
    ASSUME kind = "list", ListsInv, ClearStep, Inner.events = <<>>
    PROVE  ListsInv'
<1>1. ViewTypes /\ OneAtATime /\ \A x \in subscribed \ ended : ListMirrors(x)
  BY DEF ListsInv
<1>2. PICK b : b = Len(frames) - 1
  OBVIOUS
<1>3. /\ UNCHANGED <<kind, made, watchers, subscribed, ended, kept>>
      /\ frames' = Outer /\ Inner.do = "clear" /\ elements' = <<>>
  BY DEF ClearStep, Doing
<1>4. /\ b \in Nat /\ b + 1 = Len(frames) /\ DOMAIN frames = 1 .. b + 1
      /\ Inner = frames[b + 1] /\ GoOn(b) /\ DOMAIN frames' = 1 .. b
  <2>1. /\ b \in Nat /\ b + 1 = Len(frames) /\ DOMAIN frames = 1 .. b + 1
        /\ Inner = frames[b + 1]
    BY <1>1, <1>2, <1>3, InnerGoes
  <2>2. GoOn(b) /\ DOMAIN frames' = 1 .. b
    BY <1>1, <1>2, <1>3, InnerLeaves
  <2>. QED
    BY <2>1, <2>2
<1>5. /\ b \in 0 .. Len(frames) /\ frames' \in Seq(ViewFrames) /\ \A i \in 1 .. b : frames'[i] = frames[i]
  BY <1>4 DEF GoOn
<1>6. frames[b + 1].do = "clear" /\ frames[b + 1].events = <<>>
  BY <1>3, <1>4
<1>7. /\ \A i \in 1 .. b : ~Busy(frames[i])
      /\ \A y \in subscribed : \A i \in 1 .. b + 1 : ~Untold(frames[i], y, watchers)
  BY <1>1, <1>4, <1>6, BelowClear
<1>8. OneAtATime'
  BY <1>1, <1>3, <1>4, <1>7, OneBusy
<1>9. ViewTypes'
  <2>1. /\ kept' \in [Watchers -> Seq(Items)] /\ (\A x \in Watchers \ subscribed : kept'[x] = <<>>)
        /\ made' \in Nat /\ elements' \in Seq(Items)
    BY <1>1, <1>3 DEF ViewTypes
  <2>. QED
    BY <1>1, <1>3, <1>4, <1>5, <2>1, TypesGoOn
<1>10. ASSUME NEW x \in (subscribed \ ended)' PROVE ListMirrors(x)'
  <2>1. x \in subscribed \ ended /\ ListMirrors(x) /\ Listed(x)
    BY <1>1, <1>3 DEF OneAtATime
  <2>2. b + 1 \in DOMAIN frames /\ Len(frames[b + 1].events) = 0
    BY <1>4, <1>6
  <2>3. kept[x] = SubSeq(elements, 1, 0)
    BY <1>4, <1>6, <1>7, <2>1, <2>2 DEF ListMirrors, ListCleared
  <2>4. kept'[x] = elements'
    <3>1. elements \in Seq(Items)
      BY <1>1 DEF ViewTypes
    <3>2. SubSeq(elements, 1, 0) = <<>>
      BY ONLY <3>1, BeginningOfAll
    <3>. QED
      BY <1>3, <2>3, <3>2
  <2>5. \A i \in DOMAIN frames' : Silent(frames'[i], x, watchers')
    <3>1. \A i \in 1 .. b : frames[i] \in ViewFrames
      BY <1>1, <1>4 DEF ViewTypes
    <3>2. \A i \in 1 .. b : Silent(frames[i], x, watchers)
      BY <1>1, <1>7, <2>1, <3>1, CalmMeans
    <3>. QED
      BY <1>3, <1>4, <1>5, <3>2
  <2>. QED
    BY <2>4, <2>5, SilentMirrors
<1>. QED
  BY <1>8, <1>9, <1>10 DEF ListsInv

LEMMA ListClearGoesOn ==
    ASSUME kind = "list", ListsInv, ClearStep, Inner.events # <<>>
    PROVE  ListsInv'
<1>1. ViewTypes /\ OneAtATime /\ \A x \in subscribed \ ended : ListMirrors(x)
  BY DEF ListsInv
<1>2. PICK b, c, ev : b = Len(frames) - 1 /\ c = [Inner EXCEPT !.events = Tail(@)] /\ ev = Head(Inner.events)
  OBVIOUS
<1>3. PICK f : f = FireEvent(ev)
  OBVIOUS
<1>4. /\ UNCHANGED <<kind, elements, made, watchers, subscribed, ended, kept>>
      /\ frames' = Outer \o <<c, f>> /\ Inner.do = "clear"
  BY <1>2, <1>3 DEF ClearStep, Doing
<1>5. /\ b \in Nat /\ b + 1 = Len(frames) /\ DOMAIN frames = 1 .. b + 1
      /\ Inner = frames[b + 1] /\ Inner \in ViewFrames /\ Outer \in Seq(ViewFrames)
  BY <1>1, <1>2, <1>4, InnerGoes, InnerIs
<1>6. PICK s, n : s = frames[b + 1].events /\ n = Len(s)
  OBVIOUS
<1>7. /\ frames[b + 1].do = "clear" /\ s \in Seq(ViewEvents) /\ n \in Nat \ {0}
      /\ ev = s[1] /\ ev \in ViewEvents /\ Len(Tail(s)) = n - 1
      /\ \A j \in 1 .. n - 1 : j + 1 \in 1 .. n /\ Tail(s)[j] = s[j + 1]
  <2>1. frames[b + 1].do = "clear" /\ s \in Seq(ViewEvents) /\ s # <<>> /\ ev = Head(s)
    BY <1>2, <1>4, <1>5, <1>6, ViewFrameFields
  <2>2. n \in Nat \ {0}
    BY <1>6, <2>1
  <2>3. ev = s[1] /\ ev \in ViewEvents
    BY <2>1, <2>2, <1>6
  <2>4. Len(Tail(s)) = n - 1 /\ \A j \in 1 .. n - 1 : Tail(s)[j] = s[j + 1]
    BY <2>1, <2>2, <1>6
  <2>. QED
    BY <2>1, <2>2, <2>3, <2>4
<1>8. c \in ViewFrames /\ c.do = "clear" /\ c.events = Tail(s)
  <2>1. PICK g : g = Inner
    OBVIOUS
  <2>2. g \in ViewFrames /\ g.do = "clear" /\ g.events = s /\ s # <<>>
    BY <1>4, <1>5, <1>6, <2>1
  <2>3. c = [g EXCEPT !.events = Tail(@)]
    BY <1>2, <2>1
  <2>. QED
    BY ONLY <2>2, <2>3, GoesOn
<1>9. /\ f \in ViewFrames /\ f.do = "fire" /\ f.next = 1 /\ f.event = ev
  BY ONLY <1>3, <1>7, ViewFramesAre
<1>10. GoOn(b) /\ DOMAIN frames' = 1 .. b + 2 /\ frames'[b + 1] = c /\ frames'[b + 2] = f
  <2>1. frames' = Append(Append(Outer, c), f)
    <3>1. Outer \o <<c, f>> = Append(Append(Outer, c), f)
      BY ONLY <1>5, <1>8, <1>9, TwoMore
    <3>. QED
      BY <1>4, <3>1
  <2>2. b = Len(frames) - 1 /\ Inner.do # "none" /\ watchers' = watchers
    BY <1>2, <1>4
  <2>3. c \in ViewFrames /\ f \in ViewFrames
    BY <1>8, <1>9
  <2>. QED
    BY ONLY <1>1, <2>1, <2>2, <2>3, InnerBecomesTwo
<1>11. /\ b \in 0 .. Len(frames) /\ frames' \in Seq(ViewFrames) /\ \A i \in 1 .. b : frames'[i] = frames[i]
       /\ Len(frames') = b + 2 /\ b + 1 \in DOMAIN frames' /\ b + 2 \in DOMAIN frames'
       /\ \A i \in DOMAIN frames' : i \in 1 .. b \/ i = b + 1 \/ i = b + 2
  <2>1. b + 1 \in 1 .. b + 2 /\ b + 2 \in 1 .. b + 2
        /\ \A i \in 1 .. b + 2 : i \in 1 .. b \/ i = b + 1 \/ i = b + 2
    BY ONLY <1>5
  <2>2. frames' \in Seq(ViewFrames) /\ b \in 0 .. Len(frames) /\ \A i \in 1 .. b : frames'[i] = frames[i]
    BY <1>10 DEF GoOn
  <2>3. Len(frames') = b + 2
    BY ONLY <1>5, <1>10, <2>2
  <2>. QED
    BY <1>10, <2>1, <2>2, <2>3
<1>12. /\ \A i \in 1 .. b : ~Busy(frames[i])
       /\ \A y \in subscribed : \A i \in 1 .. b + 1 : ~Untold(frames[i], y, watchers)
  BY <1>1, <1>5, <1>7, BelowClear
<1>13. OneAtATime'
  BY <1>1, <1>4, <1>8, <1>9, <1>10, <1>11, <1>12, OneBusy
<1>14. ViewTypes'
  <2>1. /\ kept' \in [Watchers -> Seq(Items)] /\ (\A x \in Watchers \ subscribed : kept'[x] = <<>>)
        /\ made' \in Nat /\ elements' \in Seq(Items)
    BY <1>1, <1>4 DEF ViewTypes
  <2>2. IsKnown(f) /\ f.do # "replay" /\ IsKnown(c) /\ c.do # "replay"
    BY <1>1, <1>8, <1>9 DEF IsKnown, ViewTypes
  <2>3. \A i \in DOMAIN frames' : i \in 1 .. b \/ (IsKnown(frames'[i]) /\ frames'[i].do # "replay")
    BY <1>10, <1>11, <2>2
  <2>. QED
    BY <1>1, <1>4, <1>11, <2>1, <2>3, TypesGoOn
<1>15. ASSUME NEW x \in (subscribed \ ended)' PROVE ListMirrors(x)'
  <2>1. x \in subscribed \ ended /\ ListMirrors(x) /\ Listed(x)
    BY <1>1, <1>4 DEF OneAtATime
  <2>2. b + 1 \in DOMAIN frames
    BY <1>5
  <2>3. /\ \A j \in 1 .. n : n + 1 - j \in DOMAIN elements /\ s[j] = Removed(n + 1 - j, elements[n + 1 - j])
        /\ kept[x] = SubSeq(elements, 1, n)
    BY <1>5, <1>6, <1>7, <1>12, <2>1, <2>2 DEF ListMirrors, ListCleared
  <2>4. \A i \in DOMAIN frames' : i # b + 2 => /\ ~Untold(frames'[i], x, watchers')
                                               /\ frames'[i].do \notin {"addTo", "replay"}
                                               /\ frames'[i].do = "clear" => frames'[i] = c
    <3>1. \A i \in 1 .. b : frames[i] \in ViewFrames
      BY <1>1, <1>5 DEF ViewTypes
    <3>2. \A i \in 1 .. b : Silent(frames[i], x, watchers) /\ frames[i].do \notin {"clear", "addTo", "replay"}
      BY <1>1, <1>12, <2>1, <3>1, CalmMeans
    <3>3. \A i \in 1 .. b : /\ ~Untold(frames'[i], x, watchers')
                            /\ frames'[i].do \notin {"clear", "addTo", "replay"}
      BY <1>4, <1>11, <3>2 DEF Silent
    <3>4. ~Untold(c, x, watchers') /\ c.do \notin {"addTo", "replay"}
      BY <1>8 DEF Untold
    <3>. QED
      BY <1>10, <1>11, <3>3, <3>4
  <2>5. Untold(f, x, watchers') /\ f.do = "fire"
    BY <1>9, FiresToAll
  <2>6. \A i \in DOMAIN frames' : frames'[i].do = "clear" => frames'[i] = c
    BY <1>10, <2>4, <2>5
  <2>7. ListReported(x)' /\ ListHalfTold(x)' /\ ListUntold(x)'
    <3>1. ListReported(x)' /\ ListHalfTold(x)'
      BY <1>10, <2>4, <2>5 DEF ListReported, ListHalfTold, Reports
    <3>2. ListUntold(x)'
      BY <1>8, <1>10, <1>11 DEF ListUntold
    <3>. QED
      BY <3>1, <3>2
  <2>8. ListCleared(x)'
    <3>1. PICK m : m = n - 1
      OBVIOUS
    <3>2. m \in Nat /\ m + 1 = n /\ Len(c.events) = m
      BY <1>7, <1>8, <3>1
    <3>3. \A j \in 1 .. m : m + 1 - j \in DOMAIN elements /\ c.events[j] = Removed(m + 1 - j, elements[m + 1 - j])
      <4>1. SUFFICES ASSUME NEW j \in 1 .. m
                     PROVE  m + 1 - j \in DOMAIN elements /\ c.events[j] = Removed(m + 1 - j, elements[m + 1 - j])
        OBVIOUS
      <4>2. j + 1 \in 1 .. n /\ n + 1 - (j + 1) = m + 1 - j /\ j \in 1 .. n - 1
        BY <1>7, <3>1, <3>2
      <4>3. c.events[j] = s[j + 1]
        BY <1>7, <1>8, <4>2
      <4>4. n + 1 - (j + 1) \in DOMAIN elements /\ s[j + 1] = Removed(n + 1 - (j + 1), elements[n + 1 - (j + 1)])
        BY <2>3, <4>2
      <4>. QED
        BY <4>2, <4>3, <4>4
    <3>4. m + 1 \in DOMAIN elements /\ ev = Removed(m + 1, elements[m + 1]) /\ kept[x] = SubSeq(elements, 1, m + 1)
      <4>1. 1 \in 1 .. n /\ n + 1 - 1 = m + 1
        BY <1>7, <3>2
      <4>2. n + 1 - 1 \in DOMAIN elements /\ s[1] = Removed(n + 1 - 1, elements[n + 1 - 1])
        BY <2>3, <4>1
      <4>. QED
        BY <1>7, <2>3, <3>2, <4>1, <4>2
    <3>5. \A j \in DOMAIN frames' : Untold(frames'[j], x, watchers') => frames'[j].event = ev
      BY <1>9, <1>10, <2>4
    <3>6. \E j \in DOMAIN frames' : Untold(frames'[j], x, watchers')
      BY <1>10, <1>11, <2>5
    <3>7. elements' = elements /\ kept'[x] = kept[x]
      BY <1>4
    <3>. QED
      BY <2>6, <3>2, <3>3, <3>4, <3>5, <3>6, <3>7 DEF ListCleared
  <2>9. ListQuiet(x)'
    BY <1>8, <1>10, <1>11 DEF ListQuiet, Silent
  <2>. QED
    BY <2>7, <2>8, <2>9 DEF ListMirrors
<1>. QED
  BY <1>13, <1>14, <1>15 DEF ListsInv

-----------------------------------------------------------------------------
(***************************************************************************)
(* Lists: an event is delivered                                             *)
(***************************************************************************)

\* Where an event is handed out no other is, and at most a clear is below.
LEMMA BelowFire ==
    ASSUME ViewTypes, OneAtATime, NEW b \in Nat, b + 1 = Len(frames), frames[b + 1].do = "fire",
           frames[b + 1].next <= Len(watchers)
    PROVE  /\ \A i \in 1 .. b : frames[i].do \notin {"addTo", "replay"}
           /\ \A i \in 1 .. b : Busy(frames[i]) => frames[i].do = "clear"
           /\ \A y \in subscribed : \A i \in 1 .. b : ~Untold(frames[i], y, watchers)
<1>1. DOMAIN frames = 1 .. b + 1 /\ b + 1 \in DOMAIN frames
  <2>1. frames \in Seq(ViewFrames)
    BY DEF ViewTypes
  <2>. QED
    BY <2>1
<1>2. ASSUME NEW i \in 1 .. b PROVE frames[i].do # "replay" /\ (Busy(frames[i]) => frames[i].do = "clear")
  <2>1. i \in 1 .. (b + 1) - 1 /\ Busy(frames[b + 1]) /\ i \in DOMAIN frames
    BY <1>1 DEF Busy
  <2>2. frames[i].do # "replay"
    BY <1>1, <2>1 DEF OneAtATime
  <2>. QED
    BY <1>1, <2>1, <2>2 DEF OneAtATime
<1>3. ASSUME NEW y \in subscribed, NEW i \in 1 .. b PROVE ~Untold(frames[i], y, watchers)
  <2>1. CASE Busy(frames[i])
    BY <1>2, <2>1 DEF Untold
  <2>2. CASE ~Busy(frames[i])
    <3>1. Listed(y) /\ frames[i] \in ViewFrames
      BY <1>1, <2>2 DEF OneAtATime, ViewTypes
    <3>. QED
      BY <2>2, <3>1, CalmMeans DEF Silent
  <2>. QED
    BY <2>1, <2>2
<1>4. \A i \in 1 .. b : frames[i].do # "addTo"
  BY <1>2 DEF Busy
<1>. QED
  BY <1>2, <1>3, <1>4

\* An event is handed to one: what this is to all others.
LEMMA ListHandsOn ==
    ASSUME ListsInv, UNCHANGED <<kind, elements, made, watchers, subscribed, ended>>,
           NEW b \in Nat, b + 1 = Len(frames), GoOn(b), b + 1 \in DOMAIN frames',
           frames[b + 1].do = "fire", frames'[b + 1].do = "fire",
           frames[b + 1].next <= Len(watchers),
           frames'[b + 1].event = frames[b + 1].event, IsKnown(frames'[b + 1]),
           NEW y \in subscribed,
           \A x : Told(frames'[b + 1], x, watchers) <=> Told(frames[b + 1], x, watchers) \/ x = y,
           \A i \in DOMAIN frames' : i \in 1 .. b + 1 \/ frames'[i].do = "user"
                                       \/ (frames'[i].do = "addTo" /\ frames'[i].of = y),
           kept' \in [Watchers -> Seq(Items)], \A x \in Watchers : x # y => kept'[x] = kept[x]
    PROVE  /\ ViewTypes'
           /\ (\A i \in DOMAIN frames' : i \in 1 .. b + 1 \/ frames'[i].do = "user") => OneAtATime'
           /\ \A x \in (subscribed \ ended) \ {y} : ListMirrors(x)'
<1>1. /\ ViewTypes /\ OneAtATime /\ \A x \in subscribed \ ended : ListMirrors(x)
      /\ watchers' = watchers /\ subscribed' = subscribed /\ y \in Watchers
  BY DEF ListsInv, ViewTypes
<1>2. /\ DOMAIN frames = 1 .. b + 1 /\ frames' \in Seq(ViewFrames) /\ b \in 0 .. Len(frames)
      /\ \A i \in 1 .. b : frames'[i] = frames[i]
      /\ \A i : i \in 1 .. b + 1 <=> i \in 1 .. b \/ i = b + 1
  <2>1. frames \in Seq(ViewFrames)
    BY <1>1 DEF ViewTypes
  <2>2. DOMAIN frames = 1 .. b + 1
    BY <2>1
  <2>3. \A i : i \in 1 .. b + 1 <=> i \in 1 .. b \/ i = b + 1
    OBVIOUS
  <2>. QED
    BY <2>2, <2>3 DEF GoOn
<1>3. PICK f, g : f = frames[b + 1] /\ g = frames'[b + 1]
  OBVIOUS
<1>4. /\ f.do = "fire" /\ g.do = "fire" /\ g.event = f.event /\ IsKnown(g) /\ f.next <= Len(watchers)
      /\ \A x : Untold(g, x, watchers) <=> Untold(f, x, watchers) /\ x # y
      /\ Busy(f)
  BY <1>3 DEF Untold, Busy
<1>5. ViewTypes'
  <2>1. /\ made' \in Nat /\ elements' \in Seq(Items)
        /\ \A x \in Watchers \ subscribed : kept'[x] = <<>>
    BY <1>1 DEF ViewTypes
  <2>2. \A i \in DOMAIN frames' : i \in 1 .. b \/ (IsKnown(frames'[i]) /\ frames'[i].do # "replay")
    <3>1. SUFFICES ASSUME NEW i \in DOMAIN frames', i \notin 1 .. b
                   PROVE  IsKnown(frames'[i]) /\ frames'[i].do # "replay"
      OBVIOUS
    <3>2. CASE i = b + 1
      BY <1>3, <1>4, <3>2
    <3>3. CASE frames'[i].do = "user" \/ (frames'[i].do = "addTo" /\ frames'[i].of = y)
      BY <3>3 DEF IsKnown
    <3>. QED
      BY <1>2, <3>1, <3>2, <3>3
  <2>. QED
    BY <1>1, <1>2, <2>1, <2>2, TypesGoOn
<1>6. ASSUME \A i \in DOMAIN frames' : i \in 1 .. b + 1 \/ frames'[i].do = "user" PROVE OneAtATime'
  <2>1. \A i \in DOMAIN frames' :
          \/ i \in 1 .. b
          \/ frames'[i].do \in {"user", "addAll", "removeAll"}
          \/ /\ i = b + 1 /\ i \in DOMAIN frames /\ frames'[i].do = frames[i].do
             /\ frames[i].do \in {"fire", "replay"}
             /\ Busy(frames'[i]) => Busy(frames[i])
             /\ \A x : Untold(frames'[i], x, watchers) => Untold(frames[i], x, watchers)
    <3>1. b + 1 \in DOMAIN frames
      BY <1>2
    <3>2. /\ frames'[b + 1].do = frames[b + 1].do /\ frames[b + 1].do \in {"fire", "replay"}
          /\ Busy(frames[b + 1])
          /\ \A x : Untold(frames'[b + 1], x, watchers) => Untold(frames[b + 1], x, watchers)
      BY <1>3, <1>4
    <3>. QED
      BY <1>2, <1>6, <3>1, <3>2
  <2>. QED
    BY ONLY <1>1, <2>1, GoOn(b), OneStays
<1>7. ASSUME NEW x \in (subscribed \ ended) \ {y} PROVE ListMirrors(x)'
  <2>1. ListMirrors(x) /\ x # y /\ elements' = elements /\ kept'[x] = kept[x]
    BY <1>1 DEF ViewTypes
  <2>2. \/ Silent(f, x, watchers) /\ Silent(g, x, watchers)
        \/ Likewise(f, g, x)
    BY <1>4, <2>1 DEF Silent, Likewise, Reports, Brings, Untold
  <2>3. \A i \in DOMAIN frames : i \in 1 .. b \/ Silent(frames[i], x, watchers) \/
              (/\ i \in DOMAIN frames' /\ watchers' = watchers
               /\ Likewise(frames[i], frames'[i], x))
    BY <1>1, <1>2, <1>3, <2>2
  <2>4. \A i \in DOMAIN frames' : i \in 1 .. b \/ Silent(frames'[i], x, watchers') \/
              (/\ i \in DOMAIN frames /\ watchers' = watchers
               /\ Likewise(frames[i], frames'[i], x))
    <3>1. SUFFICES ASSUME NEW i \in DOMAIN frames', i \notin 1 .. b
                   PROVE  Silent(frames'[i], x, watchers') \/
                            (/\ i \in DOMAIN frames /\ watchers' = watchers
                             /\ Likewise(frames[i], frames'[i], x))
      OBVIOUS
    <3>2. CASE i = b + 1
      <4>1. i \in DOMAIN frames
        BY <1>2, <3>2
      <4>. QED
        BY <1>1, <1>3, <2>2, <3>2, <4>1
    <3>3. CASE frames'[i].do = "user" \/ (frames'[i].do = "addTo" /\ frames'[i].of = y)
      BY <2>1, <3>3 DEF Silent, Reports, Brings, Untold
    <3>. QED
      BY <1>2, <3>1, <3>2, <3>3
  <2>. QED
    BY ONLY <1>1, <2>1, <2>3, <2>4, GoOn(b), MirrorStays
<1>. QED
  BY <1>5, <1>6, <1>7

LEMMA ListDeliverEnds ==
    ASSUME ListsInv, Deliver, Inner.next > Len(watchers)
    PROVE  ListsInv'
<1>1. PICK b : b = Len(frames) - 1
  OBVIOUS
<1>2. /\ UNCHANGED <<kind, elements, made, watchers, subscribed, ended, kept>>
      /\ frames' = Outer /\ Inner.do = "fire" /\ ViewTypes
  BY DEF Deliver, Doing, ListsInv
<1>3. GoOn(b) /\ DOMAIN frames' = 1 .. b
  <2>1. watchers' = watchers /\ Inner.do # "none"
    BY <1>2
  <2>. QED
    BY ONLY <1>1, <1>2, <2>1, InnerLeaves
<1>4. \A i \in DOMAIN frames : i \in 1 .. b \/ ~Busy(frames[i])
  <2>1. b \in Nat /\ DOMAIN frames = 1 .. b + 1 /\ Inner = frames[b + 1] /\ Inner \in ViewFrames
    BY <1>1, <1>2, InnerGoes
  <2>2. Inner.next \in Nat /\ Len(watchers) \in Nat
    BY <1>2, <2>1, ViewFrameFields DEF ViewTypes
  <2>3. ~Busy(Inner)
    BY <1>2, <2>2 DEF Busy
  <2>. QED
    BY <2>1, <2>3
<1>5. \A i \in DOMAIN frames' : i \in 1 .. b
  BY <1>3
<1>. QED
  BY <1>2, <1>3, <1>4, <1>5, ListCallsOn

\* The frames of a delivery, and what is handed out.
LEMMA ListFireAtWork ==
    ASSUME ListsInv, Deliver, Inner.next <= Len(watchers),
           NEW b, b = Len(frames) - 1, NEW f, f = Inner,
           NEW g, g = [Inner EXCEPT !.next = @ + 1], NEW y, y = watchers[Inner.next],
           NEW ev, ev = Inner.event
    PROVE  /\ ViewTypes /\ OneAtATime /\ b \in Nat /\ b + 1 = Len(frames) /\ DOMAIN frames = 1 .. b + 1
           /\ Inner.do # "none" /\ b + 1 \in DOMAIN frames
           /\ frames[b + 1] = f /\ f.do = "fire" /\ f.event = ev /\ f.next <= Len(watchers)
           /\ ev \in ViewEvents
           /\ g \in ViewFrames /\ g.do = "fire" /\ g.event = ev /\ IsKnown(g)
           /\ \A x : Told(g, x, watchers) <=> Told(f, x, watchers) \/ x = y
           /\ y \in subscribed /\ y \in Watchers /\ Untold(f, y, watchers) /\ ~Untold(g, y, watchers)
           /\ UNCHANGED <<kind, elements, made, watchers, subscribed, ended>>
           /\ IF y \in ended THEN frames' = Append(Outer, g) /\ UNCHANGED kept
              ELSE HearsEvent(y, ev, Append(Outer, g))
<1>1. Inner.do = "fire" /\ ViewTypes /\ OneAtATime
  BY DEF Deliver, Doing, ListsInv
<1>2. /\ b \in Nat /\ b + 1 = Len(frames) /\ DOMAIN frames = 1 .. b + 1
      /\ frames[b + 1] = Inner /\ Inner \in ViewFrames /\ Inner.event \in ViewEvents
      /\ g \in ViewFrames /\ g.do = "fire" /\ g.event = Inner.event /\ IsKnown(g)
      /\ \A x : Told(g, x, watchers) <=> Told(Inner, x, watchers) \/ x = y
      /\ y \in subscribed /\ y \in Watchers
      /\ Untold(Inner, y, watchers) /\ ~Untold(g, y, watchers)
  BY <1>1, FireAtWork
<1>3. ~(Inner.next > Len(watchers))
  BY <1>1, <1>2, ViewFrameFields DEF ViewTypes
<1>4. /\ UNCHANGED <<kind, elements, made, watchers, subscribed, ended>>
      /\ IF y \in ended THEN frames' = Append(Outer, g) /\ UNCHANGED kept
         ELSE HearsEvent(y, ev, Append(Outer, g))
  BY <1>3 DEF Deliver
<1>. QED
  BY <1>1, <1>2, <1>4

LEMMA ListDeliverPast ==
    ASSUME ListsInv, Deliver, Inner.next <= Len(watchers), watchers[Inner.next] \in ended
    PROVE  ListsInv'
<1>1. PICK b, f, g, y : /\ b = Len(frames) - 1 /\ f = Inner /\ g = [Inner EXCEPT !.next = @ + 1]
                        /\ y = watchers[Inner.next]
  OBVIOUS
<1>2. PICK ev : ev = Inner.event
  OBVIOUS
<1>3. /\ ViewTypes /\ OneAtATime /\ b \in Nat /\ b + 1 = Len(frames) /\ DOMAIN frames = 1 .. b + 1
      /\ Inner.do # "none"
      /\ frames[b + 1] = f /\ f.do = "fire" /\ f.event = ev /\ f.next <= Len(watchers)
      /\ g \in ViewFrames /\ g.do = "fire" /\ g.event = ev /\ IsKnown(g)
      /\ \A x : Told(g, x, watchers) <=> Told(f, x, watchers) \/ x = y
      /\ y \in subscribed /\ y \in Watchers
      /\ UNCHANGED <<kind, elements, made, watchers, subscribed, ended>>
      /\ y \in ended /\ frames' = Append(Outer, g) /\ kept' = kept
  BY <1>1, <1>2, ListFireAtWork
<1>4. GoOn(b) /\ DOMAIN frames' = 1 .. b + 1 /\ frames'[b + 1] = g
  <2>1. watchers' = watchers /\ b = Len(frames) - 1
    BY <1>1, <1>3
  <2>. QED
    BY ONLY <1>3, <2>1, InnerBecomesOne
<1>5. /\ ViewTypes'
      /\ (\A i \in DOMAIN frames' : i \in 1 .. b + 1 \/ frames'[i].do = "user") => OneAtATime'
      /\ \A x \in (subscribed \ ended) \ {y} : ListMirrors(x)'
  <2>1. kept' \in [Watchers -> Seq(Items)] /\ \A x \in Watchers : x # y => kept'[x] = kept[x]
    BY <1>3 DEF ViewTypes
  <2>2. b + 1 \in DOMAIN frames' /\ \A i \in DOMAIN frames' : i \in 1 .. b + 1
    BY <1>3, <1>4
  <2>3. /\ frames[b + 1].do = "fire" /\ frames'[b + 1].do = "fire" /\ frames[b + 1].next <= Len(watchers)
        /\ frames'[b + 1].event = frames[b + 1].event /\ IsKnown(frames'[b + 1])
        /\ \A x : Told(frames'[b + 1], x, watchers) <=> Told(frames[b + 1], x, watchers) \/ x = y
    BY <1>3, <1>4
  <2>. QED
    BY <1>3, <1>4, <2>1, <2>2, <2>3, ListHandsOn
<1>6. \A i \in DOMAIN frames' : i \in 1 .. b + 1
  BY <1>4
<1>. QED
  BY <1>3, <1>5, <1>6 DEF ListsInv

LEMMA OneKeptChanges ==
    ASSUME ViewTypes, NEW y \in Watchers, NEW s \in Seq(Items), kept' = [kept EXCEPT ![y] = s]
    PROVE  /\ kept' \in [Watchers -> Seq(Items)] /\ kept'[y] = s
           /\ \A x \in Watchers : x # y => kept'[x] = kept[x]
BY DEF ViewTypes

LEMMA EventFields ==
    ASSUME NEW ev \in ViewEvents
    PROVE  /\ ev.at \in Nat \ {0} /\ ev.new \in Items /\ ev.old \in Items
           /\ ev.op \in {"add", "update", "remove"}
BY DEF ViewEvents

LEMMA ListDeliverAdd ==
    ASSUME kind = "list", ListsInv, Deliver, Inner.next <= Len(watchers),
           watchers[Inner.next] \notin ended, Inner.event.op = "add", ~broken'
    PROVE  ListsInv'
<1>1. PICK b, f, g, y : /\ b = Len(frames) - 1 /\ f = Inner /\ g = [Inner EXCEPT !.next = @ + 1]
                        /\ y = watchers[Inner.next]
  OBVIOUS
<1>2. PICK ev : ev = Inner.event
  OBVIOUS
<1>3. /\ ViewTypes /\ OneAtATime /\ b \in Nat /\ b + 1 = Len(frames) /\ DOMAIN frames = 1 .. b + 1
      /\ Inner.do # "none" /\ b + 1 \in DOMAIN frames
      /\ frames[b + 1] = f /\ f.do = "fire" /\ f.event = ev /\ f.next <= Len(watchers)
      /\ ev \in ViewEvents
      /\ g \in ViewFrames /\ g.do = "fire" /\ g.event = ev /\ IsKnown(g)
      /\ \A x : Told(g, x, watchers) <=> Told(f, x, watchers) \/ x = y
      /\ y \in subscribed /\ y \in Watchers /\ Untold(f, y, watchers) /\ ~Untold(g, y, watchers)
      /\ UNCHANGED <<kind, elements, made, watchers, subscribed, ended>>
      /\ y \notin ended /\ HearsEvent(y, ev, Append(Outer, g))
  BY <1>1, <1>2, ListFireAtWork
<1>4. /\ frames' = Append(Append(Outer, g), User)
      /\ kept' = [kept EXCEPT ![y] = InsertAt(@, ev.at, ev.new)]
  <2>1. AddTo(y, ev, Append(Outer, g))
    BY <1>2, <1>3 DEF HearsEvent
  <2>. QED
    BY ONLY <2>1, ~broken', kind = "list" DEF AddTo
<1>5. GoOn(b) /\ DOMAIN frames' = 1 .. b + 2 /\ frames'[b + 1] = g /\ frames'[b + 2] = User /\ User.do = "user"
  <2>1. watchers' = watchers /\ b = Len(frames) - 1 /\ User \in ViewFrames /\ User.do = "user"
    BY <1>1, <1>3, ViewFramesAre
  <2>. QED
    BY ONLY <1>3, <1>4, <2>1, InnerBecomesTwo
<1>6. b + 1 \in DOMAIN frames' /\ \A i \in DOMAIN frames' : i \in 1 .. b + 1 \/ frames'[i].do = "user"
  BY <1>3, <1>5
<1>7. /\ \A i \in 1 .. b : frames[i].do \notin {"addTo", "replay"}
      /\ \A i \in 1 .. b : Busy(frames[i]) => frames[i].do = "clear"
      /\ \A x \in subscribed : \A i \in 1 .. b : ~Untold(frames[i], x, watchers)
  BY <1>3, BelowFire
<1>8. ListMirrors(y) /\ y \in subscribed \ ended
  BY <1>3 DEF ListsInv
<1>9. \A i \in DOMAIN frames : frames[i].do # "clear"
  <2>1. SUFFICES ASSUME NEW i \in DOMAIN frames, frames[i].do = "clear" PROVE FALSE
    OBVIOUS
  <2>2. ev = Removed(Len(frames[i].events) + 1, elements[Len(frames[i].events) + 1])
    BY <1>3, <1>8, <2>1 DEF ListMirrors, ListCleared
  <2>3. ev.op = "remove"
    BY <2>2 DEF Removed
  <2>. QED
    BY <1>2, <2>3
<1>10. IsMade(ev) /\ kept[y] = Before(ev)
  BY <1>3, <1>8, <1>9 DEF ListMirrors, ListUntold
<1>11. ev.at \in 1 .. Len(elements) /\ elements[ev.at] = ev.new /\ kept[y] = RemoveAt(elements, ev.at)
       /\ elements \in Seq(Items)
  BY <1>2, <1>3, <1>10 DEF IsMade, Before, ViewTypes
<1>12. kept' = [kept EXCEPT ![y] = elements]
  <2>1. InsertAt(RemoveAt(elements, ev.at), ev.at, elements[ev.at]) = elements
    BY ONLY <1>11, InsertUndoesRemove
  <2>. QED
    BY <1>4, <1>11, <2>1
<1>13. /\ kept' \in [Watchers -> Seq(Items)] /\ kept'[y] = elements
       /\ \A x \in Watchers : x # y => kept'[x] = kept[x]
  BY ONLY <1>3, <1>11, <1>12, OneKeptChanges
<1>14. /\ ViewTypes'
       /\ (\A i \in DOMAIN frames' : i \in 1 .. b + 1 \/ frames'[i].do = "user") => OneAtATime'
       /\ \A x \in (subscribed \ ended) \ {y} : ListMirrors(x)'
  <2>1. /\ frames[b + 1].do = "fire" /\ frames'[b + 1].do = "fire" /\ frames[b + 1].next <= Len(watchers)
        /\ frames'[b + 1].event = frames[b + 1].event /\ IsKnown(frames'[b + 1])
        /\ \A x : Told(frames'[b + 1], x, watchers) <=> Told(frames[b + 1], x, watchers) \/ x = y
    BY <1>3, <1>5
  <2>. QED
    BY <1>3, <1>5, <1>6, <1>13, <2>1, ListHandsOn
<1>15. ListMirrors(y)'
  <2>1. \A i \in 1 .. b : Silent(frames'[i], y, watchers')
    <3>1. \A i \in 1 .. b : frames'[i] = frames[i]
      BY <1>5 DEF GoOn
    <3>2. \A i \in 1 .. b : frames[i].do # "clear" /\ frames[i].do \notin {"addTo", "replay"}
                            /\ ~Untold(frames[i], y, watchers)
      BY <1>3, <1>7, <1>9
    <3>. QED
      BY <1>3, <3>1, <3>2 DEF Silent, Reports, Brings
  <2>2. Silent(g, y, watchers') /\ Silent(User, y, watchers')
    BY <1>3, <1>5 DEF Silent, Reports, Brings, Untold
  <2>3. \A i \in DOMAIN frames' : i \in 1 .. b \/ i = b + 1 \/ i = b + 2
    BY <1>3, <1>5
  <2>4. \A i \in DOMAIN frames' : Silent(frames'[i], y, watchers')
    BY <1>5, <2>1, <2>2, <2>3
  <2>. QED
    BY <1>3, <1>13, <2>4, SilentMirrors
<1>. QED
  BY <1>3, <1>6, <1>14, <1>15 DEF ListsInv

LEMMA ListDeliverRemove ==
    ASSUME kind = "list", ListsInv, Deliver, Inner.next <= Len(watchers),
           watchers[Inner.next] \notin ended, Inner.event.op = "remove", ~broken'
    PROVE  ListsInv'
<1>1. PICK b, f, g, y : /\ b = Len(frames) - 1 /\ f = Inner /\ g = [Inner EXCEPT !.next = @ + 1]
                        /\ y = watchers[Inner.next]
  OBVIOUS
<1>2. PICK ev : ev = Inner.event
  OBVIOUS
<1>3. /\ ViewTypes /\ OneAtATime /\ b \in Nat /\ b + 1 = Len(frames) /\ DOMAIN frames = 1 .. b + 1
      /\ Inner.do # "none" /\ b + 1 \in DOMAIN frames
      /\ frames[b + 1] = f /\ f.do = "fire" /\ f.event = ev /\ f.next <= Len(watchers)
      /\ ev \in ViewEvents
      /\ g \in ViewFrames /\ g.do = "fire" /\ g.event = ev /\ IsKnown(g)
      /\ \A x : Told(g, x, watchers) <=> Told(f, x, watchers) \/ x = y
      /\ y \in subscribed /\ y \in Watchers /\ Untold(f, y, watchers) /\ ~Untold(g, y, watchers)
      /\ UNCHANGED <<kind, elements, made, watchers, subscribed, ended>>
      /\ y \notin ended /\ HearsEvent(y, ev, Append(Outer, g))
  BY <1>1, <1>2, ListFireAtWork
<1>4. /\ frames' = Append(Append(Outer, g), User)
      /\ kept' = [kept EXCEPT ![y] = RemoveAt(@, ev.at)] /\ ~(ev.at > Len(kept[y]))
  <2>1. RemoveOf(y, ev, Append(Outer, g))
    BY <1>2, <1>3 DEF HearsEvent
  <2>. QED
    BY ONLY <2>1, ~broken', kind = "list" DEF RemoveOf
<1>5. GoOn(b) /\ DOMAIN frames' = 1 .. b + 2 /\ frames'[b + 1] = g /\ frames'[b + 2] = User /\ User.do = "user"
  <2>1. watchers' = watchers /\ b = Len(frames) - 1 /\ User \in ViewFrames /\ User.do = "user"
    BY <1>1, <1>3, ViewFramesAre
  <2>. QED
    BY ONLY <1>3, <1>4, <2>1, InnerBecomesTwo
<1>6. b + 1 \in DOMAIN frames' /\ \A i \in DOMAIN frames' : i \in 1 .. b + 1 \/ frames'[i].do = "user"
  BY <1>3, <1>5
<1>7. /\ \A i \in 1 .. b : frames[i].do \notin {"addTo", "replay"}
      /\ \A x \in subscribed : \A i \in 1 .. b : ~Untold(frames[i], x, watchers)
  BY <1>3, BelowFire
<1>8. ListMirrors(y) /\ y \in subscribed \ ended /\ elements \in Seq(Items) /\ kept[y] \in Seq(Items)
  BY <1>3 DEF ListsInv, ViewTypes
<1>9. PICK s : s = RemoveAt(kept[y], ev.at)
  OBVIOUS
<1>10. s \in Seq(Items) /\ kept' = [kept EXCEPT ![y] = s]
  <2>1. ev.at \in 1 .. Len(kept[y])
    <3>1. ev.at \in Nat \ {0} /\ Len(kept[y]) \in Nat
      BY <1>3, <1>8, EventFields
    <3>. QED
      BY <1>4, <3>1
  <2>2. s \in Seq(Items)
    BY ONLY <1>8, <1>9, <2>1, TakenOut
  <2>. QED
    BY <1>4, <1>9, <2>2
<1>11. /\ kept' \in [Watchers -> Seq(Items)] /\ kept'[y] = s
       /\ \A x \in Watchers : x # y => kept'[x] = kept[x]
  BY ONLY <1>3, <1>10, OneKeptChanges
<1>12. /\ ViewTypes'
       /\ (\A i \in DOMAIN frames' : i \in 1 .. b + 1 \/ frames'[i].do = "user") => OneAtATime'
       /\ \A x \in (subscribed \ ended) \ {y} : ListMirrors(x)'
  <2>1. /\ frames[b + 1].do = "fire" /\ frames'[b + 1].do = "fire" /\ frames[b + 1].next <= Len(watchers)
        /\ frames'[b + 1].event = frames[b + 1].event /\ IsKnown(frames'[b + 1])
        /\ \A x : Told(frames'[b + 1], x, watchers) <=> Told(frames[b + 1], x, watchers) \/ x = y
    BY <1>3, <1>5
  <2>. QED
    BY <1>3, <1>5, <1>6, <1>11, <2>1, ListHandsOn
<1>13. /\ \A i \in 1 .. b : frames'[i] = frames[i]
       /\ \A i \in DOMAIN frames' : i \in 1 .. b \/ i = b + 1 \/ i = b + 2
  <2>1. \A i \in 1 .. b : frames'[i] = frames[i]
    BY <1>5 DEF GoOn
  <2>. QED
    BY <1>3, <1>5, <2>1
<1>14. \A i \in DOMAIN frames' : /\ ~Untold(frames'[i], y, watchers')
                                 /\ frames'[i].do \notin {"addTo", "replay"}
                                 /\ frames'[i].do = "clear" =>
                                      i \in 1 .. b /\ i \in DOMAIN frames /\ frames'[i] = frames[i]
  <2>1. \A i \in 1 .. b : /\ ~Untold(frames'[i], y, watchers') /\ i \in DOMAIN frames
                          /\ frames'[i].do \notin {"addTo", "replay"}
    BY <1>3, <1>7, <1>13
  <2>2. /\ ~Untold(g, y, watchers') /\ ~Untold(User, y, watchers')
    BY <1>3, <1>5 DEF Untold
  <2>. QED
    BY <1>3, <1>5, <1>13, <2>1, <2>2
<1>15. ListMirrors(y)'
  <2>1. CASE \A i \in DOMAIN frames : frames[i].do # "clear"
    <3>1. IsMade(ev) /\ kept[y] = Before(ev)
      BY <1>3, <1>8, <2>1 DEF ListMirrors, ListUntold
    <3>2. ev.at \in 1 .. Len(elements) + 1 /\ kept[y] = InsertAt(elements, ev.at, ev.old) /\ ev.old \in Items
      BY <1>2, <1>3, <3>1, EventFields DEF IsMade, Before
    <3>3. RemoveAt(InsertAt(elements, ev.at, ev.old), ev.at) = elements
      BY ONLY <1>8, <3>2, RemoveUndoesInsert
    <3>4. kept'[y] = elements'
      BY <1>3, <1>9, <1>11, <3>2, <3>3
    <3>5. \A i \in DOMAIN frames' : Silent(frames'[i], y, watchers')
      BY <1>14, <2>1 DEF Silent, Reports, Brings
    <3>. QED
      BY <3>4, <3>5, SilentMirrors
  <2>2. ASSUME NEW c \in DOMAIN frames, frames[c].do = "clear" PROVE ListMirrors(y)'
    <3>1. c \in 1 .. b /\ frames'[c] = frames[c] /\ c \in DOMAIN frames'
      <4>1. c # b + 1 /\ c \in 1 .. b + 1
        BY <1>3, <2>2
      <4>2. c \in 1 .. b /\ c \in 1 .. b + 2
        BY ONLY <1>3, <4>1
      <4>. QED
        BY <1>5, <1>13, <4>2
    <3>2. ListReported(y)' /\ ListHalfTold(y)' /\ ListUntold(y)'
      BY <1>14 DEF ListReported, ListHalfTold, ListUntold, Reports
    <3>3. ListCleared(y)'
      <4>1. SUFFICES ASSUME NEW i \in DOMAIN frames', frames'[i].do = "clear",
                            NEW n, n = Len(frames'[i].events)
                     PROVE  /\ \A j \in 1 .. n :
                                 /\ n + 1 - j \in DOMAIN elements'
                                 /\ frames'[i].events[j] = Removed(n + 1 - j, elements'[n + 1 - j])
                            /\ kept'[y] = SubSeq(elements', 1, n)
        BY <1>14 DEF ListCleared
      <4>2. i \in DOMAIN frames /\ frames'[i] = frames[i] /\ frames[i].do = "clear"
        BY <1>14, <4>1
      <4>3. n \in Nat
        <5>1. frames[i] \in ViewFrames
          BY <1>3, <4>2 DEF ViewTypes
        <5>2. frames[i].events \in Seq(ViewEvents)
          BY <4>2, <5>1, ViewFrameFields
        <5>. QED
          BY <4>1, <4>2, <5>2
      <4>4. \A j \in 1 .. n :
                 /\ n + 1 - j \in DOMAIN elements
                 /\ frames[i].events[j] = Removed(n + 1 - j, elements[n + 1 - j])
        BY <1>8, <4>1, <4>2 DEF ListMirrors, ListCleared
      <4>5. n + 1 \in DOMAIN elements /\ ev = Removed(n + 1, elements[n + 1]) /\ kept[y] = SubSeq(elements, 1, n + 1)
        BY <1>3, <1>8, <4>1, <4>2 DEF ListMirrors, ListCleared
      <4>6. ev.at = n + 1
        BY <4>5 DEF Removed
      <4>7. PICK m : m = n + 1
        OBVIOUS
      <4>8. m \in 1 .. Len(elements) /\ m - 1 = n
        BY <1>8, <4>3, <4>5, <4>7
      <4>9. RemoveAt(SubSeq(elements, 1, m), m) = SubSeq(elements, 1, m - 1)
        BY ONLY <1>8, <4>8, BeginningShrinks
      <4>10. kept'[y] = SubSeq(elements, 1, n)
        BY <1>9, <1>11, <4>5, <4>6, <4>7, <4>8, <4>9
      <4>. QED
        BY <1>3, <4>2, <4>4, <4>10
    <3>4. ListQuiet(y)'
      BY <2>2, <3>1 DEF ListQuiet, Silent
    <3>. QED
      BY <3>2, <3>3, <3>4 DEF ListMirrors
  <2>. QED
    BY <2>1, <2>2
<1>. QED
  BY <1>3, <1>6, <1>12, <1>15 DEF ListsInv

LEMMA ListDeliverUpdate ==
    ASSUME kind = "list", ListsInv, Deliver, Inner.next <= Len(watchers),
           watchers[Inner.next] \notin ended, Inner.event.op = "update", ~broken'
    PROVE  ListsInv'
<1>1. PICK b, f, g, y : /\ b = Len(frames) - 1 /\ f = Inner /\ g = [Inner EXCEPT !.next = @ + 1]
                        /\ y = watchers[Inner.next]
  OBVIOUS
<1>2. PICK ev, h : ev = Inner.event /\ h = [do |-> "addTo", of |-> y, event |-> ev]
  OBVIOUS
<1>3. /\ ViewTypes /\ OneAtATime /\ b \in Nat /\ b + 1 = Len(frames) /\ DOMAIN frames = 1 .. b + 1
      /\ Inner.do # "none" /\ b + 1 \in DOMAIN frames
      /\ frames[b + 1] = f /\ f.do = "fire" /\ f.event = ev /\ f.next <= Len(watchers)
      /\ ev \in ViewEvents
      /\ g \in ViewFrames /\ g.do = "fire" /\ g.event = ev /\ IsKnown(g)
      /\ \A x : Told(g, x, watchers) <=> Told(f, x, watchers) \/ x = y
      /\ y \in subscribed /\ y \in Watchers /\ Untold(f, y, watchers) /\ ~Untold(g, y, watchers)
      /\ UNCHANGED <<kind, elements, made, watchers, subscribed, ended>>
      /\ y \notin ended /\ HearsEvent(y, ev, Append(Outer, g))
  BY <1>1, <1>2, ListFireAtWork
<1>4. /\ frames' = Append(Append(Append(Outer, g), h), User)
      /\ kept' = [kept EXCEPT ![y] = RemoveAt(@, ev.at)] /\ ~(ev.at > Len(kept[y]))
  <2>1. RemoveOf(y, ev, Append(Append(Outer, g), h))
    BY <1>2, <1>3 DEF HearsEvent
  <2>. QED
    BY ONLY <2>1, ~broken', kind = "list" DEF RemoveOf
<1>5. /\ GoOn(b) /\ DOMAIN frames' = 1 .. b + 3 /\ frames'[b + 1] = g /\ frames'[b + 2] = h
      /\ frames'[b + 3] = User /\ User.do = "user" /\ h.do = "addTo" /\ h.of = y /\ h.event = ev
  <2>1. watchers' = watchers /\ b = Len(frames) - 1 /\ User \in ViewFrames /\ User.do = "user"
    BY <1>1, <1>3, ViewFramesAre
  <2>2. h \in ViewFrames /\ h.do = "addTo" /\ h.of = y /\ h.event = ev
    BY ONLY <1>2, <1>3, ViewFramesAre
  <2>3. GoOn(b) /\ DOMAIN frames' = 1 .. b + 3 /\ frames'[b + 1] = g /\ frames'[b + 2] = h /\ frames'[b + 3] = User
    <3>1. ViewTypes /\ Inner.do # "none"
      BY <1>3
    <3>2. g \in ViewFrames /\ h \in ViewFrames /\ User \in ViewFrames
      BY <1>3, <2>1, <2>2
    <3>3. frames' = Append(Append(Append(Outer, g), h), User)
      BY <1>4
    <3>4. b = Len(frames) - 1 /\ watchers' = watchers
      BY <2>1
    <3>. QED
      BY ONLY <3>1, <3>2, <3>3, <3>4, InnerBecomesThree
  <2>. QED
    BY <2>1, <2>2, <2>3
<1>6. /\ b + 1 \in DOMAIN frames' /\ b + 2 \in DOMAIN frames'
      /\ \A i \in DOMAIN frames' : i \in 1 .. b \/ i = b + 1 \/ i = b + 2 \/ i = b + 3
      /\ \A i \in 1 .. b : frames'[i] = frames[i] /\ i \in DOMAIN frames
  <2>1. /\ b + 1 \in 1 .. b + 3 /\ b + 2 \in 1 .. b + 3
        /\ \A i \in 1 .. b + 3 : i \in 1 .. b \/ i = b + 1 \/ i = b + 2 \/ i = b + 3
        /\ \A i \in 1 .. b : i \in 1 .. b + 1
    BY ONLY <1>3
  <2>2. \A i \in 1 .. b : frames'[i] = frames[i]
    BY <1>5 DEF GoOn
  <2>. QED
    BY <1>3, <1>5, <2>1, <2>2
<1>7. /\ \A i \in 1 .. b : frames[i].do \notin {"addTo", "replay"}
      /\ \A i \in 1 .. b : Busy(frames[i]) => frames[i].do = "clear"
      /\ \A x \in subscribed : \A i \in 1 .. b : ~Untold(frames[i], x, watchers)
  BY <1>3, BelowFire
<1>8. ListMirrors(y) /\ y \in subscribed \ ended /\ elements \in Seq(Items) /\ kept[y] \in Seq(Items)
  BY <1>3 DEF ListsInv, ViewTypes
<1>9. \A i \in DOMAIN frames : frames[i].do # "clear"
  <2>1. SUFFICES ASSUME NEW i \in DOMAIN frames, frames[i].do = "clear" PROVE FALSE
    OBVIOUS
  <2>2. ev = Removed(Len(frames[i].events) + 1, elements[Len(frames[i].events) + 1])
    BY <1>3, <1>8, <2>1 DEF ListMirrors, ListCleared
  <2>3. ev.op = "remove"
    BY <2>2 DEF Removed
  <2>. QED
    BY <1>2, <2>3
<1>10. IsMade(ev) /\ kept[y] = Before(ev)
  BY <1>3, <1>8, <1>9 DEF ListMirrors, ListUntold
<1>11. /\ ev.at \in 1 .. Len(elements) /\ kept[y] = ReplaceAt(elements, ev.at, ev.old)
       /\ ev.old \in Items /\ ev.op = "update"
  BY <1>2, <1>3, <1>8, <1>10, EventFields DEF IsMade, Before
<1>12. PICK s : s = RemoveAt(elements, ev.at)
  OBVIOUS
<1>13. s \in Seq(Items) /\ kept' = [kept EXCEPT ![y] = s]
  <2>1. s \in Seq(Items)
    BY ONLY <1>8, <1>11, <1>12, TakenOut
  <2>2. RemoveAt(ReplaceAt(elements, ev.at, ev.old), ev.at) = RemoveAt(elements, ev.at)
    BY ONLY <1>8, <1>11, RemoveOfReplaced
  <2>. QED
    BY <1>4, <1>11, <1>12, <2>1, <2>2
<1>14. /\ kept' \in [Watchers -> Seq(Items)] /\ kept'[y] = s
       /\ \A x \in Watchers : x # y => kept'[x] = kept[x]
  BY ONLY <1>3, <1>13, OneKeptChanges
<1>15. /\ ViewTypes'
       /\ \A x \in (subscribed \ ended) \ {y} : ListMirrors(x)'
  <2>1. /\ frames[b + 1].do = "fire" /\ frames'[b + 1].do = "fire" /\ frames[b + 1].next <= Len(watchers)
        /\ frames'[b + 1].event = frames[b + 1].event /\ IsKnown(frames'[b + 1])
        /\ \A x : Told(frames'[b + 1], x, watchers) <=> Told(frames[b + 1], x, watchers) \/ x = y
    BY <1>3, <1>5
  <2>2. \A i \in DOMAIN frames' : i \in 1 .. b + 1 \/ frames'[i].do = "user"
                                       \/ (frames'[i].do = "addTo" /\ frames'[i].of = y)
    <3>1. \A i \in 1 .. b : i \in 1 .. b + 1
      BY ONLY <1>3
    <3>2. b + 1 \in 1 .. b + 1
      BY ONLY <1>3
    <3>. QED
      BY <1>5, <1>6, <3>1, <3>2
  <2>. QED
    BY <1>3, <1>5, <1>6, <1>14, <2>1, <2>2, ListHandsOn
<1>16. \A i \in 1 .. b : /\ frames'[i].do \notin {"clear", "addTo", "replay", "erase"} /\ ~Busy(frames'[i])
                         /\ \A x \in subscribed : ~Untold(frames'[i], x, watchers)
  BY <1>3, <1>6, <1>7, <1>9 DEF OneAtATime
<1>17. OneAtATime'
  <2>1. (\A x \in subscribed : Listed(x))'
    BY <1>3 DEF OneAtATime, Listed
  <2>2. \A j \in DOMAIN frames' : frames'[j].do # "erase" /\ frames'[j].do # "replay"
    BY <1>3, <1>5, <1>6, <1>16
  <2>3. ASSUME NEW j \in DOMAIN frames', frames'[j].do = "addTo"
        PROVE  /\ \E i \in 1 .. j - 1 : frames'[i].do = "fire"
               /\ \A i \in DOMAIN frames' : ~Untold(frames'[i], frames'[j].of, watchers')
    <3>1. j = b + 2
      BY <1>3, <1>5, <1>6, <1>16, <2>3
    <3>2. b + 1 \in 1 .. j - 1
      BY ONLY <1>3, <3>1
    <3>3. ~Untold(h, y, watchers) /\ ~Untold(User, y, watchers)
      BY <1>5 DEF Untold
    <3>4. \A i \in DOMAIN frames' : ~Untold(frames'[i], y, watchers)
      BY <1>3, <1>5, <1>6, <1>16, <3>3
    <3>. QED
      BY <1>3, <1>5, <3>1, <3>2, <3>4
  <2>4. ASSUME NEW j \in DOMAIN frames', NEW i \in 1 .. j - 1, Busy(frames'[i]), Busy(frames'[j])
        PROVE  frames'[i].do = "fire" /\ frames'[j].do = "addTo"
    <3>1. i \in DOMAIN frames'
      BY ONLY <1>3, <1>5, j \in DOMAIN frames', i \in 1 .. j - 1
    <3>2. ~Busy(User)
      BY <1>5 DEF Busy
    <3>3. (i = b + 1 \/ i = b + 2) /\ (j = b + 1 \/ j = b + 2)
      BY <1>5, <1>6, <1>16, <2>4, <3>1, <3>2
    <3>4. i = b + 1 /\ j = b + 2
      BY ONLY <1>3, <3>3, i \in 1 .. j - 1
    <3>. QED
      BY <1>3, <1>5, <3>4
  <2>5. \A j \in DOMAIN frames' : \A i \in 1 .. j - 1 :
           Busy(frames[i])' /\ Busy(frames[j])' /\ frames'[i].do # "replay" =>
              \/ frames'[i].do = "clear" /\ frames'[j].do = "fire"
              \/ frames'[i].do = "fire" /\ frames'[j].do = "addTo"
    BY <1>3, <2>4 DEF Busy
  <2>. QED
    BY <2>1, <2>2, <2>3, <2>5 DEF OneAtATime
<1>18. ListMirrors(y)'
  <2>1. /\ ~Untold(h, y, watchers') /\ ~Untold(User, y, watchers') /\ ~Untold(g, y, watchers')
    BY <1>3, <1>5 DEF Untold
  <2>2. \A i \in DOMAIN frames' : /\ ~Untold(frames'[i], y, watchers')
                                  /\ frames'[i].do \notin {"clear", "replay"}
                                  /\ frames'[i].do = "addTo" => frames'[i] = h
    BY <1>3, <1>5, <1>6, <1>16, <2>1
  <2>3. ListReported(y)' /\ ListUntold(y)' /\ ListCleared(y)'
    BY <2>2 DEF ListReported, ListUntold, ListCleared, Reports
  <2>4. ListHalfTold(y)'
    <3>1. kept'[y] = RemoveAt(elements', ev.at) /\ elements' = elements
      BY <1>3, <1>12, <1>14
    <3>2. h.event.op # "remove" /\ h.event = ev
      BY <1>5, <1>11
    <3>3. \A i \in DOMAIN frames' : frames'[i].do = "addTo" => frames'[i].event = ev
      BY <2>2, <3>2
    <3>4. \A i \in DOMAIN frames' : frames'[i].do = "addTo" => IsMade(frames[i].event)'
      BY <1>10, <3>1, <3>3 DEF IsMade
    <3>. QED
      BY <1>11, <3>1, <3>3, <3>4 DEF ListHalfTold
  <2>5. ListQuiet(y)'
    BY <1>5, <1>6 DEF ListQuiet, Silent, Brings
  <2>. QED
    BY <2>3, <2>4, <2>5 DEF ListMirrors
<1>. QED
  BY <1>3, <1>15, <1>17, <1>18 DEF ListsInv

LEMMA ListDeliver ==
    ASSUME kind = "list", ListsInv, Deliver, ~broken'
    PROVE  ListsInv'
<1>1. CASE Inner.next > Len(watchers)
  BY <1>1, ListDeliverEnds
<1>2. CASE ~(Inner.next > Len(watchers))
  <2>1. ViewTypes /\ Inner.do = "fire"
    BY DEF ListsInv, Deliver, Doing
  <2>2. Inner.event \in ViewEvents /\ Inner.next \in Nat /\ Len(watchers) \in Nat
    <3>1. Inner \in ViewFrames
      BY <2>1, InnerIs
    <3>. QED
      BY <2>1, <3>1, ViewFrameFields DEF ViewTypes
  <2>3. Inner.next <= Len(watchers) /\ Inner.event.op \in {"add", "remove", "update"}
    BY <1>2, <2>2, EventFields
  <2>4. CASE watchers[Inner.next] \in ended
    BY <2>3, <2>4, ListDeliverPast
  <2>5. CASE watchers[Inner.next] \notin ended
    BY <2>3, <2>5, ListDeliverAdd, ListDeliverRemove, ListDeliverUpdate
  <2>. QED
    BY <2>4, <2>5
<1>. QED
  BY <1>1, <1>2

\* The second half of an update.
LEMMA ListSecondHalf ==
    ASSUME kind = "list", ListsInv, SecondHalf, ~broken'
    PROVE  ListsInv'
<1>1. /\ ViewTypes /\ OneAtATime /\ \A x \in subscribed \ ended : ListMirrors(x)
  BY DEF ListsInv
<1>2. PICK b, y, ev : b = Len(frames) - 1 /\ y = Inner.of /\ ev = Inner.event
  OBVIOUS
<1>3. /\ UNCHANGED <<kind, elements, made, watchers, subscribed, ended>>
      /\ Inner.do = "addTo" /\ y \notin ended
      /\ frames' = Append(Outer, User)
      /\ kept' = [kept EXCEPT ![y] = InsertAt(@, ev.at, ev.new)]
  BY <1>2 DEF SecondHalf, Doing, AddTo
<1>4. /\ b \in Nat /\ b + 1 = Len(frames) /\ DOMAIN frames = 1 .. b + 1
      /\ Inner = frames[b + 1] /\ frames[b + 1].do = "addTo" /\ frames[b + 1].of = y /\ frames[b + 1].event = ev
      /\ y \in Watchers /\ y \in subscribed /\ ev \in ViewEvents /\ b + 1 \in DOMAIN frames
  <2>1. /\ b \in Nat /\ b + 1 = Len(frames) /\ DOMAIN frames = 1 .. b + 1
        /\ Inner = frames[b + 1] /\ Inner \in ViewFrames
    BY <1>1, <1>2, <1>3, InnerGoes
  <2>2. y \in Watchers /\ ev \in ViewEvents
    BY <1>2, <1>3, <2>1, ViewFrameFields
  <2>3. IsKnown(frames[b + 1])
    BY <1>1, <2>1 DEF ViewTypes
  <2>. QED
    BY <1>2, <1>3, <2>1, <2>2, <2>3 DEF IsKnown
<1>5. GoOn(b) /\ DOMAIN frames' = 1 .. b + 1 /\ frames'[b + 1] = User /\ User.do = "user"
  <2>1. User \in ViewFrames /\ User.do = "user"
    BY ViewFramesAre
  <2>2. Inner.do # "none" /\ watchers' = watchers /\ b = Len(frames) - 1
    BY <1>2, <1>3
  <2>3. GoOn(b) /\ DOMAIN frames' = 1 .. b + 1 /\ frames'[b + 1] = User
    BY ONLY <1>1, <1>3, <2>1, <2>2, InnerBecomesOne
  <2>. QED
    BY <2>1, <2>3
<1>6. /\ b \in 0 .. Len(frames) /\ frames' \in Seq(ViewFrames)
      /\ \A i \in 1 .. b : frames'[i] = frames[i] /\ i \in DOMAIN frames /\ i \in 1 .. (b + 1) - 1
      /\ \A i \in DOMAIN frames : i \in 1 .. b \/ i = b + 1
      /\ \A i \in DOMAIN frames' : i \in 1 .. b \/ i = b + 1
  <2>1. \A i \in 1 .. b : frames'[i] = frames[i]
    BY <1>5 DEF GoOn
  <2>2. (\A i \in 1 .. b : i \in 1 .. b + 1 /\ i \in 1 .. (b + 1) - 1) /\ \A i \in 1 .. b + 1 : i \in 1 .. b \/ i = b + 1
    BY ONLY <1>4
  <2>. QED
    BY <1>4, <1>5, <2>1, <2>2 DEF GoOn
<1>7. \A i \in 1 .. b : /\ frames[i].do \notin {"clear", "addTo", "replay"}
                        /\ ~Untold(frames[i], y, watchers)
  <2>1. SUFFICES ASSUME NEW i \in 1 .. b
                 PROVE  /\ frames[i].do \notin {"clear", "addTo", "replay"}
                        /\ ~Untold(frames[i], y, watchers)
    OBVIOUS
  <2>2. frames[i].do # "replay" /\ ~Untold(frames[i], y, watchers)
    BY <1>1, <1>4, <1>6 DEF OneAtATime
  <2>3. Busy(frames[i]) => frames[i].do = "fire"
    <3>1. Busy(frames[b + 1])
      BY <1>4 DEF Busy
    <3>. QED
      BY <1>1, <1>4, <1>6, <2>2, <3>1 DEF OneAtATime
  <2>. QED
    BY <2>2, <2>3 DEF Busy
<1>8. ListMirrors(y) /\ y \in subscribed \ ended /\ elements \in Seq(Items)
  BY <1>1, <1>3, <1>4 DEF ViewTypes
<1>9. ev.op # "remove" /\ IsMade(ev) /\ kept[y] = RemoveAt(elements, ev.at)
  BY <1>4, <1>8 DEF ListMirrors, ListHalfTold
<1>10. ev.at \in 1 .. Len(elements) /\ elements[ev.at] = ev.new
  BY <1>8, <1>9 DEF IsMade
<1>11. kept' = [kept EXCEPT ![y] = elements]
  <2>1. InsertAt(RemoveAt(elements, ev.at), ev.at, elements[ev.at]) = elements
    BY ONLY <1>8, <1>10, InsertUndoesRemove
  <2>. QED
    BY <1>3, <1>9, <1>10, <2>1
<1>12. /\ kept' \in [Watchers -> Seq(Items)] /\ kept'[y] = elements
       /\ \A x \in Watchers : x # y => kept'[x] = kept[x]
  BY ONLY <1>1, <1>4, <1>8, <1>11, OneKeptChanges
<1>13. OneAtATime'
  <2>1. \A i \in DOMAIN frames' : i \in 1 .. b \/ frames'[i].do \in {"user", "addAll", "removeAll"}
    BY <1>5, <1>6
  <2>. QED
    BY <1>1, <1>3, <1>5, <2>1, OneStays
<1>14. ViewTypes'
  <2>1. /\ made' \in Nat /\ elements' \in Seq(Items)
        /\ \A x \in Watchers \ subscribed : kept'[x] = <<>>
    BY <1>1, <1>3, <1>4, <1>12 DEF ViewTypes
  <2>2. \A i \in DOMAIN frames' : i \in 1 .. b \/ (IsKnown(frames'[i]) /\ frames'[i].do # "replay")
    BY <1>5, <1>6 DEF IsKnown
  <2>. QED
    BY <1>1, <1>3, <1>6, <1>12, <2>1, <2>2, TypesGoOn
<1>15. ASSUME NEW x \in (subscribed \ ended)' PROVE ListMirrors(x)'
  <2>1. CASE x = y
    <3>1. \A i \in DOMAIN frames' : Silent(frames'[i], y, watchers')
      <4>1. Silent(User, y, watchers')
        BY <1>5, PlainMeans
      <4>2. \A i \in 1 .. b : Silent(frames'[i], y, watchers')
        BY <1>3, <1>6, <1>7 DEF Silent, Reports, Brings
      <4>. QED
        BY <1>5, <1>6, <4>1, <4>2
    <3>. QED
      BY <1>3, <1>12, <2>1, <3>1, SilentMirrors
  <2>2. CASE x # y
    <3>1. ListMirrors(x) /\ kept'[x] = kept[x] /\ elements' = elements
      BY <1>1, <1>3, <1>12, <2>2 DEF ViewTypes
    <3>2. Silent(frames[b + 1], x, watchers) /\ Silent(frames'[b + 1], x, watchers')
      BY <1>4, <1>5, <2>2 DEF Silent, Reports, Brings, Untold
    <3>3. \A i \in DOMAIN frames : i \in 1 .. b \/ Silent(frames[i], x, watchers)
      BY <1>6, <3>2
    <3>4. \A i \in DOMAIN frames' : i \in 1 .. b \/ Silent(frames'[i], x, watchers')
      BY <1>6, <3>2
    <3>. QED
      BY <1>1, <1>5, <3>1, <3>3, <3>4, MirrorStays
  <2>. QED
    BY <2>1, <2>2
<1>. QED
  BY <1>13, <1>14, <1>15 DEF ListsInv

-----------------------------------------------------------------------------
(***************************************************************************)
(* Lists: a view subscribes and is told what there is                       *)
(***************************************************************************)

\* A view of a list: no event of it is under way.
LEMMA ListWatch ==
    ASSUME kind = "list", ListsInv, NEW y \in Watchers, Watch(y), ~crossed'
    PROVE  ListsInv'
<1>1. ViewTypes /\ OneAtATime
  BY DEF ListsInv
<1>2. PICK b, r : b = Len(frames) /\ r = [do |-> "replay", of |-> y, next |-> 1]
  OBVIOUS
<1>3. /\ UNCHANGED <<kind, elements, made, ended, kept>> /\ y \notin subscribed
      /\ subscribed' = subscribed \union {y} /\ ~Under(frames, "clear") /\ ~Under(frames, "fire")
  BY DEF Watch
<1>4. /\ r.do = "replay" /\ r.of = y /\ r.next = 1 /\ b \in Nat /\ DOMAIN frames = 1 .. b
      /\ GoOn(b) /\ frames'[b + 1] = r /\ \A i \in 1 .. b : frames'[i] = frames[i]
      /\ \A i \in DOMAIN frames' : i \in 1 .. b \/ i = b + 1
      /\ b + 1 \in DOMAIN frames' /\ \A i \in DOMAIN frames : ~Reports(frames[i], y)
  BY <1>1, <1>2, WatchBegins
<1>5. ViewTypes' /\ \A x : x = y \/ Listed(x) => Listed(x)'
  BY <1>1, <1>2, WatchBegins
<1>6. \A i \in 1 .. b : frames[i].do \notin {"fire", "clear", "addTo", "erase"}
  <2>1. \A i \in 1 .. b : frames[i].do \notin {"fire", "clear"}
    BY <1>3, <1>4 DEF Under
  <2>2. \A i \in 1 .. b : frames[i].do # "addTo"
    <3>1. SUFFICES ASSUME NEW i \in 1 .. b, frames[i].do = "addTo" PROVE FALSE
      OBVIOUS
    <3>2. PICK j \in 1 .. i - 1 : frames[j].do = "fire"
      BY <1>1, <1>4, <3>1 DEF OneAtATime
    <3>3. j \in 1 .. b
      BY <1>4
    <3>. QED
      BY <2>1, <3>2, <3>3
  <2>. QED
    BY <1>1, <1>4, <2>1, <2>2 DEF OneAtATime
<1>7. \A i \in DOMAIN frames' : frames'[i].do \notin {"fire", "clear", "addTo", "erase"}
  BY <1>4, <1>6
<1>8. OneAtATime'
  <2>1. \A x \in subscribed' : Listed(x)'
    BY <1>1, <1>3, <1>5 DEF OneAtATime
  <2>2. \A j \in DOMAIN frames' : \A i \in 1 .. j - 1 : frames'[i].do # "replay" => ~Busy(frames[i])'
    <3>1. SUFFICES ASSUME NEW j \in DOMAIN frames', NEW i \in 1 .. j - 1, frames'[i].do # "replay"
                   PROVE  ~Busy(frames[i])'
      OBVIOUS
    <3>2. i \in DOMAIN frames'
      BY <1>5 DEF ViewTypes
    <3>. QED
      BY <1>7, <3>1, <3>2 DEF Busy
  <2>. QED
    BY <1>7, <2>1, <2>2 DEF OneAtATime
<1>9. ASSUME NEW x \in (subscribed \ ended)' PROVE ListMirrors(x)'
  <2>1. CASE x = y
    <3>1. kept'[y] = <<>> /\ elements' \in Seq(Items)
      BY <1>1, <1>3 DEF ViewTypes
    <3>2. \A i \in DOMAIN frames' : Reports(frames'[i], y) => frames'[i] = r
      BY <1>4 DEF Reports
    <3>3. ListReported(y)'
      <4>1. SubSeq(elements', 1, 0) = <<>> /\ 1 <= Len(elements') + 1
        BY <3>1, BeginningOfAll
      <4>2. r.next - 1 = 0
        BY <1>4
      <4>. QED
        BY <1>4, <3>1, <3>2, <4>1, <4>2 DEF ListReported
    <3>4. ListHalfTold(y)' /\ ListUntold(y)' /\ ListCleared(y)'
      BY <1>7 DEF ListHalfTold, ListUntold, ListCleared, Untold
    <3>5. ListQuiet(y)'
      BY <1>4 DEF ListQuiet, Silent, Reports
    <3>. QED
      BY <2>1, <3>3, <3>4, <3>5 DEF ListMirrors
  <2>2. CASE x # y
    <3>1. ListMirrors(x) /\ kept'[x] = kept[x] /\ elements' = elements
      BY <1>3, <1>9, <2>2 DEF ListsInv
    <3>2. Silent(frames'[b + 1], x, watchers')
      BY <1>4, <2>2 DEF Silent, Reports, Brings, Untold
    <3>3. /\ \A i \in DOMAIN frames : i \in 1 .. b
          /\ \A i \in DOMAIN frames' : i \in 1 .. b \/ Silent(frames'[i], x, watchers')
      BY <1>4, <3>2
    <3>. QED
      BY <1>1, <1>4, <3>1, <3>3, MirrorStays
  <2>. QED
    BY <2>1, <2>2
<1>. QED
  BY <1>5, <1>8, <1>9 DEF ListsInv

\* While a view of a list is told what the list holds nothing changes.
LEMMA ListReportAlone ==
    ASSUME kind = "list", ListsInv, Replay, NEW b, b = Len(frames) - 1, NEW y, y = Inner.of
    PROVE  /\ ViewTypes /\ OneAtATime /\ Inner.do = "replay" /\ Inner.do # "none"
           /\ b \in Nat /\ b + 1 = Len(frames) /\ DOMAIN frames = 1 .. b + 1
           /\ Inner = frames[b + 1] /\ Inner \in ViewFrames /\ Inner.next \in Nat \ {0}
           /\ y \in Watchers /\ y \in subscribed
           /\ UNCHANGED <<kind, elements, made, watchers, subscribed, ended>>
           /\ \A i \in 1 .. b : /\ frames[i].do \notin {"fire", "clear", "addTo", "erase"}
                                /\ ~Reports(frames[i], y)
           /\ \A i \in DOMAIN frames : i \in 1 .. b \/ i = b + 1
           /\ b + 1 \in DOMAIN frames
           /\ y \notin ended =>
                Inner.next <= Len(elements) + 1 /\ kept[y] = SubSeq(elements, 1, Inner.next - 1)
<1>1. ViewTypes /\ OneAtATime /\ Inner.do = "replay" /\ Inner.do # "none"
  BY DEF ListsInv, Replay, Doing
<1>2. /\ b \in Nat /\ b + 1 = Len(frames) /\ DOMAIN frames = 1 .. b + 1
      /\ Inner = frames[b + 1] /\ Inner \in ViewFrames
  BY <1>1, InnerGoes
<1>3. y \in Watchers /\ Inner.next \in Nat \ {0}
  BY <1>1, <1>2, ViewFrameFields
<1>4. /\ \A i \in DOMAIN frames : i \in 1 .. b \/ i = b + 1
      /\ b + 1 \in DOMAIN frames /\ \A i \in 1 .. b : i \in DOMAIN frames /\ i # b + 1
  BY ONLY <1>2
<1>5. IsKnown(frames[b + 1]) /\ Reports(frames[b + 1], y)
  BY <1>1, <1>2, <1>4 DEF ViewTypes, Reports
<1>6. y \in subscribed
  BY <1>5 DEF IsKnown, Reports
<1>7. UNCHANGED <<kind, elements, made, watchers, subscribed, ended>>
  BY DEF Replay
<1>8. \A i \in 1 .. b : frames[i].do \notin {"fire", "clear", "addTo", "erase"}
  BY <1>1, <1>2, <1>4 DEF OneAtATime
<1>9. \A i \in 1 .. b : ~Reports(frames[i], y)
  BY <1>1, <1>4, <1>5 DEF ViewTypes, Reports
<1>10. y \notin ended =>
          Inner.next <= Len(elements) + 1 /\ kept[y] = SubSeq(elements, 1, Inner.next - 1)
  BY <1>2, <1>4, <1>5, <1>6 DEF ListsInv, ListMirrors, ListReported
<1>. QED
  BY <1>1, <1>2, <1>3, <1>4, <1>6, <1>7, <1>8, <1>9, <1>10

LEMMA ListReportEnds ==
    ASSUME kind = "list", ListsInv, Replay, Inner.next > Len(elements)
    PROVE  ListsInv'
<1>1. PICK b, y : b = Len(frames) - 1 /\ y = Inner.of
  OBVIOUS
<1>2. /\ ViewTypes /\ OneAtATime /\ Inner.do = "replay" /\ Inner.do # "none"
      /\ b \in Nat /\ b + 1 = Len(frames) /\ DOMAIN frames = 1 .. b + 1
      /\ Inner = frames[b + 1] /\ Inner \in ViewFrames /\ Inner.next \in Nat \ {0}
      /\ y \in Watchers /\ y \in subscribed
      /\ UNCHANGED <<kind, elements, made, watchers, subscribed, ended>>
      /\ \A i \in 1 .. b : /\ frames[i].do \notin {"fire", "clear", "addTo", "erase"}
                           /\ ~Reports(frames[i], y)
      /\ \A i \in DOMAIN frames : i \in 1 .. b \/ i = b + 1
      /\ b + 1 \in DOMAIN frames
      /\ y \notin ended =>
           Inner.next <= Len(elements) + 1 /\ kept[y] = SubSeq(elements, 1, Inner.next - 1)
  BY <1>1, ListReportAlone
<1>3. frames' = Outer /\ kept' = kept
  BY DEF Replay
<1>4. GoOn(b) /\ DOMAIN frames' = 1 .. b
  <2>1. watchers' = watchers /\ b = Len(frames) - 1
    BY <1>1, <1>2
  <2>. QED
    BY ONLY <1>2, <1>3, <2>1, InnerLeaves
<1>5. \A i \in DOMAIN frames' : i \in 1 .. b /\ frames'[i] = frames[i]
  BY <1>4 DEF GoOn
<1>6. OneAtATime'
  BY <1>2, <1>4, <1>5, OneStays
<1>7. ViewTypes'
  <2>1. /\ made' \in Nat /\ elements' \in Seq(Items) /\ kept' \in [Watchers -> Seq(Items)]
        /\ \A x \in Watchers \ subscribed : kept'[x] = <<>>
    BY <1>2, <1>3 DEF ViewTypes
  <2>2. frames' \in Seq(ViewFrames) /\ b \in 0 .. Len(frames) /\ \A i \in 1 .. b : frames'[i] = frames[i]
    BY <1>4 DEF GoOn
  <2>. QED
    BY <1>2, <1>5, <2>1, <2>2, TypesGoOn
<1>8. ASSUME NEW x \in (subscribed \ ended)' PROVE ListMirrors(x)'
  <2>1. CASE x = y
    <3>1. kept'[y] = elements'
      <4>1. y \notin ended /\ elements \in Seq(Items)
        BY <1>2, <1>8, <2>1 DEF ViewTypes
      <4>2. Inner.next - 1 = Len(elements)
        BY <1>2, <4>1
      <4>. QED
        BY <1>2, <1>3, <4>1, <4>2, BeginningOfAll
    <3>2. \A i \in DOMAIN frames' : Silent(frames'[i], y, watchers')
      BY <1>2, <1>5 DEF Silent, Reports, Brings, Untold
    <3>. QED
      BY <2>1, <3>1, <3>2, SilentMirrors
  <2>2. CASE x # y
    <3>1. ListMirrors(x) /\ kept'[x] = kept[x] /\ elements' = elements
      BY <1>2, <1>3, <1>8 DEF ListsInv
    <3>2. Silent(frames[b + 1], x, watchers)
      BY <1>1, <1>2, <2>2 DEF Silent, Reports, Brings, Untold
    <3>3. /\ \A i \in DOMAIN frames : i \in 1 .. b \/ Silent(frames[i], x, watchers)
          /\ \A i \in DOMAIN frames' : i \in 1 .. b
      BY <1>2, <1>5, <3>2
    <3>. QED
      BY <1>2, <1>4, <3>1, <3>3, MirrorStays
  <2>. QED
    BY <2>1, <2>2
<1>. QED
  BY <1>6, <1>7, <1>8 DEF ListsInv

LEMMA ListReportGoesOn ==
    ASSUME kind = "list", ListsInv, Replay, Inner.next <= Len(elements), ~broken'
    PROVE  ListsInv'
<1>1. PICK b, y, n, r : /\ b = Len(frames) - 1 /\ y = Inner.of /\ n = Inner.next
                        /\ r = [Inner EXCEPT !.next = Inner.next + 1]
  OBVIOUS
<1>2. /\ ViewTypes /\ OneAtATime /\ Inner.do = "replay" /\ Inner.do # "none"
      /\ b \in Nat /\ b + 1 = Len(frames) /\ DOMAIN frames = 1 .. b + 1
      /\ Inner = frames[b + 1] /\ Inner \in ViewFrames /\ Inner.next \in Nat \ {0}
      /\ y \in Watchers /\ y \in subscribed
      /\ UNCHANGED <<kind, elements, made, watchers, subscribed, ended>>
      /\ \A i \in 1 .. b : /\ frames[i].do \notin {"fire", "clear", "addTo", "erase"}
                           /\ ~Reports(frames[i], y)
      /\ \A i \in DOMAIN frames : i \in 1 .. b \/ i = b + 1
      /\ b + 1 \in DOMAIN frames
      /\ y \notin ended =>
           Inner.next <= Len(elements) + 1 /\ kept[y] = SubSeq(elements, 1, Inner.next - 1)
  BY <1>1, ListReportAlone
<1>3. r \in ViewFrames /\ r.do = "replay" /\ r.of = y /\ r.next = n + 1
  <2>1. PICK h : h = Inner
    OBVIOUS
  <2>2. h \in ViewFrames /\ h.do = "replay" /\ r = [h EXCEPT !.next = h.next + 1] /\ h.of = y /\ h.next = n
    BY <1>1, <1>2, <2>1
  <2>. QED
    BY ONLY <2>2, GoesOn
<1>4. elements \in Seq(Items) /\ n \in 1 .. Len(elements) /\ elements[n] \in Items
  <2>1. elements \in Seq(Items) /\ n \in Nat \ {0} /\ n <= Len(elements)
    BY <1>1, <1>2 DEF ViewTypes
  <2>2. n \in 1 .. Len(elements)
    BY <2>1
  <2>. QED
    BY <2>1, <2>2
<1>5. AddTo(y, Added(n, elements[n]), Append(Outer, r))
  <2>1. ~(Inner.next > Len(elements))
    BY <1>1, <1>4
  <2>. QED
    BY <1>1, <2>1 DEF Replay
<1>6. /\ y \notin ended /\ frames' = Append(Append(Outer, r), User)
      /\ kept' = [kept EXCEPT ![y] = InsertAt(@, n, elements[n])]
  <2>1. Added(n, elements[n]).at = n /\ Added(n, elements[n]).new = elements[n]
    BY DEF Added
  <2>. QED
    BY ONLY <1>5, <2>1, ~broken', kind = "list" DEF AddTo
<1>7. kept' = [kept EXCEPT ![y] = SubSeq(elements, 1, n)]
  <2>1. kept[y] = SubSeq(elements, 1, n - 1)
    BY <1>1, <1>2, <1>6
  <2>2. InsertAt(SubSeq(elements, 1, n - 1), n, elements[n]) = SubSeq(elements, 1, n)
    BY ONLY <1>4, BeginningGrows
  <2>. QED
    BY <1>6, <2>1, <2>2
<1>8. /\ kept' \in [Watchers -> Seq(Items)] /\ kept'[y] = SubSeq(elements, 1, n)
      /\ \A x \in Watchers : x # y => kept'[x] = kept[x]
  <2>1. SubSeq(elements, 1, n) \in Seq(Items)
    <3>1. n \in 0 .. Len(elements)
      BY <1>4
    <3>. QED
      BY ONLY <1>4, <3>1, Beginning
  <2>. QED
    BY ONLY <1>2, <1>7, <2>1, OneKeptChanges
<1>9. /\ GoOn(b) /\ DOMAIN frames' = 1 .. b + 2 /\ frames'[b + 1] = r /\ frames'[b + 2] = User
      /\ User.do = "user"
  <2>1. /\ watchers' = watchers /\ b = Len(frames) - 1 /\ r \in ViewFrames
        /\ User \in ViewFrames /\ User.do = "user"
    BY <1>1, <1>2, <1>3, ViewFramesAre
  <2>2. ViewTypes /\ Inner.do # "none" /\ frames' = Append(Append(Outer, r), User)
    BY <1>2, <1>6
  <2>. QED
    BY ONLY <2>1, <2>2, InnerBecomesTwo
<1>10. /\ \A i \in DOMAIN frames' : i \in 1 .. b \/ i = b + 1 \/ i = b + 2
       /\ b + 1 \in DOMAIN frames' /\ \A i \in 1 .. b : frames'[i] = frames[i]
  <2>1. b + 1 \in 1 .. b + 2 /\ \A i \in 1 .. b + 2 : i \in 1 .. b \/ i = b + 1 \/ i = b + 2
    BY ONLY <1>2
  <2>. QED
    BY <1>9, <2>1 DEF GoOn
<1>11. OneAtATime'
  <2>1. /\ Busy(frames[b + 1]) /\ frames'[b + 1].do = frames[b + 1].do
        /\ frames[b + 1].do \in {"fire", "replay"}
        /\ \A x : ~Untold(frames'[b + 1], x, watchers)
    BY <1>2, <1>3, <1>9 DEF Busy, Untold
  <2>2. \A i \in DOMAIN frames' :
              \/ i \in 1 .. b
              \/ frames'[i].do \in {"user", "addAll", "removeAll"}
              \/ /\ i = b + 1 /\ i \in DOMAIN frames /\ frames'[i].do = frames[i].do
                 /\ frames[i].do \in {"fire", "replay"}
                 /\ Busy(frames'[i]) => Busy(frames[i])
                 /\ \A x : Untold(frames'[i], x, watchers) => Untold(frames[i], x, watchers)
    BY <1>2, <1>9, <1>10, <2>1
  <2>. QED
    BY <1>2, <1>9, <2>2, OneStays
<1>12. ViewTypes'
  <2>1. /\ made' \in Nat /\ elements' \in Seq(Items)
        /\ \A x \in Watchers \ subscribed : kept'[x] = <<>>
    BY <1>2, <1>8 DEF ViewTypes
  <2>2. frames' \in Seq(ViewFrames) /\ b \in 0 .. Len(frames)
    BY <1>9 DEF GoOn
  <2>3. IsKnown(r) /\ IsKnown(User)
    BY <1>2, <1>3, <1>9 DEF IsKnown
  <2>4. \A i \in DOMAIN frames' : i \in 1 .. b \/
              /\ IsKnown(frames'[i])
              /\ frames'[i].do = "replay" =>
                   /\ i \in DOMAIN frames /\ frames[i].do = "replay"
                   /\ frames[i].of = frames'[i].of
    <3>1. frames[b + 1].do = "replay" /\ frames[b + 1].of = r.of
      BY <1>1, <1>2, <1>3
    <3>2. IsKnown(frames'[b + 1]) /\ frames'[b + 1].of = r.of
      BY <1>9, <2>3
    <3>3. IsKnown(frames'[b + 2]) /\ frames'[b + 2].do # "replay"
      BY <1>9, <2>3
    <3>. QED
      BY <1>2, <1>10, <3>1, <3>2, <3>3
  <2>. QED
    BY <1>2, <1>8, <1>10, <2>1, <2>2, <2>4, TypesGoOn
<1>13. ASSUME NEW x \in (subscribed \ ended)' PROVE ListMirrors(x)'
  <2>1. CASE x = y
    <3>1. \A i \in DOMAIN frames' : frames'[i].do \notin {"fire", "clear", "addTo", "erase"}
      BY <1>2, <1>3, <1>9, <1>10
    <3>2. \A i \in DOMAIN frames' : Reports(frames'[i], y) => frames'[i] = r
      BY <1>2, <1>9, <1>10 DEF Reports
    <3>3. ListReported(y)'
      <4>1. r.next <= Len(elements) + 1 /\ r.next - 1 = n
        BY <1>3, <1>4
      <4>. QED
        BY <1>2, <1>8, <3>2, <4>1 DEF ListReported
    <3>4. ListHalfTold(y)' /\ ListUntold(y)' /\ ListCleared(y)'
      BY <3>1 DEF ListHalfTold, ListUntold, ListCleared, Untold
    <3>5. ListQuiet(y)'
      BY <1>3, <1>9, <1>10 DEF ListQuiet, Silent, Reports
    <3>. QED
      BY <2>1, <3>3, <3>4, <3>5 DEF ListMirrors
  <2>2. CASE x # y
    <3>1. ListMirrors(x) /\ kept'[x] = kept[x] /\ elements' = elements
      <4>1. x \in subscribed \ ended /\ x \in Watchers
        BY <1>2, <1>13 DEF ViewTypes
      <4>. QED
        BY <1>2, <1>8, <2>2, <4>1 DEF ListsInv
    <3>2. /\ Silent(frames[b + 1], x, watchers) /\ Silent(frames'[b + 1], x, watchers')
          /\ Silent(frames'[b + 2], x, watchers')
      BY <1>1, <1>2, <1>3, <1>9, <2>2 DEF Silent, Reports, Brings, Untold
    <3>3. /\ \A i \in DOMAIN frames : i \in 1 .. b \/ Silent(frames[i], x, watchers)
          /\ \A i \in DOMAIN frames' : i \in 1 .. b \/ Silent(frames'[i], x, watchers')
      BY <1>2, <1>10, <3>2
    <3>. QED
      BY <1>2, <1>9, <3>1, <3>3, MirrorStays
  <2>. QED
    BY <2>1, <2>2
<1>. QED
  BY <1>11, <1>12, <1>13 DEF ListsInv

LEMMA ListReplay ==
    ASSUME kind = "list", ListsInv, Replay, ~broken'
    PROVE  ListsInv'
<1>1. Inner.next \in Nat /\ Len(elements) \in Nat
  <2>1. PICK b, y : b = Len(frames) - 1 /\ y = Inner.of
    OBVIOUS
  <2>2. Inner.next \in Nat /\ ViewTypes
    BY <2>1, ListReportAlone
  <2>. QED
    BY <2>2 DEF ViewTypes
<1>2. Inner.next > Len(elements) \/ Inner.next <= Len(elements)
  BY <1>1
<1>. QED
  BY <1>2, ListReportEnds, ListReportGoesOn

-----------------------------------------------------------------------------
(***************************************************************************)
(* Every step, and the theorem                                              *)
(***************************************************************************)

LEMMA ViewsInitInv == ViewableInit => ViewsInv
<1>1. SUFFICES ASSUME ViewableInit PROVE ListsInv /\ KeysInv
  BY DEF ViewsInv
<1>2. /\ elements = <<>> /\ watchers = <<>> /\ frames = <<>> /\ subscribed = {} /\ made = 0
      /\ kept = [x \in Watchers |-> <<>>] /\ kind \in {"list", "map", "set"}
  BY <1>1 DEF ViewableInit
<1>3. /\ <<>> \in Seq(Items) /\ <<>> \in Seq(Watchers) /\ <<>> \in Seq(ViewFrames)
  OBVIOUS
<1>4. DOMAIN elements = {} /\ DOMAIN watchers = {} /\ DOMAIN frames = {}
  BY <1>2
<1>5. ViewTypes
  BY <1>2, <1>3, <1>4 DEF ViewTypes
<1>6. OneAtATime
  BY <1>2, <1>4 DEF OneAtATime
<1>7. \A x \in Watchers : KeyedOnce(kept[x])
  BY <1>2 DEF KeyedOnce
<1>8. KeyTypes
  BY <1>2, <1>4, <1>7 DEF KeyTypes, KeyedOnce
<1>9. Ordered
  BY <1>4 DEF Ordered, RemovalsAreFired, ClearsAlone, ErasedOnce, ReportsAlone
<1>. QED
  BY <1>2, <1>5, <1>6, <1>8, <1>9 DEF ListsInv, KeysInv

\* Nothing is done to a collection that is not followed any more.
LEMMA ViewsFollowed ==
    ASSUME ViewableNext
    PROVE  Followed /\ kind' = kind
<1>1. CASE CollectionStep
  BY <1>1 DEF CollectionStep, AddAllStep, RemoveAllStep, EraseKey, ClearStep, Deliver, SecondHalf,
              UserReturns, Replay, Doing
<1>2. CASE \E i \in 1 .. Len(elements) + 1 : Insert(i)
  BY <1>2 DEF Insert, Changes, ProgramRuns
<1>3. CASE \E i \in 0 .. Len(elements) + 1 : AddTwo(i)
  BY <1>3 DEF AddTwo, Changes, ProgramRuns
<1>4. CASE \E i \in DOMAIN elements : ReplaceWith(i) \/ RemoveFrom(i)
  BY <1>4 DEF ReplaceWith, RemoveFrom, Changes, ProgramRuns
<1>5. CASE \E entries \in SUBSET ToSet(elements) : RemoveThese(entries)
  BY <1>5 DEF RemoveThese, Changes, ProgramRuns
<1>6. CASE \E key \in ItemKeys : AddKey(key) \/ UpdateKey(key) \/ RemoveKey(key)
  BY <1>6 DEF AddKey, UpdateKey, RemoveKey, Changes, ProgramRuns
<1>7. CASE Clear
  BY <1>7 DEF Clear, Changes, ProgramRuns
<1>8. CASE \E x \in Watchers : Watch(x) \/ EndWatch(x)
  BY <1>8 DEF Watch, EndWatch, ProgramRuns
<1>. QED
  BY <1>1, <1>2, <1>3, <1>4, <1>5, <1>6, <1>7, <1>8 DEF ViewableNext

LEMMA ListsStep ==
    ASSUME kind = "list", ListsInv, ViewableNext, ~broken', ~crossed'
    PROVE  ListsInv'
<1>1. CASE CollectionStep
  <2>1. ~EraseKey
    <3>1. SUFFICES ASSUME Inner.do = "erase" PROVE FALSE
      BY DEF EraseKey, Doing
    <3>2. ViewTypes /\ Inner.do # "none"
      BY <3>1 DEF ListsInv
    <3>3. Len(frames) \in DOMAIN frames /\ frames[Len(frames)].do = "erase"
      BY <3>1, <3>2, InnerIs
    <3>. QED
      BY <3>3 DEF ListsInv, OneAtATime
  <2>2. CASE ClearStep
    BY <2>2, ListClearEnds, ListClearGoesOn
  <2>. QED
    BY <1>1, <2>1, <2>2, AddAllKeepsInv, RemoveAllKeepsInv, ListDeliver, ListSecondHalf,
       ListUserReturns, ListReplay DEF CollectionStep
<1>2. CASE \E i \in 1 .. Len(elements) + 1 : Insert(i)
  BY <1>2, InsertKeepsInv
<1>3. CASE \E i \in 0 .. Len(elements) + 1 : AddTwo(i)
  BY <1>3, AddTwoKeepsInv
<1>4. CASE \E i \in DOMAIN elements : ReplaceWith(i) \/ RemoveFrom(i)
  BY <1>4, ReplaceWithKeepsInv, RemoveFromKeepsInv
<1>5. CASE \E entries \in SUBSET ToSet(elements) : RemoveThese(entries)
  BY <1>5, RemoveTheseKeepsInv
<1>6. ~\E key \in ItemKeys : AddKey(key) \/ UpdateKey(key) \/ RemoveKey(key)
  BY DEF AddKey, UpdateKey, RemoveKey
<1>7. CASE Clear
  BY <1>7, ListClearKeepsInv
<1>8. CASE \E x \in Watchers : Watch(x) \/ EndWatch(x)
  BY <1>8, ListWatch, ListEndWatch
<1>. QED
  BY <1>1, <1>2, <1>3, <1>4, <1>5, <1>6, <1>7, <1>8 DEF ViewableNext

LEMMA KeysStep ==
    ASSUME kind # "list", KeysInv, ViewableNext, ~broken', ~crossed'
    PROVE  KeysInv'
<1>1. CASE CollectionStep
  <2>1. ~AddAllStep /\ ~RemoveAllStep
    <3>1. SUFFICES ASSUME Inner.do \in {"addAll", "removeAll"} PROVE FALSE
      BY DEF AddAllStep, RemoveAllStep, Doing
    <3>2. ViewTypes /\ Inner.do # "none"
      BY <3>1 DEF KeysInv
    <3>3. Len(frames) \in DOMAIN frames /\ frames[Len(frames)].do \in {"addAll", "removeAll"}
      BY <3>1, <3>2, InnerIs
    <3>. QED
      BY <3>3 DEF KeysInv, KeyTypes, IsKeyed
  <2>2. CASE ClearStep
    BY <2>2, ClearEndsKeepsInv, ClearGoesOnKeepsInv
  <2>. QED
    BY <1>1, <2>1, <2>2, EraseKeyKeepsInv, DeliverKeepsInv, SecondHalfKeepsInv,
       UserReturnsKeepsInv, ReplayKeepsInv DEF CollectionStep
<1>2. ~\E i \in 1 .. Len(elements) + 1 : Insert(i)
  BY DEF Insert
<1>3. ~\E i \in 0 .. Len(elements) + 1 : AddTwo(i)
  BY DEF AddTwo
<1>4. ~\E i \in DOMAIN elements : ReplaceWith(i) \/ RemoveFrom(i)
  BY DEF ReplaceWith, RemoveFrom
<1>5. ~\E entries \in SUBSET ToSet(elements) : RemoveThese(entries)
  BY DEF RemoveThese
<1>6. CASE \E key \in ItemKeys : AddKey(key) \/ UpdateKey(key) \/ RemoveKey(key)
  BY <1>6, AddKeyKeepsInv, UpdateKeyKeepsInv, RemoveKeyKeepsInv
<1>7. CASE Clear
  BY <1>7, ClearKeepsInv
<1>8. CASE \E x \in Watchers : Watch(x) \/ EndWatch(x)
  BY <1>8, WatchKeepsInv, EndWatchKeepsInv
<1>. QED
  BY <1>1, <1>2, <1>3, <1>4, <1>5, <1>6, <1>7, <1>8 DEF ViewableNext

\* A step that does nothing.
LEMMA ViewsStutter ==
    ASSUME ViewsInv, UNCHANGED viewableVars
    PROVE  ViewsInv'
<1>1. /\ kind' = kind /\ elements' = elements /\ made' = made /\ watchers' = watchers
      /\ subscribed' = subscribed /\ ended' = ended /\ kept' = kept /\ frames' = frames
      /\ crossed' = crossed /\ broken' = broken
  BY DEF viewableVars
<1>2. ListsInv => ListsInv'
  <2>1. ViewTypes => ViewTypes'
    BY <1>1 DEF ViewTypes, IsKnown, Listed, Reports
  <2>2. OneAtATime => OneAtATime'
    BY <1>1 DEF OneAtATime, Listed, Untold, Told, Busy
  <2>3. \A x : ListReported(x) => ListReported(x)'
    BY <1>1 DEF ListReported, Reports
  <2>4. \A x : ListHalfTold(x) => ListHalfTold(x)'
    BY <1>1 DEF ListHalfTold, IsMade
  <2>5. \A x : ListUntold(x) => ListUntold(x)'
    BY <1>1 DEF ListUntold, IsMade, Before, Untold, Told
  <2>6. \A x : ListCleared(x) => ListCleared(x)'
    BY <1>1 DEF ListCleared, Untold, Told
  <2>7. \A x : ListQuiet(x) => ListQuiet(x)'
    BY <1>1 DEF ListQuiet, Silent, Reports, Brings, Untold, Told
  <2>. QED
    BY <1>1, <2>1, <2>2, <2>3, <2>4, <2>5, <2>6, <2>7 DEF ListsInv, ListMirrors
<1>3. KeysInv => KeysInv'
  BY <1>1 DEF KeysInv, ViewTypes, IsKnown, Listed, Reports, KeyTypes, KeyedOnce, IsKeyed,
              Fatal, WillDrop, Holds, Late, Brings, Untold, Told, Ordered, RemovalsAreFired,
              ErasesKey, Tells, ClearsAlone, ErasedOnce, ReportsAlone, HasKey, KeysMirror,
              KeptIsThere, Renews, ThereIsKept, Promises, ClearedIsTold, ErasedIsTold
<1>. QED
  BY <1>1, <1>2, <1>3 DEF ViewsInv

LEMMA ViewsStep ==
    ASSUME ViewsInv, [ViewableNext]_viewableVars
    PROVE  ViewsInv'
<1>1. CASE UNCHANGED viewableVars
  BY <1>1, ViewsStutter
<1>2. CASE ViewableNext
  <2>1. SUFFICES ASSUME ~broken', ~crossed' PROVE IF kind' = "list" THEN ListsInv' ELSE KeysInv'
    BY DEF ViewsInv
  <2>2. kind' = kind /\ IF kind = "list" THEN ListsInv ELSE KeysInv
    BY <1>2, ViewsFollowed DEF ViewsInv, Followed
  <2>. QED
    BY <1>2, <2>1, <2>2, ListsStep, KeysStep
<1>. QED
  BY <1>1, <1>2

LEMMA ViewsInvHolds == ViewableSpec => []ViewsInv
<1>1. ViewableInit => ViewsInv
  BY ViewsInitInv
<1>2. ViewsInv /\ [ViewableNext]_viewableVars => ViewsInv'
  BY ViewsStep
<1>. QED
  BY <1>1, <1>2, PTL DEF ViewableSpec

LEMMA ViewsMirrorFollows == ViewsInv => ViewsMirror
<1>1. SUFFICES ASSUME ViewsInv, frames = <<>>, ~broken, ~crossed, NEW x \in subscribed \ ended
               PROVE  IF kind = "list" THEN kept[x] = elements
                      ELSE ToSet(kept[x]) = ToSet(elements)
  BY DEF ViewsMirror
<1>2. DOMAIN frames = {}
  BY <1>1
<1>3. CASE kind = "list"
  BY <1>1, <1>2, <1>3 DEF ViewsInv, ListsInv, ListMirrors, ListQuiet
<1>4. CASE kind # "list"
  <2>1. ViewTypes /\ KeyTypes /\ KeysMirror(x)
    BY <1>1, <1>2, <1>4 DEF ViewsInv, KeysInv, Fatal, Late
  <2>2. PICK s, t : s = kept[x] /\ t = elements
    OBVIOUS
  <2>3. s \in Seq(Items) /\ t \in Seq(Items) /\ KeyedOnce(t)
    BY <2>1, <2>2 DEF ViewTypes, KeyTypes
  <2>4. \A p \in DOMAIN s : s[p] \in ToSet(t)
    BY <1>2, <2>1, <2>2 DEF KeysMirror, KeptIsThere
  <2>5. \A q \in DOMAIN t : \E p \in DOMAIN s : s[p].key = t[q].key
    BY <1>2, <2>1, <2>2 DEF KeysMirror, ThereIsKept, HasKey
  <2>6. \A q \in DOMAIN t : \E p \in DOMAIN s : s[p] = t[q]
    <3>1. SUFFICES ASSUME NEW q \in DOMAIN t PROVE \E p \in DOMAIN s : s[p] = t[q]
      OBVIOUS
    <3>2. PICK p \in DOMAIN s : s[p].key = t[q].key
      BY <2>5
    <3>3. PICK c \in DOMAIN t : t[c] = s[p]
      BY <2>3, <2>4, Entries
    <3>. QED
      BY <2>3, <3>2, <3>3 DEF KeyedOnce
  <2>7. ToSet(s) = ToSet(t)
    BY ONLY <2>3, <2>4, <2>6, Entries
  <2>. QED
    BY <1>4, <2>2, <2>7
<1>. QED
  BY <1>3, <1>4

\* However the handlers use the collection again, when all calls are over every
\* view keeps a lifetime for each element of the list, map or set and for nothing
\* else, those of a list in its order (ViewableList.h, ViewableMap.h,
\* ViewableSet.h and IViewableList.h, IViewableMap.h, IViewableSet.h): unless
\* something was done through a dead pointer, or one change overtook another.
THEOREM CollectionsMirror == ViewableSpec => []ViewsMirror
<1>1. ViewableSpec => []ViewsInv
  BY ViewsInvHolds
<1>2. ViewsInv => ViewsMirror
  BY ViewsMirrorFollows
<1>. QED
  BY <1>1, <1>2, PTL
=============================================================================
