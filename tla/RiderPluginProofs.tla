-------------------------- MODULE RiderPluginProofs --------------------------
(***************************************************************************)
(* Theorems about the plugin in the editor, for every number of            *)
(* connections and inputs and for all settings.                            *)
(***************************************************************************)
EXTENDS RiderPlugin, SequenceTheorems, TLAPS

-----------------------------------------------------------------------------
(***************************************************************************)
(* The module of the model                                                 *)
(***************************************************************************)
Creates(i) == actions[i].act = "create"

\* What the scheduler has to make comes in the order of the connections, the
\* one there is last.
InOrder ==
    /\ connection # Nothing => connection = connections
    /\ \A i \in DOMAIN actions : Creates(i) => actions[i].n # Nothing
    /\ \A i, j \in DOMAIN actions :
          (i < j /\ Creates(i) /\ Creates(j)) => actions[i].n < actions[j].n

\* A model that is in sight, or is about to be, goes out of sight before the
\* next one is made: its connection will queue that, or already has, ahead of
\* the next model.
InSight == RdIsModelAlive = "yes" \/ making.at = "noticed"

GoesDown ==
    \E i \in DOMAIN actions :
        actions[i].act = "down" /\ \A j \in 1 .. i - 1 : ~Creates(j)

SightInv ==
    /\ InOrder
    /\ viewing # Nothing => viewing = EditorModel /\ RdIsModelAlive = "yes"
    /\ InSight => noticing # Nothing \/ GoesDown
    /\ noticing # Nothing => \A i \in DOMAIN actions : ~Creates(i)
    /\ making.at = "bound" =>
          /\ making.n # Nothing /\ RdIsModelAlive # "yes"
          /\ connection = making.n => \A i \in DOMAIN actions : ~Creates(i)

\* What Append and Tail do to the elements of a sequence.
LEMMA Appended ==
    ASSUME NEW S, NEW s \in Seq(S), NEW x \in S
    PROVE  /\ Append(s, x) \in Seq(S)
           /\ DOMAIN Append(s, x) = DOMAIN s \union {Len(s) + 1}
           /\ \A i \in DOMAIN s : Append(s, x)[i] = s[i] /\ i < Len(s) + 1 /\ i \in Nat
           /\ Append(s, x)[Len(s) + 1] = x
           /\ Len(s) + 1 \notin DOMAIN s /\ Len(s) + 1 \in Nat
OBVIOUS

LEMMA Taken ==
    ASSUME NEW S, NEW s \in Seq(S), s # <<>>
    PROVE  /\ Head(s) \in S /\ Tail(s) \in Seq(S)
           /\ 1 \in DOMAIN s /\ Head(s) = s[1]
           /\ \A i \in DOMAIN Tail(s) :
                i \in Nat \ {0} /\ i + 1 \in DOMAIN s /\ Tail(s)[i] = s[i + 1]
           /\ \A i \in DOMAIN s : i # 1 =>
                i \in Nat /\ i > 1 /\ i - 1 \in DOMAIN Tail(s) /\ Tail(s)[i - 1] = s[i]
OBVIOUS

LEMMA LinkTypeInit == LinkInit => LinkTypeOK
<1> SUFFICES ASSUME LinkInit PROVE LinkTypeOK
  OBVIOUS
<1>1. <<>> \in Seq(Todos) /\ DOMAIN <<>> = {}
  OBVIOUS
<1>2. 0 \in Nat /\ 0 \in 0 .. 0
  OBVIOUS
<1>3. making \in [at : {"idle", "bound", "noticed"}, n : 0 .. 0] /\ making.at = "idle"
  BY <1>2 DEF LinkInit, Nothing
<1>4. /\ connection = 0 /\ connections = 0 /\ ending = 0 /\ actions = <<>> /\ writer = FALSE
      /\ EditorModel = 0 /\ bound = 0 /\ noticing = 0 /\ RdIsModelAlive = "unset"
      /\ watching = FALSE /\ viewing = 0 /\ logger = "idle" /\ chunks = 0
  BY DEF LinkInit, Nothing
<1> QED BY ONLY <1>1, <1>2, <1>3, <1>4 DEF LinkTypeOK, Nothing

LEMMA LinkTypeStep == LinkTypeOK /\ [LinkNext]_linkVars => LinkTypeOK'
<1> SUFFICES ASSUME LinkTypeOK, [LinkNext]_linkVars PROVE LinkTypeOK'
  OBVIOUS
<1> USE DEF LinkTypeOK, Nothing
<1>1. ASSUME actions # <<>>
      PROVE  /\ Tail(actions) \in Seq(Todos) /\ Head(actions).n \in 0 .. connections
             /\ \A i \in DOMAIN Tail(actions) : Tail(actions)[i].n <= connections
  <2>1. Head(actions) \in Todos
    BY <1>1, Taken
  <2>2. Head(actions).n \in Nat
    BY <2>1 DEF Todos
  <2> QED BY <1>1, <2>2, Taken
<1>2. CASE Connect
  <2>1. connections' = connections + 1 /\ connection' = connections + 1
        /\ Todo("create", connections + 1) \in Todos
        /\ actions' = Append(actions, Todo("create", connections + 1))
    BY <1>2 DEF Connect, Todo, Todos
  <2>2. actions' \in Seq(Todos)
    BY <2>1, Appended
  <2>3. \A i \in DOMAIN actions' : actions'[i].n <= connections + 1
    <3> SUFFICES ASSUME NEW i \in DOMAIN actions' PROVE actions'[i].n <= connections + 1
      OBVIOUS
    <3>1. CASE i \in DOMAIN actions
      <4>1. actions'[i] = actions[i] /\ actions[i].n <= connections
        BY <2>1, <3>1, Appended
      <4>2. actions[i] \in Todos
        BY <3>1
      <4>3. actions[i].n \in Nat
        BY <4>2 DEF Todos
      <4> QED BY <4>1, <4>3
    <3>2. CASE i \notin DOMAIN actions
      BY <2>1, <3>2, Appended DEF Todo
    <3> QED BY <3>1, <3>2
  <2>4. making' = making /\ making \in [at : {"idle", "bound", "noticed"}, n : 0 .. connections + 1]
    BY <1>2 DEF Connect
  <2>5. EditorModel' \in 0 .. connections + 1 /\ viewing' \in 0 .. connections + 1
        /\ ending' \in 0 .. connections + 1
    BY <1>2 DEF Connect
  <2>6. /\ noticing' = Nothing /\ connections' \in Nat /\ connection' \in 0 .. connections'
        /\ UNCHANGED <<making, writer, EditorModel, bound, RdIsModelAlive, watching, viewing,
                       logger, chunks>>
    BY <1>2, <2>1 DEF Connect
  <2>7. making \in [at : {"idle", "bound", "noticed"}, n : 0 .. connections']
    BY <2>1, <2>4
  <2>8. bound' \in {Nothing, EditorModel'} /\ writer' = (making'.at # "idle")
    BY <2>6
  <2> QED BY ONLY <2>1, <2>2, <2>3, <2>5, <2>6, <2>7, <2>8, LinkTypeOK DEF LinkTypeOK
<1>3. CASE Disconnect
  <2>1. Todo("down", connection) \in Todos
    BY <1>3 DEF Todo, Todos
  <2>2. actions' \in Seq(Todos) /\ \A i \in DOMAIN actions' : actions'[i].n <= connections
    <3>1. CASE actions' = Append(actions, Todo("down", connection))
      <4>1. \A i \in DOMAIN actions' : \/ i \in DOMAIN actions /\ actions'[i] = actions[i]
                                       \/ actions'[i] = Todo("down", connection)
        BY <2>1, <3>1, Appended
      <4> QED BY <2>1, <3>1, <4>1, Appended DEF Todo
    <3> QED BY <1>3, <3>1 DEF Disconnect
  <2> QED BY <1>3, <2>2 DEF Disconnect
<1>4. CASE Unbind
  BY <1>4 DEF Unbind
<1>5. CASE Create
  <2>1. /\ actions' \in Seq(Todos) /\ \A i \in DOMAIN actions' : actions'[i].n <= connections
        /\ EditorModel' = Head(actions).n /\ Head(actions).n \in 0 .. connections
        /\ UNCHANGED <<connection, connections, ending, noticing, RdIsModelAlive, watching,
                       viewing, logger, chunks>>
    BY <1>1, <1>5 DEF Create, TakesTodo
  <2>2. CASE connection = Head(actions).n
    <3>1. /\ bound' = Head(actions).n /\ writer' = TRUE
          /\ making' = [at |-> "bound", n |-> Head(actions).n]
      BY <1>5, <2>2 DEF Create
    <3>2. making' \in [at : {"idle", "bound", "noticed"}, n : 0 .. connections]
          /\ making'.at = "bound"
      BY <2>1, <3>1
    <3> QED BY <2>1, <3>1, <3>2
  <2>3. CASE connection # Head(actions).n
    <3>1. bound' = Nothing /\ UNCHANGED <<making, writer>>
      BY <1>5, <2>3 DEF Create
    <3> QED BY <2>1, <3>1
  <2> QED BY <2>2, <2>3
<1>6. CASE Notice \/ SetAlive
  <2>1. /\ UNCHANGED <<connection, connections, ending, actions, EditorModel, bound,
                       watching, logger, chunks>>
        /\ RdIsModelAlive' \in {"unset", "yes", "no"} /\ viewing' \in 0 .. connections
        /\ noticing' \in {Nothing, connection}
    BY <1>6 DEF Notice, SetAlive
  <2>2. \/ making' = [making EXCEPT !.at = "noticed"] /\ making.at = "bound" /\ UNCHANGED writer
        \/ making' = [at |-> "idle", n |-> Nothing] /\ writer' = FALSE
    BY <1>6 DEF Notice, SetAlive
  <2>3. CASE making' = [making EXCEPT !.at = "noticed"] /\ making.at = "bound"
             /\ UNCHANGED writer
    <3>1. making' \in [at : {"idle", "bound", "noticed"}, n : 0 .. connections]
          /\ making'.at = "noticed" /\ writer' = TRUE
      BY <2>3
    <3> QED BY <2>1, <3>1
  <2>4. CASE making' = [at |-> "idle", n |-> Nothing] /\ writer' = FALSE
    <3>1. making' \in [at : {"idle", "bound", "noticed"}, n : 0 .. connections]
          /\ making'.at = "idle"
      BY <2>4
    <3> QED BY <2>1, <2>4, <3>1
  <2> QED BY <2>2, <2>3, <2>4
<1>8. CASE Down
  BY <1>1, <1>8 DEF Down, TakesTodo
<1>9. CASE View
  BY <1>1, <1>9 DEF View, TakesTodo
<1>10. CASE ViewModel
  <2>1. Todo("view", Nothing) \in Todos /\ Todo("view", Nothing).n <= connections
    BY DEF Todo, Todos
  <2>2. \A i \in DOMAIN actions' : \/ i \in DOMAIN actions /\ actions'[i] = actions[i]
                                   \/ actions'[i] = Todo("view", Nothing)
    BY <1>10, <2>1, Appended DEF ViewModel
  <2>3. actions' \in Seq(Todos)
    BY <1>10, <2>1, Appended DEF ViewModel
  <2> QED BY <1>10, <2>1, <2>2, <2>3 DEF ViewModel
<1>11. CASE LogChunk \/ Logs
  BY <1>11 DEF LogChunk, Logs, TestAlive, TestBound, SendChunk
<1>12. CASE UNCHANGED linkVars
  BY <1>12 DEF linkVars
<1> QED BY <1>2, <1>3, <1>4, <1>5, <1>6, <1>8, <1>9, <1>10, <1>11, <1>12
        DEF LinkNext, Scheduled

LEMMA SightInit == LinkInit => SightInv
<1> SUFFICES ASSUME LinkInit PROVE SightInv
  OBVIOUS
<1>1. /\ connection = Nothing /\ actions = <<>> /\ DOMAIN actions = {} /\ noticing = Nothing
      /\ making.at = "idle" /\ RdIsModelAlive = "unset" /\ viewing = Nothing
  BY DEF LinkInit
<1> QED BY ONLY <1>1 DEF SightInv, InOrder, InSight

LEMMA SightStep == LinkTypeOK /\ SightInv /\ [LinkNext]_linkVars => SightInv'
<1> SUFFICES ASSUME LinkTypeOK, SightInv, [LinkNext]_linkVars PROVE SightInv'
  OBVIOUS
<1>1. /\ connections \in Nat /\ connection \in 0 .. connections /\ actions \in Seq(Todos)
      /\ \A i \in DOMAIN actions : i \in Nat /\ actions[i].n \in Nat /\ actions[i].n <= connections
      /\ noticing \in {Nothing, connection} /\ making.n \in 0 .. connections
      /\ making.at \in {"idle", "bound", "noticed"}
      /\ making \in [at : {"idle", "bound", "noticed"}, n : 0 .. connections]
  <2>1. \A i \in DOMAIN actions : i \in Nat /\ actions[i] \in Todos
    BY DEF LinkTypeOK
  <2>2. \A i \in DOMAIN actions : i \in Nat /\ actions[i].n \in Nat
    BY <2>1 DEF Todos
  <2>3. making.n \in 0 .. connections /\ making.at \in {"idle", "bound", "noticed"}
    BY DEF LinkTypeOK
  <2> QED BY <2>2, <2>3 DEF LinkTypeOK
\* What is taken from the queue of the scheduler leaves the rest in order.
<1>2. ASSUME actions # <<>>, actions' = Tail(actions), UNCHANGED <<connection, connections>>
      PROVE  /\ InOrder'
             /\ GoesDown /\ Head(actions).act # "down" => GoesDown' /\ Head(actions).act # "create"
             /\ (\A i \in DOMAIN actions : ~Creates(i)) => \A i \in DOMAIN actions' : ~Creates(i)'
  <2>1. /\ \A i \in DOMAIN actions' :
             i \in Nat \ {0} /\ i + 1 \in DOMAIN actions /\ actions'[i] = actions[i + 1]
        /\ \A i \in DOMAIN actions : i # 1 =>
             i \in Nat /\ i > 1 /\ i - 1 \in DOMAIN actions' /\ actions'[i - 1] = actions[i]
        /\ 1 \in DOMAIN actions /\ Head(actions) = actions[1]
    BY <1>1, <1>2, Taken
  <2>2. InOrder'
    <3>1. \A i, j \in DOMAIN actions' : i < j => i + 1 < j + 1
      BY <2>1
    <3> QED BY <1>2, <2>1, <3>1 DEF SightInv, InOrder, Creates
  <2>3. ASSUME GoesDown, Head(actions).act # "down"
        PROVE  GoesDown' /\ Head(actions).act # "create"
    <3>1. PICK i \in DOMAIN actions :
             actions[i].act = "down" /\ \A j \in 1 .. i - 1 : ~Creates(j)
      BY <2>3 DEF GoesDown
    <3>2. i # 1 /\ i > 1 /\ i \in Nat /\ i - 1 \in DOMAIN actions' /\ actions'[i - 1] = actions[i]
      BY <2>1, <2>3, <3>1
    <3>3. ~Creates(1)
      BY <3>1, <3>2
    <3>4. \A j \in 1 .. (i - 1) - 1 : ~Creates(j)'
      <4> SUFFICES ASSUME NEW j \in 1 .. (i - 1) - 1 PROVE ~Creates(j)'
        OBVIOUS
      <4>1. j + 1 \in 1 .. i - 1 /\ j \in DOMAIN actions'
        BY <1>1, <1>2, <3>2
      <4> QED BY <2>1, <3>1, <4>1 DEF Creates
    <3> QED BY <2>1, <3>1, <3>2, <3>3, <3>4 DEF GoesDown, Creates
  <2> QED BY <2>1, <2>2, <2>3 DEF Creates
\* What is put there keeps what was there.
<1>3. ASSUME NEW todo \in Todos, actions' = Append(actions, todo)
      PROVE  /\ \A i \in DOMAIN actions : i \in DOMAIN actions' /\ actions'[i] = actions[i]
             /\ \A i \in DOMAIN actions' : i \in DOMAIN actions \/
                                           (i = Len(actions) + 1 /\ actions'[i] = todo)
             /\ \A i, j \in DOMAIN actions' : i < j => i \in DOMAIN actions
             /\ GoesDown => GoesDown'
             /\ (todo.act # "create" /\ \A i \in DOMAIN actions : ~Creates(i)) =>
                  \A i \in DOMAIN actions' : ~Creates(i)'
  <2>1. /\ \A i \in DOMAIN actions : /\ i \in DOMAIN actions' /\ actions'[i] = actions[i]
                                     /\ 1 .. i - 1 \subseteq DOMAIN actions
        /\ \A i \in DOMAIN actions' : i \in DOMAIN actions \/
                                      (i = Len(actions) + 1 /\ actions'[i] = todo)
        /\ \A i, j \in DOMAIN actions' : i < j => i \in DOMAIN actions
    BY <1>1, <1>3
  <2>2. GoesDown => GoesDown'
    BY <2>1 DEF GoesDown, Creates
  <2> QED BY <2>1, <2>2 DEF Creates
<1>4. CASE Connect
  <2> DEFINE todo == Todo("create", connections + 1)
  <2>1. /\ todo \in Todos /\ actions' = Append(actions, todo)
        /\ todo.act = "create" /\ todo.n = connections + 1
        /\ connection' = connections + 1 /\ connections' = connections + 1
        /\ UNCHANGED <<making, noticing, RdIsModelAlive, EditorModel, viewing>>
        /\ connection = Nothing /\ noticing = Nothing
    BY <1>1, <1>4 DEF Connect, Todo, Todos
  <2> HIDE DEF todo
  <2>2. InOrder'
    <3>1. \A i \in DOMAIN actions' : Creates(i)' => actions'[i].n # Nothing
      BY <1>1, <1>3, <2>1 DEF SightInv, InOrder, Creates, Nothing
    <3>2. ASSUME NEW i \in DOMAIN actions', NEW j \in DOMAIN actions', i < j,
                 Creates(i)', Creates(j)'
          PROVE  actions'[i].n < actions'[j].n
      <4>1. i \in DOMAIN actions /\ actions'[i] = actions[i]
        BY <1>3, <2>1, <3>2
      <4>2. CASE j \in DOMAIN actions
        <5>1. actions'[j] = actions[j]
          BY <1>3, <2>1, <4>2
        <5> QED BY <3>2, <4>1, <4>2, <5>1 DEF SightInv, InOrder, Creates
      <4>3. CASE j \notin DOMAIN actions
        <5>1. actions'[j].n = connections + 1
          BY <1>3, <2>1, <4>3
        <5> QED BY <1>1, <4>1, <5>1
      <4> QED BY <4>2, <4>3
    <3> QED BY <2>1, <3>1, <3>2 DEF InOrder
  <2>3. InSight' => GoesDown'
    BY <1>3, <2>1 DEF SightInv, InSight
  <2>4. making.at = "bound" => connection' # making.n
    BY <1>1, <2>1
  <2> QED BY <2>1, <2>2, <2>3, <2>4 DEF SightInv
<1>5. CASE Disconnect
  <2>1. /\ connection' = Nothing /\ noticing' = Nothing
        /\ UNCHANGED <<connections, making, RdIsModelAlive, EditorModel, viewing>>
    BY <1>1, <1>5 DEF Disconnect
  <2>2. CASE noticing # Nothing
    <3> DEFINE todo == Todo("down", connection)
    <3>1. /\ todo \in Todos /\ actions' = Append(actions, todo) /\ todo.act = "down"
          /\ \A i \in DOMAIN actions : ~Creates(i)
      BY <1>1, <1>5, <2>2 DEF Disconnect, Todo, Todos, SightInv
    <3> HIDE DEF todo
    <3>2. \A i \in DOMAIN actions' : ~Creates(i)'
      BY <1>3, <3>1 DEF Creates
    <3>3. GoesDown'
      <4>1. Len(actions) + 1 \in DOMAIN actions' /\ actions'[Len(actions) + 1] = todo
            /\ \A j \in 1 .. (Len(actions) + 1) - 1 : j \in DOMAIN actions'
        BY <1>1, <3>1
      <4> QED BY <3>1, <3>2, <4>1 DEF GoesDown
    <3>4. making.at = "bound" => making.n # Nothing /\ RdIsModelAlive # "yes"
      BY DEF SightInv
    <3> QED BY <2>1, <3>2, <3>3, <3>4 DEF SightInv, InOrder
  <2>3. CASE noticing = Nothing
    <3>1. actions' = actions
      BY <1>5, <2>3 DEF Disconnect, Nothing
    <3>2. InOrder'
      BY <2>1, <3>1 DEF SightInv, InOrder, Creates
    <3>3. InSight' => GoesDown'
      BY <2>1, <2>3, <3>1 DEF SightInv, InSight, GoesDown, Creates
    <3> QED BY <2>1, <3>1, <3>2, <3>3 DEF SightInv
  <2> QED BY <2>2, <2>3
<1>6. CASE Create
  <2>1. /\ making.at = "idle" /\ actions # <<>> /\ Head(actions).act = "create"
        /\ actions' = Tail(actions) /\ EditorModel' = Head(actions).n
        /\ UNCHANGED <<connection, connections, noticing, RdIsModelAlive, viewing>>
    BY <1>6 DEF Create, TakesTodo
  <2>2. 1 \in DOMAIN actions /\ Head(actions) = actions[1] /\ Creates(1)
    BY <1>1, <2>1, Taken DEF Creates
  <2>3. noticing = Nothing /\ ~GoesDown
    BY <1>2, <2>1, <2>2 DEF SightInv
  <2>4. ~InSight /\ RdIsModelAlive # "yes" /\ viewing = Nothing
    BY <2>3 DEF SightInv, InSight
  <2>5. InOrder'
    BY <1>2, <2>1
  <2>6. CASE connection = Head(actions).n
    <3>1. making'.at = "bound" /\ making'.n = Head(actions).n
      BY <1>6, <2>6 DEF Create
    <3>2. Head(actions).n # Nothing /\ Head(actions).n = connections
      BY <2>2, <2>6 DEF SightInv, InOrder
    <3>3. \A i \in DOMAIN actions' : ~Creates(i)'
      <4> SUFFICES ASSUME NEW i \in DOMAIN actions', Creates(i)' PROVE FALSE
        OBVIOUS
      <4>1. i + 1 \in DOMAIN actions /\ actions'[i] = actions[i + 1] /\ 1 < i + 1
        BY <1>1, <2>1, Taken
      <4>2. actions[1].n < actions[i + 1].n /\ actions[i + 1].n <= connections
        BY <1>1, <2>2, <4>1 DEF SightInv, InOrder, Creates
      <4> QED BY <1>1, <2>2, <3>2, <4>1, <4>2
    <3> QED BY <2>1, <2>3, <2>4, <2>5, <3>1, <3>2, <3>3 DEF SightInv, InSight
  <2>7. CASE connection # Head(actions).n
    <3>1. making' = making
      BY <1>6, <2>7 DEF Create
    <3> QED BY <2>1, <2>3, <2>4, <2>5, <3>1 DEF SightInv, InSight
  <2> QED BY <2>6, <2>7
<1>7. CASE Notice
  <2>1. /\ making.at = "bound" /\ UNCHANGED <<actions, connection, connections,
                                             RdIsModelAlive, viewing, EditorModel>>
    BY <1>7 DEF Notice
  <2>2. InOrder' /\ UNCHANGED GoesDown
    BY <2>1 DEF SightInv, InOrder, Creates, GoesDown
  <2>3. making.n # Nothing /\ RdIsModelAlive # "yes" /\ viewing = Nothing
    BY <2>1 DEF SightInv
  <2>4. CASE connection = making.n
    <3>1. noticing' = making.n /\ making'.at = "noticed"
      BY <1>1, <1>7, <2>4 DEF Notice
    <3>2. \A i \in DOMAIN actions' : ~Creates(i)'
      BY <2>1, <2>4 DEF SightInv, Creates
    <3> QED BY <2>1, <2>2, <2>3, <3>1, <3>2 DEF SightInv, InSight
  <2>5. CASE connection # making.n
    <3>1. noticing' = noticing /\ making'.at = "idle"
      BY <1>7, <2>5 DEF Notice
    <3> QED BY <2>1, <2>2, <2>3, <3>1 DEF SightInv, InSight, Creates
  <2> QED BY <2>4, <2>5
<1>8. CASE SetAlive
  <2>1. /\ making.at = "noticed" /\ making'.at = "idle" /\ RdIsModelAlive' = "yes"
        /\ UNCHANGED <<actions, connection, connections, noticing, EditorModel>>
        /\ viewing' = EditorModel \/ viewing' = viewing
    BY <1>8 DEF SetAlive
  <2>2. InOrder' /\ UNCHANGED GoesDown
    BY <2>1 DEF SightInv, InOrder, Creates, GoesDown
  <2> QED BY <2>1, <2>2 DEF SightInv, InSight, Creates
<1>9. CASE Down
  <2>1. /\ making.at = "idle" /\ actions # <<>> /\ actions' = Tail(actions)
        /\ RdIsModelAlive' = "no" /\ viewing' = Nothing
        /\ UNCHANGED <<connection, connections, making, noticing, EditorModel>>
    BY <1>9 DEF Down, TakesTodo
  <2> QED BY <1>2, <2>1 DEF SightInv, InSight
<1>10. CASE View
  <2>1. /\ making.at = "idle" /\ actions # <<>> /\ actions' = Tail(actions)
        /\ Head(actions).act = "view"
        /\ viewing' = IF RdIsModelAlive = "yes" THEN EditorModel ELSE Nothing
        /\ UNCHANGED <<connection, connections, making, noticing, EditorModel,
                       RdIsModelAlive>>
    BY <1>10 DEF View, TakesTodo
  <2> QED BY <1>2, <2>1 DEF SightInv, InSight
<1>11. CASE ViewModel
  <2> DEFINE todo == Todo("view", Nothing)
  <2>1. /\ todo \in Todos /\ actions' = Append(actions, todo) /\ todo.act = "view"
        /\ UNCHANGED <<connection, connections, making, noticing, EditorModel,
                       RdIsModelAlive, viewing>>
    BY <1>11 DEF ViewModel, Todo, Todos, Nothing
  <2> HIDE DEF todo
  <2>2. InOrder'
    BY <1>3, <2>1 DEF SightInv, InOrder, Creates
  <2> QED BY <1>3, <2>1, <2>2 DEF SightInv, InSight
<1>12. CASE Unbind \/ LogChunk \/ Logs \/ UNCHANGED linkVars
  <2>1. UNCHANGED <<actions, connection, connections, making, noticing, EditorModel,
                    RdIsModelAlive, viewing>>
    BY <1>12 DEF Unbind, LogChunk, Logs, TestAlive, TestBound, SendChunk, linkVars
  <2> QED BY <2>1 DEF SightInv, InOrder, InSight, GoesDown, Creates
<1> QED BY <1>4, <1>5, <1>6, <1>7, <1>8, <1>9, <1>10, <1>11, <1>12 DEF LinkNext, Scheduled

LEMMA LinkSteps == [PluginNext]_pluginVars => [LinkNext]_linkVars
BY DEF PluginNext, pluginVars, OnlyLink, OnlyControl

(***************************************************************************)
(* Every variable of the module of the model has its type: what is bound   *)
(* is the model there is, and what queues the end of a model is the        *)
(* connection there is.                                                    *)
(***************************************************************************)
THEOREM LinkTypeCorrect == PluginSpec => []LinkTypeOK
<1>1. PluginInit => LinkTypeOK
  BY LinkTypeInit DEF PluginInit
<1> QED BY <1>1, LinkTypeStep, LinkSteps, PTL DEF PluginSpec

(***************************************************************************)
(* No module of the editor ever holds a model that is destroyed: the model *)
(* before has gone out of sight when the next one is made.                 *)
(***************************************************************************)
THEOREM ModelsOutliveTheirViews == PluginSpec => []ModelOutlivesItsViews
<1>1. PluginInit => SightInv
  BY SightInit DEF PluginInit
<1>2. SightInv => ModelOutlivesItsViews
  BY DEF SightInv, ModelOutlivesItsViews
<1> QED BY <1>1, <1>2, SightStep, LinkSteps, LinkTypeCorrect, PTL DEF PluginSpec

-----------------------------------------------------------------------------
(***************************************************************************)
(* The game control                                                        *)
(***************************************************************************)
\* Messages about one thing, and what the last of them says.
Tells(messages, what) == \E i \in DOMAIN messages : messages[i].what = what

Ends(messages, what, v) ==
    \E i \in DOMAIN messages :
        /\ messages[i].what = what /\ messages[i].value = v
        /\ \A j \in DOMAIN messages : j > i => messages[j].what # what

Says(item, what) == item.act = "send" /\ Tells(item.messages, what)

QueueTells(q, what) == \E i \in DOMAIN q : Says(q[i], what)

QueueEnds(q, what, v) ==
    \E i \in DOMAIN q :
        /\ Says(q[i], what) /\ Ends(q[i].messages, what, v)
        /\ \A j \in DOMAIN q : j > i => ~Says(q[j], what)

\* Something is under way to Rider, in the queue q of the scheduler or among
\* the messages r; what Rider will know when it has arrived.
UnderWay(q, r, what) == QueueTells(q, what) \/ Tells(r, what)

WillKnow(q, r, what, v) ==
    IF QueueTells(q, what) THEN QueueEnds(q, what, v) ELSE Ends(r, what, v)

\* The last mode that waits for the scheduler came with this number.
LastAsked(q, mode) ==
    \E i \in DOMAIN q :
        /\ q[i].act = "mode" /\ q[i].number = mode
        /\ \A j \in DOMAIN q : j > i => q[j].act # "mode"

\* What the editor plays will be known, or is.
PlayInv ==
    /\ life = "new" => ~reported
    /\ (Listens /\ reported) =>
          /\ UnderWay(queue, toRider, "state") =>
                WillKnow(queue, toRider, "state", StateNumber[playState])
          /\ ~UnderWay(queue, toRider, "state") => riderState = playState

\* The settings, as long as no two changes met within the editor.  Only one of
\* the two threads is busy with them, and has the mode of the settings there
\* are; when neither is, that mode is announced.  The last announcement under
\* way is playMode; when none is, Rider shows it, or has sent what it shows,
\* which waits for the scheduler or is what it is busy with.
BusyInv ==
    /\ scheduler # Idle => game = Idle /\ ~QueueTells(queue, "mode")
    /\ scheduler.at \in {"retrieved", "updated"} => scheduler.mode = PackToMode(settings)
    /\ game.at = "retrieved" => game.mode = PackToMode(settings)

ShownInv ==
    /\ (scheduler = Idle /\ game = Idle) => playMode = PackToMode(settings)
    /\ UnderWay(queue, toRider, "mode") => WillKnow(queue, toRider, "mode", playMode)
    /\ ~UnderWay(queue, toRider, "mode") =>
          \/ UnpackFromMode(riderMode) = UnpackFromMode(playMode)
          \/ LastAsked(queue, riderMode)
          \/ scheduler.at \in {"edited", "updated"} /\ settings = UnpackFromMode(riderMode)

SettingsInv ==
    /\ life = "new" => /\ queue = <<>> /\ game = Idle /\ scheduler = Idle
                       /\ toRider = <<>> /\ gameTasks = <<>> /\ ~riderKnows
    /\ life = "subscribed" <=> scheduler.at \in {"constructs", "retrieved"}
    /\ scheduler.at = "idle" <=> scheduler = Idle
    /\ game.at = "idle" <=> game = Idle
    /\ (Listens /\ ~overtaken) => BusyInv
    /\ (life = "up" /\ ~overtaken) => ShownInv

(***************************************************************************)
(* Modes                                                                   *)
(***************************************************************************)
LEMMA PlayModesAre ==
    ASSUME NEW type
    PROVE  /\ PlayModeToInt(type) \in 0 .. 6
           /\ \A n \in 0 .. 7 :
                PlayModeFromInt(PlayModeToInt(PlayModeFromInt(n))) = PlayModeFromInt(n)
<1>1. /\ DOMAIN PlayModes = 1 .. 6
      /\ PlayModes[1] = "InMobilePreview" /\ PlayModes[2] = "InEditorFloating"
      /\ PlayModes[3] = "InVR" /\ PlayModes[4] = "InNewProcess"
      /\ PlayModes[5] = "Simulate" /\ PlayModes[6] = "InVulkanPreview"
  BY DEF PlayModes
<1>2. \A i, j \in 1 .. 6 : PlayModes[i] = PlayModes[j] => i = j
  BY <1>1
<1>3. \A i \in 1 .. 6 : PlayModes[i] \in Range(PlayModes)
                        /\ PlayModes[i] # "InTargetedMobilePreview"
  BY <1>1 DEF Range
<1>4. \A i \in 1 .. 6 : PlayModeToInt(PlayModes[i]) = i
  <2> SUFFICES ASSUME NEW i \in 1 .. 6 PROVE PlayModeToInt(PlayModes[i]) = i
    OBVIOUS
  <2>1. (CHOOSE j \in DOMAIN PlayModes : PlayModes[j] = PlayModes[i]) = i
    BY <1>1, <1>2
  <2>2. PlayModes[i] \in Range(PlayModes) /\ PlayModes[i] # "InTargetedMobilePreview"
    BY <1>3
  <2>3. PlayModeToInt(PlayModes[i]) = CHOOSE j \in DOMAIN PlayModes : PlayModes[j] = PlayModes[i]
    BY ONLY <2>2 DEF PlayModeToInt
  <2> QED BY <2>1, <2>3
<1>5. "InViewPort" \notin Range(PlayModes) /\ "InViewPort" # "InTargetedMobilePreview"
  BY <1>1 DEF Range
<1>6. PlayModeToInt("InViewPort") = 0
  BY <1>5 DEF PlayModeToInt
<1>7. PlayModeToInt(type) \in 0 .. 6
  <2>1. CASE type = "InTargetedMobilePreview"
    <3>1. type \notin Range(PlayModes)
      BY <1>1, <2>1 DEF Range
    <3>2. PlayModeToInt(type) = 1
      BY <2>1, <3>1 DEF PlayModeToInt
    <3> QED BY <3>2
  <2>2. CASE type # "InTargetedMobilePreview" /\ type \in Range(PlayModes)
    <3>1. PICK i \in 1 .. 6 : PlayModes[i] = type
      BY <1>1, <2>2 DEF Range
    <3>2. PlayModeToInt(PlayModes[i]) = i
      BY <1>4
    <3>3. PlayModeToInt(type) = i
      BY ONLY <3>1, <3>2
    <3> QED BY <3>3
  <2>3. CASE type # "InTargetedMobilePreview" /\ type \notin Range(PlayModes)
    BY <2>3 DEF PlayModeToInt
  <2> QED BY <2>1, <2>2, <2>3
<1>8. \A n \in 0 .. 7 :
        PlayModeFromInt(PlayModeToInt(PlayModeFromInt(n))) = PlayModeFromInt(n)
  <2> SUFFICES ASSUME NEW n \in 0 .. 7
               PROVE  PlayModeFromInt(PlayModeToInt(PlayModeFromInt(n))) = PlayModeFromInt(n)
    OBVIOUS
  <2>1. CASE n \in 1 .. 6
    <3>1. PlayModeFromInt(n) = PlayModes[n]
      BY <1>1, <2>1 DEF PlayModeFromInt
    <3> QED BY <1>4, <2>1, <3>1
  <2>2. CASE n \notin 1 .. 6
    <3>1. PlayModeFromInt(n) = "InViewPort" /\ PlayModeFromInt(0) = "InViewPort"
      BY <1>1, <2>2 DEF PlayModeFromInt
    <3> QED BY <1>6, <3>1
  <2> QED BY <2>1, <2>2
<1> QED BY <1>7, <1>8

\* The bits of a mode that is packed.
LEMMA Bits ==
    ASSUME NEW c \in 0 .. 3, NEW s \in {0, 4}, NEW d \in {0, 8}, NEW p \in 0 .. 7
    PROVE  /\ ((c + s + d + p * 16) \div 16) % 8 = p
           /\ (c + s + d + p * 16) % 4 = c
           /\ ((c + s + d + p * 16) \div 8) % 2 = (IF d = 8 THEN 1 ELSE 0)
           /\ ((c + s + d + p * 16) \div 4) % 2 = (IF s = 4 THEN 1 ELSE 0)
OBVIOUS

LEMMA UnpackType ==
    ASSUME NEW mode \in Int
    PROVE  UnpackFromMode(mode) \in PlaySettings /\ UnpackFromMode(mode).clients <= 4
<1>1. /\ (mode % 4) \in 0 .. 3
      /\ (mode \div 16) \in Int /\ ((mode \div 16) % 8) \in 0 .. 7
  OBVIOUS
<1>2. \A n \in 0 .. 7 : PlayModeFromInt(n) \in PlayTypes
  <2>1. DOMAIN PlayModes = 1 .. 6 /\ \A i \in 1 .. 6 : PlayModes[i] \in PlayTypes
    BY DEF PlayModes, PlayTypes
  <2>2. "InViewPort" \in PlayTypes
    BY DEF PlayTypes
  <2> QED BY <2>1, <2>2 DEF PlayModeFromInt
<1>3. /\ UnpackFromMode(mode).clients = (mode % 4) + 1
      /\ UnpackFromMode(mode) =
           [play |-> PlayModeFromInt((mode \div 16) % 8), clients |-> (mode % 4) + 1,
            dedicated |-> (mode \div 8) % 2 = 1, spawn |-> (mode \div 4) % 2 = 1]
  BY DEF UnpackFromMode
<1>4. PlayModeFromInt((mode \div 16) % 8) \in PlayTypes /\ (mode % 4) + 1 \in Nat \ {0}
  BY <1>1, <1>2
<1> QED BY <1>1, <1>3, <1>4 DEF PlaySettings

LEMMA PackType ==
    ASSUME NEW s \in PlaySettings PROVE PackToMode(s) \in Int
<1>1. s.clients \in Nat
  BY DEF PlaySettings
<1> QED BY <1>1, PlayModesAre DEF PackToMode

LEMMA PackUnpack ==
    ASSUME NEW s \in PlaySettings, s.clients <= 4
    PROVE  UnpackFromMode(PackToMode(s)) = Canonical(s)
<1> DEFINE c == s.clients - 1
           b == IF s.spawn THEN 4 ELSE 0
           d == IF s.dedicated THEN 8 ELSE 0
           p == PlayModeToInt(s.play)
<1>1. /\ c \in 0 .. 3 /\ b \in {0, 4} /\ d \in {0, 8} /\ p \in 0 .. 7
      /\ s.spawn \in BOOLEAN /\ s.dedicated \in BOOLEAN /\ s.clients \in Nat
  BY PlayModesAre DEF PlaySettings
<1>2. PackToMode(s) = c + b + d + p * 16
  BY DEF PackToMode
<1>3. /\ (b = 4) = s.spawn /\ (d = 8) = s.dedicated /\ s.clients = c + 1
  BY <1>1
<1> HIDE DEF c, b, d, p
<1>4. /\ (PackToMode(s) \div 16) % 8 = p
      /\ PackToMode(s) % 4 = c
      /\ ((PackToMode(s) \div 8) % 2 = 1) = (d = 8)
      /\ ((PackToMode(s) \div 4) % 2 = 1) = (b = 4)
  BY <1>1, <1>2, Bits
<1>5. UnpackFromMode(PackToMode(s)) =
        [play |-> PlayModeFromInt(p), clients |-> c + 1, dedicated |-> (d = 8), spawn |-> (b = 4)]
  BY <1>4 DEF UnpackFromMode
<1>6. Canonical(s) = [play |-> PlayModeFromInt(p), clients |-> s.clients,
                      dedicated |-> s.dedicated, spawn |-> s.spawn]
  BY DEF Canonical, PlaySettings, p
<1> QED BY <1>3, <1>5, <1>6

\* What came from Rider can be told to Rider.
LEMMA UnpackFixed ==
    ASSUME NEW mode \in Int
    PROVE  UnpackFromMode(PackToMode(UnpackFromMode(mode))) = UnpackFromMode(mode)
<1> DEFINE s == UnpackFromMode(mode)
<1>1. s \in PlaySettings /\ s.clients <= 4
  BY UnpackType
<1>2. (mode \div 16) % 8 \in 0 .. 7
  OBVIOUS
<1>3. s.play = PlayModeFromInt((mode \div 16) % 8)
  BY DEF UnpackFromMode
<1>4. PlayModeFromInt(PlayModeToInt(s.play)) = s.play
  BY <1>2, <1>3, PlayModesAre
<1> HIDE DEF s
<1>5. Canonical(s) = s
  BY <1>1, <1>4 DEF Canonical, PlaySettings
<1> QED BY <1>1, <1>5, PackUnpack DEF s

(***************************************************************************)
(* What is under way                                                       *)
(***************************************************************************)
LEMMA TellsAppend ==
    ASSUME NEW S, NEW r \in Seq(S), NEW m \in S, NEW what
    PROVE  /\ Tells(Append(r, m), what) <=> (Tells(r, what) \/ m.what = what)
           /\ m.what = what => Ends(Append(r, m), what, m.value)
           /\ \A v : (m.what # what /\ Ends(r, what, v)) => Ends(Append(r, m), what, v)
<1>1. /\ \A i \in DOMAIN r : /\ i \in DOMAIN Append(r, m) /\ Append(r, m)[i] = r[i]
      /\ \A i \in DOMAIN Append(r, m) : i \in DOMAIN r \/ i = Len(r) + 1
      /\ Len(r) + 1 \in DOMAIN Append(r, m) /\ Append(r, m)[Len(r) + 1] = m
      /\ \A i \in DOMAIN Append(r, m) : ~(i > Len(r) + 1)
  OBVIOUS
<1>2. Tells(Append(r, m), what) <=> (Tells(r, what) \/ m.what = what)
  BY <1>1 DEF Tells
<1>3. m.what = what => Ends(Append(r, m), what, m.value)
  BY <1>1 DEF Ends
<1>4. ASSUME NEW v, m.what # what, Ends(r, what, v) PROVE Ends(Append(r, m), what, v)
  BY <1>1, <1>4 DEF Ends
<1> QED BY <1>2, <1>3, <1>4

LEMMA TellsConcat ==
    ASSUME NEW S, NEW r \in Seq(S), NEW s \in Seq(S), NEW what
    PROVE  /\ Tells(r \o s, what) <=> (Tells(r, what) \/ Tells(s, what))
           /\ \A v : Ends(s, what, v) => Ends(r \o s, what, v)
           /\ \A v : (~Tells(s, what) /\ Ends(r, what, v)) => Ends(r \o s, what, v)
<1>1. /\ \A i \in DOMAIN r : i \in DOMAIN (r \o s) /\ (r \o s)[i] = r[i]
      /\ \A i \in DOMAIN s : Len(r) + i \in DOMAIN (r \o s) /\ (r \o s)[Len(r) + i] = s[i]
      /\ \A i \in DOMAIN (r \o s) :
           \/ i \in DOMAIN r
           \/ i - Len(r) \in DOMAIN s /\ (r \o s)[i] = s[i - Len(r)] /\ ~(i \in DOMAIN r)
      /\ Len(r) \in Nat /\ DOMAIN r = 1 .. Len(r) /\ Len(s) \in Nat /\ DOMAIN s = 1 .. Len(s)
  <2>1. /\ Len(r) \in Nat /\ DOMAIN r = 1 .. Len(r) /\ Len(s) \in Nat /\ DOMAIN s = 1 .. Len(s)
        /\ DOMAIN (r \o s) = 1 .. Len(r) + Len(s)
        /\ \A i \in 1 .. Len(r) + Len(s) :
             (r \o s)[i] = IF i <= Len(r) THEN r[i] ELSE s[i - Len(r)]
    BY ConcatProperties
  <2>2. \A i \in DOMAIN r : i \in DOMAIN (r \o s) /\ (r \o s)[i] = r[i]
    BY <2>1
  <2>3. ASSUME NEW i \in DOMAIN s
        PROVE  Len(r) + i \in DOMAIN (r \o s) /\ (r \o s)[Len(r) + i] = s[i]
    <3>1. Len(r) + i \in 1 .. Len(r) + Len(s) /\ ~(Len(r) + i <= Len(r))
          /\ (Len(r) + i) - Len(r) = i
      BY <2>1
    <3> QED BY <2>1, <3>1
  <2>4. ASSUME NEW i \in DOMAIN (r \o s)
        PROVE  \/ i \in DOMAIN r
               \/ i - Len(r) \in DOMAIN s /\ (r \o s)[i] = s[i - Len(r)] /\ ~(i \in DOMAIN r)
    BY <2>1
  <2> QED BY <2>1, <2>2, <2>3, <2>4
<1>2. Tells(r \o s, what) <=> (Tells(r, what) \/ Tells(s, what))
  BY <1>1 DEF Tells
<1>3. ASSUME NEW v, Ends(s, what, v) PROVE Ends(r \o s, what, v)
  <2>1. PICK i \in DOMAIN s : /\ s[i].what = what /\ s[i].value = v
                              /\ \A j \in DOMAIN s : j > i => s[j].what # what
    BY <1>3 DEF Ends
  <2>2. ASSUME NEW j \in DOMAIN (r \o s), j > Len(r) + i PROVE (r \o s)[j].what # what
    <3>1. j - Len(r) \in DOMAIN s /\ (r \o s)[j] = s[j - Len(r)]
      BY <1>1, <2>2
    <3>2. j - Len(r) > i
      BY <1>1, <2>2, <3>1
    <3> QED BY <2>1, <3>1, <3>2
  <2> QED BY <1>1, <2>1, <2>2 DEF Ends
<1>4. ASSUME NEW v, ~Tells(s, what), Ends(r, what, v) PROVE Ends(r \o s, what, v)
  <2>1. PICK i \in DOMAIN r : /\ r[i].what = what /\ r[i].value = v
                              /\ \A j \in DOMAIN r : j > i => r[j].what # what
    BY <1>4 DEF Ends
  <2>2. ASSUME NEW j \in DOMAIN (r \o s), j > i PROVE (r \o s)[j].what # what
    BY <1>1, <1>4, <2>1, <2>2 DEF Tells
  <2> QED BY <1>1, <2>1, <2>2 DEF Ends
<1> QED BY <1>2, <1>3, <1>4

LEMMA TellsTail ==
    ASSUME NEW S, NEW r \in Seq(S), r # <<>>, NEW what
    PROVE  /\ Tells(r, what) <=> (Tells(Tail(r), what) \/ Head(r).what = what)
           /\ \A v : (Tells(Tail(r), what) /\ Ends(r, what, v)) => Ends(Tail(r), what, v)
           /\ \A v : (~Tells(Tail(r), what) /\ Ends(r, what, v)) =>
                        Head(r).what = what /\ Head(r).value = v
<1>1. /\ \A i \in DOMAIN Tail(r) : i \in Nat /\ i + 1 \in DOMAIN r /\ Tail(r)[i] = r[i + 1]
      /\ \A i \in DOMAIN r : i # 1 =>
           i \in Nat /\ i - 1 \in DOMAIN Tail(r) /\ Tail(r)[i - 1] = r[i] /\ i > 1
      /\ 1 \in DOMAIN r /\ Head(r) = r[1]
  BY Taken
<1>2. Tells(r, what) <=> (Tells(Tail(r), what) \/ Head(r).what = what)
  <2>1. ASSUME Tells(r, what), Head(r).what # what PROVE Tells(Tail(r), what)
    <3>1. PICK i \in DOMAIN r : r[i].what = what
      BY <2>1 DEF Tells
    <3>2. i - 1 \in DOMAIN Tail(r) /\ Tail(r)[i - 1].what = what
      BY <1>1, <2>1, <3>1
    <3> QED BY <3>2 DEF Tells
  <2>2. Tells(Tail(r), what) => Tells(r, what)
    BY <1>1 DEF Tells
  <2>3. Head(r).what = what => Tells(r, what)
    BY <1>1 DEF Tells
  <2> QED BY <2>1, <2>2, <2>3
<1>3. ASSUME NEW v, Ends(r, what, v)
      PROVE  /\ Tells(Tail(r), what) => Ends(Tail(r), what, v)
             /\ ~Tells(Tail(r), what) => Head(r).what = what /\ Head(r).value = v
  <2>1. PICK i \in DOMAIN r : /\ r[i].what = what /\ r[i].value = v
                              /\ \A j \in DOMAIN r : j > i => r[j].what # what
    BY <1>3 DEF Ends
  <2>2. CASE i = 1
    <3>1. ~Tells(Tail(r), what)
      <4> SUFFICES ASSUME NEW j \in DOMAIN Tail(r), Tail(r)[j].what = what PROVE FALSE
        BY DEF Tells
      <4>1. j \in Nat /\ j + 1 \in DOMAIN r /\ r[j + 1].what = what /\ j # 0
        BY <1>1
      <4> QED BY <2>1, <2>2, <4>1
    <3> QED BY <1>1, <2>1, <2>2, <3>1
  <2>3. CASE i # 1
    <3>1. i \in Nat /\ i - 1 \in DOMAIN Tail(r) /\ Tail(r)[i - 1] = r[i]
      BY <1>1, <2>3
    <3>2. ASSUME NEW j \in DOMAIN Tail(r), j > i - 1 PROVE Tail(r)[j].what # what
      <4>1. j \in Nat /\ j + 1 \in DOMAIN r /\ Tail(r)[j] = r[j + 1] /\ j + 1 > i
        BY <1>1, <3>1, <3>2
      <4> QED BY <2>1, <4>1
    <3> QED BY <2>1, <3>1, <3>2 DEF Ends, Tells
  <2> QED BY <2>2, <2>3
<1> QED BY <1>2, <1>3

LEMMA QueueAppend ==
    ASSUME NEW S, NEW q \in Seq(S), NEW item \in S, NEW what
    PROVE  /\ QueueTells(Append(q, item), what) <=> (QueueTells(q, what) \/ Says(item, what))
           /\ \A v : (Says(item, what) /\ Ends(item.messages, what, v)) =>
                        QueueEnds(Append(q, item), what, v)
           /\ \A v : (~Says(item, what) /\ QueueEnds(q, what, v)) =>
                        QueueEnds(Append(q, item), what, v)
           /\ \A n : (item.act # "mode" /\ LastAsked(q, n)) => LastAsked(Append(q, item), n)
           /\ item.act = "mode" => LastAsked(Append(q, item), item.number)
<1>1. /\ \A i \in DOMAIN q : /\ i \in DOMAIN Append(q, item) /\ Append(q, item)[i] = q[i]
      /\ \A i \in DOMAIN Append(q, item) : i \in DOMAIN q \/ i = Len(q) + 1
      /\ Len(q) + 1 \in DOMAIN Append(q, item) /\ Append(q, item)[Len(q) + 1] = item
      /\ \A i \in DOMAIN Append(q, item) : ~(i > Len(q) + 1)
  OBVIOUS
<1>2. QueueTells(Append(q, item), what) <=> (QueueTells(q, what) \/ Says(item, what))
  BY <1>1 DEF QueueTells
<1>3. ASSUME NEW v, Says(item, what), Ends(item.messages, what, v)
      PROVE  QueueEnds(Append(q, item), what, v)
  BY <1>1, <1>3 DEF QueueEnds
<1>4. ASSUME NEW v, ~Says(item, what), QueueEnds(q, what, v)
      PROVE  QueueEnds(Append(q, item), what, v)
  BY <1>1, <1>4 DEF QueueEnds
<1>5. ASSUME NEW n, item.act # "mode", LastAsked(q, n) PROVE LastAsked(Append(q, item), n)
  BY <1>1, <1>5 DEF LastAsked
<1>6. item.act = "mode" => LastAsked(Append(q, item), item.number)
  BY <1>1 DEF LastAsked
<1> QED BY <1>2, <1>3, <1>4, <1>5, <1>6

LEMMA QueueTail ==
    ASSUME NEW S, NEW q \in Seq(S), q # <<>>, NEW what
    PROVE  /\ QueueTells(q, what) <=> (QueueTells(Tail(q), what) \/ Says(Head(q), what))
           /\ \A v : (QueueTells(Tail(q), what) /\ QueueEnds(q, what, v)) =>
                        QueueEnds(Tail(q), what, v)
           /\ \A v : (~QueueTells(Tail(q), what) /\ QueueEnds(q, what, v)) =>
                        Ends(Head(q).messages, what, v)
           /\ \A n : LastAsked(q, n) =>
                        LastAsked(Tail(q), n) \/ (Head(q).act = "mode" /\ Head(q).number = n)
<1>1. /\ \A i \in DOMAIN Tail(q) : i \in Nat /\ i # 0 /\ i + 1 \in DOMAIN q /\ Tail(q)[i] = q[i + 1]
      /\ \A i \in DOMAIN q : i # 1 =>
           i \in Nat /\ i - 1 \in DOMAIN Tail(q) /\ Tail(q)[i - 1] = q[i] /\ i > 1
      /\ 1 \in DOMAIN q /\ Head(q) = q[1]
  BY Taken
<1>2. QueueTells(q, what) <=> (QueueTells(Tail(q), what) \/ Says(Head(q), what))
  <2>1. ASSUME QueueTells(q, what), ~Says(Head(q), what) PROVE QueueTells(Tail(q), what)
    <3>1. PICK i \in DOMAIN q : Says(q[i], what)
      BY <2>1 DEF QueueTells
    <3>2. i - 1 \in DOMAIN Tail(q) /\ Says(Tail(q)[i - 1], what)
      BY <1>1, <2>1, <3>1
    <3> QED BY <3>2 DEF QueueTells
  <2>2. QueueTells(Tail(q), what) => QueueTells(q, what)
    BY <1>1 DEF QueueTells
  <2>3. Says(Head(q), what) => QueueTells(q, what)
    BY <1>1 DEF QueueTells
  <2> QED BY <2>1, <2>2, <2>3
<1>3. ASSUME NEW v, QueueEnds(q, what, v)
      PROVE  /\ QueueTells(Tail(q), what) => QueueEnds(Tail(q), what, v)
             /\ ~QueueTells(Tail(q), what) => Ends(Head(q).messages, what, v)
  <2>1. PICK i \in DOMAIN q : /\ Says(q[i], what) /\ Ends(q[i].messages, what, v)
                              /\ \A j \in DOMAIN q : j > i => ~Says(q[j], what)
    BY <1>3 DEF QueueEnds
  <2>2. CASE i = 1
    <3>1. ~QueueTells(Tail(q), what)
      <4> SUFFICES ASSUME NEW j \in DOMAIN Tail(q), Says(Tail(q)[j], what) PROVE FALSE
        BY DEF QueueTells
      <4>1. j \in Nat /\ j + 1 \in DOMAIN q /\ Says(q[j + 1], what) /\ j # 0
        BY <1>1
      <4> QED BY <2>1, <2>2, <4>1
    <3> QED BY <1>1, <2>1, <2>2, <3>1
  <2>3. CASE i # 1
    <3>1. i \in Nat /\ i - 1 \in DOMAIN Tail(q) /\ Tail(q)[i - 1] = q[i]
      BY <1>1, <2>3
    <3>2. ASSUME NEW j \in DOMAIN Tail(q), j > i - 1 PROVE ~Says(Tail(q)[j], what)
      <4>1. j \in Nat /\ j + 1 \in DOMAIN q /\ Tail(q)[j] = q[j + 1] /\ j + 1 > i
        BY <1>1, <3>1, <3>2
      <4> QED BY <2>1, <4>1
    <3> QED BY <2>1, <3>1, <3>2 DEF QueueEnds, QueueTells
  <2> QED BY <2>2, <2>3
<1>4. ASSUME NEW n, LastAsked(q, n), ~(Head(q).act = "mode" /\ Head(q).number = n)
      PROVE  LastAsked(Tail(q), n)
  <2>1. PICK i \in DOMAIN q : /\ q[i].act = "mode" /\ q[i].number = n
                              /\ \A j \in DOMAIN q : j > i => q[j].act # "mode"
    BY <1>4 DEF LastAsked
  <2>2. i # 1 /\ i \in Nat /\ i - 1 \in DOMAIN Tail(q) /\ Tail(q)[i - 1] = q[i]
    BY <1>1, <1>4, <2>1
  <2>3. ASSUME NEW j \in DOMAIN Tail(q), j > i - 1 PROVE Tail(q)[j].act # "mode"
    <3>1. j \in Nat /\ j + 1 \in DOMAIN q /\ Tail(q)[j] = q[j + 1] /\ j + 1 > i
      BY <1>1, <2>2, <2>3
    <3> QED BY <2>1, <3>1
  <2> QED BY <2>1, <2>2, <2>3 DEF LastAsked
<1> QED BY <1>2, <1>3, <1>4

LEMMA WayPut ==
    ASSUME NEW S, NEW q \in Seq(S), NEW r, NEW item \in S, NEW what
    PROVE  /\ ~Says(item, what) =>
                /\ UnderWay(Append(q, item), r, what) <=> UnderWay(q, r, what)
                /\ \A v : WillKnow(q, r, what, v) => WillKnow(Append(q, item), r, what, v)
           /\ \A v : (Says(item, what) /\ Ends(item.messages, what, v)) =>
                /\ UnderWay(Append(q, item), r, what)
                /\ WillKnow(Append(q, item), r, what, v)
BY QueueAppend DEF UnderWay, WillKnow

LEMMA WayDropped ==
    ASSUME NEW S, NEW q \in Seq(S), q # <<>>, NEW r, NEW what, ~Says(Head(q), what)
    PROVE  /\ UnderWay(Tail(q), r, what) <=> UnderWay(q, r, what)
           /\ \A v : WillKnow(q, r, what, v) => WillKnow(Tail(q), r, what, v)
BY QueueTail DEF UnderWay, WillKnow

LEMMA WaySent ==
    ASSUME NEW S, NEW q \in Seq(S), q # <<>>, Head(q).act = "send",
           NEW M, NEW r \in Seq(M), Head(q).messages \in Seq(M), NEW what
    PROVE  /\ UnderWay(Tail(q), r \o Head(q).messages, what) <=> UnderWay(q, r, what)
           /\ \A v : WillKnow(q, r, what, v) =>
                        WillKnow(Tail(q), r \o Head(q).messages, what, v)
<1>1. Says(Head(q), what) <=> Tells(Head(q).messages, what)
  BY DEF Says
<1>2. QueueTells(q, what) <=> (QueueTells(Tail(q), what) \/ Tells(Head(q).messages, what))
  BY <1>1, QueueTail
<1>3. Tells(r \o Head(q).messages, what) <=> (Tells(r, what) \/ Tells(Head(q).messages, what))
  BY TellsConcat
<1>4. ASSUME NEW v, WillKnow(q, r, what, v)
      PROVE  WillKnow(Tail(q), r \o Head(q).messages, what, v)
  <2>1. CASE QueueTells(Tail(q), what)
    BY <1>2, <1>4, <2>1, QueueTail DEF WillKnow
  <2>2. CASE ~QueueTells(Tail(q), what) /\ Tells(Head(q).messages, what)
    <3>1. Ends(Head(q).messages, what, v)
      BY <1>2, <1>4, <2>2, QueueTail DEF WillKnow
    <3> QED BY <2>2, <3>1, TellsConcat DEF WillKnow
  <2>3. CASE ~QueueTells(Tail(q), what) /\ ~Tells(Head(q).messages, what)
    <3>1. Ends(r, what, v)
      BY <1>2, <1>4, <2>3 DEF WillKnow
    <3> QED BY <2>3, <3>1, TellsConcat DEF WillKnow
  <2> QED BY <2>1, <2>2, <2>3
<1> QED BY <1>2, <1>3, <1>4 DEF UnderWay

LEMMA WayTold ==
    ASSUME NEW q, NEW M, NEW r \in Seq(M), NEW m \in M, NEW what
    PROVE  /\ m.what # what =>
                /\ UnderWay(q, Append(r, m), what) <=> UnderWay(q, r, what)
                /\ \A v : WillKnow(q, r, what, v) => WillKnow(q, Append(r, m), what, v)
           /\ (m.what = what /\ ~QueueTells(q, what)) =>
                /\ UnderWay(q, Append(r, m), what)
                /\ WillKnow(q, Append(r, m), what, m.value)
BY TellsAppend DEF UnderWay, WillKnow

LEMMA WayHeard ==
    ASSUME NEW q, NEW M, NEW r \in Seq(M), r # <<>>, NEW what
    PROVE  /\ UnderWay(q, r, what) <=> (UnderWay(q, Tail(r), what) \/ Head(r).what = what)
           /\ \A v : (UnderWay(q, Tail(r), what) /\ WillKnow(q, r, what, v)) =>
                        WillKnow(q, Tail(r), what, v)
           /\ \A v : (~UnderWay(q, Tail(r), what) /\ WillKnow(q, r, what, v)) =>
                        Head(r).what = what /\ Head(r).value = v
BY TellsTail DEF UnderWay, WillKnow

(***************************************************************************)
(* Types                                                                   *)
(***************************************************************************)
LEMMA MessageTypes ==
    /\ \A m \in Int : /\ Message("mode", m) \in Messages /\ Message("reply", m) \in Messages
                      /\ FromRider("mode", m) \in QueueItems
                      /\ FromRider("request", m) \in QueueItems
    /\ Message("initialized", 1) \in Messages
    /\ \A name \in {"Idle", "Play", "Pause"} : State(name) \in Messages
    /\ \A batch \in Batches : Send(batch) \in QueueItems
    /\ \A m \in Messages : <<m>> \in Batches
    /\ <<State("Play"), State("Pause")>> \in Batches
<1>1. \A m \in Int : /\ Message("mode", m) \in Messages /\ Message("reply", m) \in Messages
                    /\ FromRider("mode", m) \in QueueItems
                    /\ FromRider("request", m) \in QueueItems
  BY DEF Message, Messages, FromRider, QueueItems
<1>2. Message("initialized", 1) \in Messages
  BY DEF Message, Messages
<1>3. \A name \in {"Idle", "Play", "Pause"} :
         State(name) \in Messages /\ State(name).what = "state"
  BY DEF State, Message, Messages, StateNumber
<1>4. \A batch \in Batches : Send(batch) \in QueueItems
  BY DEF Send, QueueItems
<1>5. \A m \in Messages : <<m>> \in Batches
  BY DEF Batches
<1>6. <<State("Play"), State("Pause")>> \in Batches
  <2> DEFINE s == <<State("Play"), State("Pause")>>
  <2>1. s \in Seq(Messages) /\ s # <<>> /\ s[1].what = "state" /\ s[2].what = "state"
        /\ DOMAIN s = {1, 2}
    BY <1>3
  <2> QED BY <2>1 DEF Batches
<1> QED BY <1>1, <1>2, <1>3, <1>4, <1>5, <1>6

LEMMA HeadTypes ==
    ASSUME ControlTypeOK, queue # <<>>
    PROVE  /\ Tail(queue) \in Seq(QueueItems) /\ Head(queue) \in QueueItems
           /\ Head(queue).act \in {"send", "mode", "request"} /\ Head(queue).number \in Int
           /\ Head(queue).act = "send" =>
                Head(queue).messages \in Seq(Messages) /\ Head(queue).messages \in Batches
<1>1. Head(queue) \in QueueItems /\ Tail(queue) \in Seq(QueueItems)
  BY Taken DEF ControlTypeOK
<1>2. \A batch \in Batches : batch \in Seq(Messages)
  BY DEF Batches
<1> QED BY <1>1, <1>2 DEF QueueItems

LEMMA Appends == \A S : \A s \in Seq(S), x \in S : Append(s, x) \in Seq(S)
OBVIOUS

LEMMA ControlTypeInit == ControlInit => ControlTypeOK
<1> SUFFICES ASSUME ControlInit PROVE ControlTypeOK
  OBVIOUS
<1>1. settings \in PlaySettings /\ playMode \in Int
  BY ControlAssumption DEF ControlInit
<1>2. scheduler \in [at : {"idle", "constructs", "retrieved", "edited", "updated"}, mode : Int]
      /\ game \in [at : {"idle", "edited", "retrieved"}, mode : Int]
  BY DEF ControlInit, Idle
<1>3. /\ life = "new" /\ queue = <<>> /\ gameTasks = <<>> /\ toRider = <<>> /\ replies = <<>>
      /\ playState = "Idle" /\ riderState = "Idle" /\ riderMode = 0 /\ asked = 0 /\ inputs = 0
      /\ reported = FALSE /\ riderKnows = FALSE /\ overtaken = FALSE /\ undefined = FALSE
  BY DEF ControlInit
<1>4. "Idle" \in DOMAIN StateNumber
  BY DEF StateNumber
<1>5. \A S : <<>> \in Seq(S)
  OBVIOUS
<1>6. 0 \in Int /\ 0 \in Nat
  OBVIOUS
<1> QED BY ONLY <1>1, <1>2, <1>3, <1>4, <1>5, <1>6 DEF ControlTypeOK

\* What Rider takes the state to be that it is told.
LEMMA StatesAre ==
    /\ DOMAIN StateNumber = {"Idle", "Play", "Pause"}
    /\ \A state \in DOMAIN StateNumber : StateNumber[state] \in 0 .. 2
    /\ \A n \in 0 .. 2 : (CHOOSE state \in DOMAIN StateNumber : StateNumber[state] = n)
                              \in DOMAIN StateNumber
    /\ \A name \in DOMAIN StateNumber :
         (CHOOSE state \in DOMAIN StateNumber : StateNumber[state] = StateNumber[name]) = name
<1>1. DOMAIN StateNumber = {"Idle", "Play", "Pause"} /\ StateNumber["Idle"] = 0
      /\ StateNumber["Play"] = 1 /\ StateNumber["Pause"] = 2
  BY DEF StateNumber
<1>2. \A n \in 0 .. 2 : \E state \in DOMAIN StateNumber : StateNumber[state] = n
  BY <1>1
<1>3. \A a, b \in DOMAIN StateNumber : StateNumber[a] = StateNumber[b] => a = b
  BY <1>1
<1>4. \A n \in 0 .. 2 : (CHOOSE state \in DOMAIN StateNumber : StateNumber[state] = n)
                              \in DOMAIN StateNumber
  BY <1>2
<1>5. \A name \in DOMAIN StateNumber :
         (CHOOSE state \in DOMAIN StateNumber : StateNumber[state] = StateNumber[name]) = name
  BY <1>3
<1> QED BY <1>1, <1>4, <1>5

LEMMA ControlTypeStep == ControlTypeOK /\ [ControlNext]_controlVars => ControlTypeOK'
<1> SUFFICES ASSUME ControlTypeOK, [ControlNext]_controlVars PROVE ControlTypeOK'
  OBVIOUS
<1> USE DEF ControlTypeOK, playVars, riderVars, requestVars
<1>0. /\ playMode \in Int /\ queue \in Seq(QueueItems) /\ toRider \in Seq(Messages)
      /\ gameTasks \in Seq(Int) /\ replies \in Seq(Int) /\ riderMode \in Int
      /\ riderState \in DOMAIN StateNumber
  OBVIOUS
<1>1. CASE Subscribe
  BY <1>1 DEF Subscribe
<1>2. CASE RetrieveSettings \/ GameRetrieves \/ SchedulerRetrieves
  BY <1>2, PackType DEF RetrieveSettings, GameRetrieves, SchedulerRetrieves
<1>3. CASE InitialSync
  <2>1. scheduler.mode \in Int
    OBVIOUS
  <2>2. <<Message("mode", scheduler.mode), Message("initialized", 1)>> \in Seq(Messages)
    BY <2>1, MessageTypes
  <2>3. toRider' \in Seq(Messages)
    BY <1>3, <2>2, ConcatProperties DEF InitialSync
  <2>4. scheduler' \in [at : {"idle", "constructs", "retrieved", "edited", "updated"}, mode : Int]
    BY <1>3 DEF InitialSync, Idle
  <2> QED BY <1>3, <2>1, <2>3, <2>4 DEF InitialSync
<1>4. CASE Reset
  BY <1>4 DEF Reset
<1>5. CASE Edit
  <2>1. settings' \in PlaySettings
    BY <1>5, ControlAssumption DEF Edit
  <2>2. game' \in [at : {"idle", "edited", "retrieved"}, mode : Int]
    BY <1>5 DEF Edit, Idle
  <2>3. inputs' \in Nat /\ overtaken' \in BOOLEAN
    BY <1>5 DEF Edit, Input
  <2> QED BY <1>5, <2>1, <2>2, <2>3 DEF Edit
<1>6. CASE UpdateSettings
  <2>1. Tail(queue) \in Seq(QueueItems) /\ UnpackFromMode(Head(queue).number) \in PlaySettings
    BY <1>6, HeadTypes, UnpackType DEF UpdateSettings, TakesNext
  <2>2. overtaken' \in BOOLEAN
    BY <1>6 DEF UpdateSettings
  <2> QED BY <1>6, <2>1, <2>2 DEF UpdateSettings
<1>7. CASE GameAnnounces
  <2>1. game.mode \in Int
    OBVIOUS
  <2>2. Send(<<Message("mode", game.mode)>>) \in QueueItems
    BY <2>1, MessageTypes
  <2>3. /\ queue' = queue \/ queue' = Append(queue, Send(<<Message("mode", game.mode)>>))
        /\ playMode' = playMode \/ playMode' = game.mode
    BY <1>7 DEF GameAnnounces
  <2>5. queue' \in Seq(QueueItems) /\ playMode' \in Int
    BY ONLY <1>0, <2>1, <2>2, <2>3, Appends
  <2>4. game' \in [at : {"idle", "edited", "retrieved"}, mode : Int]
    BY <1>7 DEF GameAnnounces, Idle
  <2> QED BY <1>7, <2>4, <2>5 DEF GameAnnounces
<1>8. CASE SchedulerAnnounces
  <2>1. scheduler.mode \in Int
    OBVIOUS
  <2>2. Message("mode", scheduler.mode) \in Messages
    BY <2>1, MessageTypes
  <2>4. /\ toRider' = toRider \/ toRider' = Append(toRider, Message("mode", scheduler.mode))
        /\ playMode' = playMode \/ playMode' = scheduler.mode
    BY <1>8 DEF SchedulerAnnounces
  <2>5. toRider' \in Seq(Messages) /\ playMode' \in Int
    BY ONLY <1>0, <2>1, <2>2, <2>4, Appends
  <2>3. scheduler' \in [at : {"idle", "constructs", "retrieved", "edited", "updated"}, mode : Int]
    BY <1>8 DEF SchedulerAnnounces, Idle
  <2> QED BY <1>8, <2>3, <2>5 DEF SchedulerAnnounces
<1>9. CASE PlayEvent
  <2>1. \A state \in DOMAIN StateNumber, messages \in Batches :
           Broadcast(state, messages) => ControlTypeOK'
    <3> SUFFICES ASSUME NEW state \in DOMAIN StateNumber, NEW messages \in Batches,
                        Broadcast(state, messages)
                 PROVE  ControlTypeOK'
      OBVIOUS
    <3>1. queue' \in Seq(QueueItems)
      BY MessageTypes, Appends DEF Broadcast
    <3>2. reported' \in BOOLEAN /\ inputs' \in Nat
      BY DEF Broadcast, Input
    <3> QED BY <3>1, <3>2 DEF Broadcast
  <2> QED BY <1>9, <2>1, StatesAre, MessageTypes
          DEF PlayEvent, BeginPIE, EndPIE, PausePIE, ResumePIE, SingleStepPIE
<1>10. CASE RequestPlayWorldCommand
  <2>1. Tail(queue) \in Seq(QueueItems) /\ Head(queue).number \in Int
        /\ Reply(Head(queue).number) \in Messages
    BY <1>10, HeadTypes, MessageTypes DEF RequestPlayWorldCommand, TakesNext, Reply
  <2>3. /\ gameTasks' = gameTasks \/ gameTasks' = Append(gameTasks, Head(queue).number)
        /\ toRider' = toRider \/ toRider' = Append(toRider, Reply(Head(queue).number))
    BY <1>10 DEF RequestPlayWorldCommand
  <2>2. gameTasks' \in Seq(Int) /\ toRider' \in Seq(Messages)
    BY ONLY <1>0, <2>1, <2>3, Appends
  <2> QED BY <1>10, <2>1, <2>2 DEF RequestPlayWorldCommand
<1>11. CASE TryExecuteAction
  <2>1. Head(gameTasks) \in Int /\ Tail(gameTasks) \in Seq(Int)
    BY <1>11, Taken DEF TryExecuteAction
  <2>2. Send(<<Reply(Head(gameTasks))>>) \in QueueItems
    BY <2>1, MessageTypes DEF Reply
  <2>3. queue' \in Seq(QueueItems)
    BY <1>11, <2>2, Appends DEF TryExecuteAction
  <2>4. undefined' \in BOOLEAN
    BY <1>11 DEF TryExecuteAction
  <2> QED BY <1>11, <2>1, <2>3, <2>4 DEF TryExecuteAction
<1>12. CASE RunSend
  <2>1. Tail(queue) \in Seq(QueueItems) /\ Head(queue).messages \in Seq(Messages)
    BY <1>12, HeadTypes DEF RunSend, TakesNext
  <2>2. toRider' \in Seq(Messages)
    BY <1>12, <2>1, ConcatProperties DEF RunSend
  <2> QED BY <1>12, <2>1, <2>2 DEF RunSend
<1>13. CASE RunUnheard
  <2>1. Tail(queue) \in Seq(QueueItems)
    BY <1>13, HeadTypes DEF RunUnheard, TakesNext
  <2> QED BY <1>13, <2>1 DEF RunUnheard
<1>14. CASE RiderHears
  <2> DEFINE message == Head(toRider)
  <2>1. message \in Messages /\ Tail(toRider) \in Seq(Messages)
    BY <1>14, Taken DEF RiderHears
  <2>2. /\ message.value \in Int
        /\ message.what = "state" => message.value \in 0 .. 2
    BY <2>1 DEF Messages
  <2>3. /\ riderMode' = message.value \/ riderMode' = riderMode
        /\ riderKnows' \in BOOLEAN
        /\ toRider' = Tail(toRider)
        /\ UNCHANGED <<life, settings, playMode, queue, scheduler, game, gameTasks,
                       playVars, asked, inputs, overtaken, undefined>>
    BY <1>14 DEF RiderHears
  <2>4. replies' = replies \/ replies' = Append(replies, message.value)
    BY <1>14 DEF RiderHears
  <2>5. \/ riderState' = riderState
        \/ /\ message.what = "state"
           /\ riderState' = CHOOSE state \in DOMAIN StateNumber :
                              StateNumber[state] = message.value
    BY <1>14 DEF RiderHears
  <2> HIDE DEF message
  <2>6. riderState' \in DOMAIN StateNumber
    <3> DEFINE shown(n) == CHOOSE state \in DOMAIN StateNumber : StateNumber[state] = n
    <3>1. \A n \in 0 .. 2 : shown(n) \in DOMAIN StateNumber
      BY ONLY StatesAre
    <3>2. riderState' = riderState \/ (message.what = "state" /\ riderState' = shown(message.value))
      BY <2>5
    <3> HIDE DEF shown
    <3> QED BY ONLY <1>0, <2>2, <3>1, <3>2
  <2>7. replies' \in Seq(Int)
    BY ONLY <1>0, <2>2, <2>4, Appends
  <2>8. riderMode' \in Int
    BY ONLY <1>0, <2>2, <2>3
  <2> QED BY <2>1, <2>3, <2>6, <2>7, <2>8
<1>15. CASE RiderChangesMode
  <2>1. riderMode' \in Int /\ queue' = Append(queue, FromRider("mode", riderMode'))
    BY <1>15, ControlAssumption DEF RiderChangesMode
  <2>2. queue' \in Seq(QueueItems) /\ inputs' \in Nat
    BY <1>15, <2>1, MessageTypes, Appends DEF RiderChangesMode, Input
  <2> QED BY <1>15, <2>1, <2>2 DEF RiderChangesMode
<1>16. CASE RiderRequests
  <2>1. asked' \in Nat /\ inputs' \in Nat /\ asked + 1 \in Int
    BY <1>16 DEF RiderRequests, Input
  <2>2. queue' \in Seq(QueueItems)
    BY <1>16, <2>1, MessageTypes, Appends DEF RiderRequests
  <2> QED BY <1>16, <2>1, <2>2 DEF RiderRequests
<1>17. CASE UNCHANGED controlVars
  BY <1>17 DEF controlVars
<1> QED BY <1>1, <1>2, <1>3, <1>4, <1>5, <1>6, <1>7, <1>8, <1>9, <1>10, <1>11, <1>12,
           <1>13, <1>14, <1>15, <1>16, <1>17
        DEF ControlNext, GameThread, SchedulerThread

(***************************************************************************)
(* What a step leaves under way                                            *)
(***************************************************************************)
WayStays(what) ==
    /\ UnderWay(queue', toRider', what) <=> UnderWay(queue, toRider, what)
    /\ \A v : WillKnow(queue, toRider, what, v) => WillKnow(queue', toRider', what, v)

LEMMA Batchwise ==
    ASSUME NEW what
    PROVE  /\ \A m : Says(Send(<<m>>), what) <=> m.what = what
           /\ \A m : m.what = what => Ends(Send(<<m>>).messages, what, m.value)
           /\ \A act, n : act # "send" => ~Says(FromRider(act, n), what)
           /\ LET both == Send(<<State("Play"), State("Pause")>>) IN
              /\ Says(both, what) <=> what = "state"
              /\ what = "state" => Ends(both.messages, what, StateNumber["Pause"])
<1>1. \A m : DOMAIN <<m>> = {1} /\ <<m>>[1] = m
  OBVIOUS
<1>2. \A messages : Send(messages).act = "send" /\ Send(messages).messages = messages
  BY DEF Send
<1>3. \A m : Says(Send(<<m>>), what) <=> m.what = what
  <2> SUFFICES ASSUME NEW m PROVE Says(Send(<<m>>), what) <=> m.what = what
    OBVIOUS
  <2>1. Tells(<<m>>, what) <=> m.what = what
    BY <1>1 DEF Tells
  <2> QED BY <1>2, <2>1 DEF Says
<1>4. \A m : m.what = what => Ends(Send(<<m>>).messages, what, m.value)
  <2> SUFFICES ASSUME NEW m, m.what = what PROVE Ends(Send(<<m>>).messages, what, m.value)
    OBVIOUS
  <2>1. Ends(<<m>>, what, m.value)
    BY <1>1 DEF Ends
  <2> QED BY <1>2, <2>1
<1>5. \A act, n : act # "send" => ~Says(FromRider(act, n), what)
  BY DEF Says, FromRider
<1>6. LET both == Send(<<State("Play"), State("Pause")>>) IN
      /\ Says(both, what) <=> what = "state"
      /\ what = "state" => Ends(both.messages, what, StateNumber["Pause"])
  <2> DEFINE s == <<State("Play"), State("Pause")>>
  <2>1. /\ DOMAIN s = {1, 2} /\ s[1].what = "state" /\ s[2].what = "state"
        /\ s[2].value = StateNumber["Pause"]
    BY DEF State, Message
  <2> HIDE DEF s
  <2>2. Tells(s, what) <=> what = "state"
    BY <2>1 DEF Tells
  <2>3. what = "state" => Ends(s, what, StateNumber["Pause"])
    BY <2>1 DEF Ends
  <2>4. Says(Send(s), what) <=> what = "state"
    BY <1>2, <2>2 DEF Says
  <2>5. Send(s).messages = s
    BY <1>2
  <2> QED BY <2>3, <2>4, <2>5 DEF s
<1> QED BY <1>3, <1>4, <1>5, <1>6

LEMMA WayKept ==
    ASSUME ControlTypeOK, NEW what \in {"state", "mode"}
    PROVE  /\ RunSend => WayStays(what)
           /\ UpdateSettings \/ RequestPlayWorldCommand \/ TryExecuteAction => WayStays(what)
           /\ RiderChangesMode \/ RiderRequests => WayStays(what)
           /\ (PlayEvent /\ what = "mode") => WayStays(what)
           /\ (GameAnnounces /\ what = "state") => WayStays(what)
           /\ (SchedulerAnnounces /\ what = "state") => WayStays(what)
           /\ (InitialSync /\ what = "state") => WayStays(what)
<1>0. /\ queue \in Seq(QueueItems) /\ toRider \in Seq(Messages) /\ gameTasks \in Seq(Int)
      /\ asked \in Int /\ scheduler.mode \in Int /\ game.mode \in Int
  BY DEF ControlTypeOK
\* An item for the queue that says nothing about it.
<1>1. ASSUME NEW item \in QueueItems, ~Says(item, what), queue' = Append(queue, item),
             toRider' = toRider
      PROVE  WayStays(what)
  BY <1>0, <1>1, WayPut DEF WayStays
<1>2. ASSUME NEW message \in Messages, message.what # what, queue' = queue,
             toRider' = Append(toRider, message)
      PROVE  WayStays(what)
  BY <1>0, <1>2, WayTold DEF WayStays
<1>3. ASSUME queue # <<>>, Head(queue).act # "send", queue' = Tail(queue), toRider' = toRider
      PROVE  WayStays(what)
  BY <1>0, <1>3, WayDropped DEF WayStays, Says
<1>4. \A m \in Int : /\ Message("mode", m) \in Messages /\ Message("mode", m).what = "mode"
                     /\ Reply(m) \in Messages /\ Reply(m).what = "reply"
  BY MessageTypes DEF Reply, Message
<1>5. \A m \in Messages : /\ Send(<<m>>) \in QueueItems
                          /\ m.what # what => ~Says(Send(<<m>>), what)
  BY MessageTypes, Batchwise
<1>6. UNCHANGED <<queue, toRider>> => WayStays(what)
  BY DEF WayStays
<1>7. CASE RunSend
  <2>1. /\ queue # <<>> /\ Head(queue).act = "send" /\ Head(queue).messages \in Seq(Messages)
        /\ queue' = Tail(queue) /\ toRider' = toRider \o Head(queue).messages
    BY <1>7, HeadTypes DEF RunSend, TakesNext
  <2> QED BY <1>0, <2>1, WaySent DEF WayStays
<1>8. CASE UpdateSettings
  BY <1>3, <1>8 DEF UpdateSettings, TakesNext
<1>9. CASE RequestPlayWorldCommand
  <2>1. /\ queue # <<>> /\ Head(queue).act = "request" /\ queue' = Tail(queue)
        /\ toRider' = toRider \/ toRider' = Append(toRider, Reply(Head(queue).number))
        /\ Head(queue).number \in Int
    BY <1>9, HeadTypes DEF RequestPlayWorldCommand, TakesNext
  <2>2. CASE toRider' = toRider
    BY <1>3, <2>1, <2>2
  <2>3. CASE toRider' = Append(toRider, Reply(Head(queue).number))
    <3> DEFINE message == Reply(Head(queue).number)
    <3>1. message \in Messages /\ message.what # what
      BY <1>4, <2>1
    <3>2. Tail(queue) \in Seq(QueueItems) /\ ~Says(Head(queue), what)
      BY <1>0, <2>1, HeadTypes DEF Says
    <3> HIDE DEF message
    <3>3. /\ UnderWay(Tail(queue), toRider, what) <=> UnderWay(queue, toRider, what)
          /\ \A v : WillKnow(queue, toRider, what, v) => WillKnow(Tail(queue), toRider, what, v)
      BY <1>0, <2>1, <3>2, WayDropped
    <3>4. /\ UnderWay(Tail(queue), Append(toRider, message), what) <=>
               UnderWay(Tail(queue), toRider, what)
          /\ \A v : WillKnow(Tail(queue), toRider, what, v) =>
                       WillKnow(Tail(queue), Append(toRider, message), what, v)
      BY <1>0, <3>1, WayTold
    <3>5. queue' = Tail(queue) /\ toRider' = Append(toRider, message)
      BY <2>1, <2>3 DEF message
    <3> QED BY <3>3, <3>4, <3>5 DEF WayStays
  <2> QED BY <2>1, <2>2, <2>3
<1>10. CASE TryExecuteAction
  <2>1. /\ queue' = Append(queue, Send(<<Reply(Head(gameTasks))>>)) /\ toRider' = toRider
        /\ Head(gameTasks) \in Int
    BY <1>0, <1>10, Taken DEF TryExecuteAction
  <2>2. Reply(Head(gameTasks)) \in Messages /\ Reply(Head(gameTasks)).what # what
    BY <1>4, <2>1
  <2> QED BY <1>1, <1>5, <2>1, <2>2
<1>11. CASE RiderChangesMode \/ RiderRequests
  <2>1. PICK act \in {"mode", "request"}, n \in Int :
             queue' = Append(queue, FromRider(act, n)) /\ toRider' = toRider
    <3>1. \A mode \in RiderModes : mode \in Int
      BY ControlAssumption
    <3> QED BY <1>0, <1>11, <3>1 DEF RiderChangesMode, RiderRequests
  <2>2. FromRider(act, n) \in QueueItems /\ ~Says(FromRider(act, n), what)
    BY MessageTypes, Batchwise
  <2> QED BY <1>1, <2>1, <2>2
<1>12. CASE PlayEvent /\ what = "mode"
  <2>1. \E batch \in {<<State("Play")>>, <<State("Idle")>>, <<State("Pause")>>,
                      <<State("Play"), State("Pause")>>} :
           queue' = queue \/ queue' = Append(queue, Send(batch))
    BY <1>12 DEF PlayEvent, BeginPIE, EndPIE, PausePIE, ResumePIE, SingleStepPIE, Broadcast
  <2>2. toRider' = toRider
    BY <1>12 DEF PlayEvent, BeginPIE, EndPIE, PausePIE, ResumePIE, SingleStepPIE, Broadcast
  <2>3. \A batch \in {<<State("Play")>>, <<State("Idle")>>, <<State("Pause")>>,
                      <<State("Play"), State("Pause")>>} :
           Send(batch) \in QueueItems /\ ~Says(Send(batch), what)
    <3>1. \A name \in {"Idle", "Play", "Pause"} : State(name).what = "state"
      BY DEF State, Message
    <3> QED BY <1>5, <1>12, <3>1, MessageTypes, Batchwise
  <2> QED BY <1>1, <1>6, <2>1, <2>2, <2>3
<1>13. CASE GameAnnounces /\ what = "state"
  <2>1. /\ queue' = queue \/ queue' = Append(queue, Send(<<Message("mode", game.mode)>>))
        /\ toRider' = toRider
    BY <1>13 DEF GameAnnounces
  <2> QED BY <1>0, <1>1, <1>4, <1>5, <1>6, <1>13, <2>1
<1>14. CASE SchedulerAnnounces /\ what = "state"
  <2>1. /\ toRider' = toRider \/ toRider' = Append(toRider, Message("mode", scheduler.mode))
        /\ queue' = queue
    BY <1>14 DEF SchedulerAnnounces
  <2> QED BY <1>0, <1>2, <1>4, <1>6, <1>14, <2>1
<1>15. CASE InitialSync /\ what = "state"
  <2> DEFINE first == Message("mode", scheduler.mode)
             second == Message("initialized", 1)
  <2>1. /\ first \in Messages /\ first.what # what /\ second \in Messages /\ second.what # what
    BY <1>0, <1>15, MessageTypes DEF Message
  <2>2. toRider' = toRider \o <<first, second>> /\ queue' = queue
    BY <1>15 DEF InitialSync
  <2> HIDE DEF first, second
  <2>3. toRider \o <<first, second>> = Append(Append(toRider, first), second)
        /\ Append(toRider, first) \in Seq(Messages)
    BY <1>0, <2>1
  <2>4. /\ UnderWay(queue, Append(toRider, first), what) <=> UnderWay(queue, toRider, what)
        /\ \A v : WillKnow(queue, toRider, what, v) =>
                     WillKnow(queue, Append(toRider, first), what, v)
    BY <1>0, <2>1, WayTold
  <2>5. /\ UnderWay(queue, Append(Append(toRider, first), second), what) <=>
             UnderWay(queue, Append(toRider, first), what)
        /\ \A v : WillKnow(queue, Append(toRider, first), what, v) =>
                     WillKnow(queue, Append(Append(toRider, first), second), what, v)
    BY <2>1, <2>3, WayTold
  <2> QED BY <2>2, <2>3, <2>4, <2>5 DEF WayStays
<1> QED BY <1>7, <1>8, <1>9, <1>10, <1>11, <1>12, <1>13, <1>14, <1>15

(***************************************************************************)
(* What the editor plays                                                   *)
(***************************************************************************)
LEMMA ShownInit == ControlInit => PlayInv /\ SettingsInv
<1> SUFFICES ASSUME ControlInit PROVE PlayInv /\ SettingsInv
  OBVIOUS
<1>1. /\ life = "new" /\ queue = <<>> /\ scheduler = Idle /\ game = Idle /\ toRider = <<>>
      /\ gameTasks = <<>> /\ riderKnows = FALSE /\ reported = FALSE /\ Idle.at = "idle"
  BY DEF ControlInit, Idle
<1> QED BY ONLY <1>1 DEF PlayInv, SettingsInv, Listens

LEMMA PlayStep ==
    ControlTypeOK /\ PlayInv /\ SettingsInv /\ [ControlNext]_controlVars => PlayInv'
<1> SUFFICES ASSUME ControlTypeOK, PlayInv, SettingsInv, [ControlNext]_controlVars PROVE PlayInv'
  OBVIOUS
<1>0. /\ queue \in Seq(QueueItems) /\ toRider \in Seq(Messages)
      /\ life \in {"new", "subscribed", "up", "down"} /\ playState \in DOMAIN StateNumber
  BY DEF ControlTypeOK
<1>1. ASSUME WayStays("state"), UNCHANGED <<reported, playState, riderState>>,
             Listens' => Listens, life' = "new" => life = "new"
      PROVE  PlayInv'
  BY <1>1 DEF PlayInv, WayStays
<1>2. CASE Subscribe
  BY <1>2 DEF Subscribe, PlayInv, playVars
<1>3. CASE Reset
  BY <1>3 DEF Reset, PlayInv, Listens
<1>4. CASE InitialSync
  <2>1. Listens /\ life' = "up"
    BY <1>4 DEF InitialSync, SettingsInv, Listens
  <2>2. WayStays("state")
    BY <1>4, WayKept
  <2> QED BY <1>1, <1>4, <2>1, <2>2 DEF InitialSync, playVars, riderVars
<1>5. CASE GameAnnounces \/ SchedulerAnnounces
  <2>1. WayStays("state")
    BY <1>5, WayKept
  <2> QED BY <1>1, <1>5, <2>1 DEF GameAnnounces, SchedulerAnnounces, Listens, playVars, riderVars
<1>6. CASE UpdateSettings \/ RequestPlayWorldCommand \/ TryExecuteAction \/ RunSend
            \/ RiderChangesMode \/ RiderRequests
  <2>1. WayStays("state")
    BY <1>6, WayKept
  <2>2. UNCHANGED <<life, reported, playState, riderState>>
    BY <1>6 DEF UpdateSettings, RequestPlayWorldCommand, TryExecuteAction, RunSend,
                RiderChangesMode, RiderRequests, playVars, riderVars, TakesNext, Input
  <2> QED BY <1>1, <2>1, <2>2 DEF Listens
<1>7. CASE PlayEvent
  <2>1. ASSUME NEW state \in DOMAIN StateNumber, NEW batch, Broadcast(state, batch),
               Send(batch) \in QueueItems, Says(Send(batch), "state"),
               Ends(Send(batch).messages, "state", StateNumber[state])
        PROVE  PlayInv'
    <3>1. life' = life /\ toRider' = toRider /\ playState' = state
          /\ reported' = (reported \/ Listens)
      BY <2>1 DEF Broadcast
    <3>2. CASE Listens
      <4>1. queue' = Append(queue, Send(batch))
        BY <2>1, <3>2 DEF Broadcast
      <4>2. UnderWay(queue', toRider', "state")
            /\ WillKnow(queue', toRider', "state", StateNumber[state])
        BY <1>0, <2>1, <3>1, <4>1, WayPut
      <4>3. life # "new"
        BY <3>2 DEF Listens
      <4> QED BY <3>1, <4>2, <4>3 DEF PlayInv
    <3>3. CASE ~Listens
      BY <3>1, <3>3 DEF PlayInv, Listens
    <3> QED BY <3>2, <3>3
  <2>2. \A name \in DOMAIN StateNumber :
          /\ State(name) \in Messages /\ State(name).what = "state"
          /\ State(name).value = StateNumber[name]
    BY StatesAre, MessageTypes DEF State, Message
  <2>3. ASSUME NEW name \in DOMAIN StateNumber, Broadcast(name, <<State(name)>>)
        PROVE  PlayInv'
    <3>1. /\ Send(<<State(name)>>) \in QueueItems /\ Says(Send(<<State(name)>>), "state")
          /\ Ends(Send(<<State(name)>>).messages, "state", StateNumber[name])
      BY <2>2, MessageTypes, Batchwise
    <3> QED BY <2>1, <2>3, <3>1
  <2>4. ASSUME Broadcast("Pause", <<State("Play"), State("Pause")>>)
        PROVE  PlayInv'
    <3> DEFINE batch == <<State("Play"), State("Pause")>>
    <3>1. /\ Send(batch) \in QueueItems /\ Says(Send(batch), "state")
          /\ Ends(Send(batch).messages, "state", StateNumber["Pause"])
      BY MessageTypes, Batchwise
    <3>2. "Pause" \in DOMAIN StateNumber /\ Broadcast("Pause", batch)
      BY <2>4, StatesAre
    <3> HIDE DEF batch
    <3> QED BY <2>1, <3>1, <3>2
  <2> QED BY <1>7, <2>3, <2>4, StatesAre
          DEF PlayEvent, BeginPIE, EndPIE, PausePIE, ResumePIE, SingleStepPIE
<1>8. CASE RunUnheard
  BY <1>8 DEF RunUnheard, PlayInv, Listens
<1>9. CASE RiderHears
  <2> DEFINE message == Head(toRider)
             shown(n) == CHOOSE state \in DOMAIN StateNumber : StateNumber[state] = n
  <2>1. /\ toRider # <<>> /\ toRider' = Tail(toRider)
        /\ riderState' = IF message.what = "state" THEN shown(message.value) ELSE riderState
        /\ UNCHANGED <<queue, life, reported, playState>>
    BY <1>9 DEF RiderHears, playVars
  <2>2. /\ UnderWay(queue, toRider, "state") <=>
             (UnderWay(queue', toRider', "state") \/ message.what = "state")
        /\ \A v : (UnderWay(queue', toRider', "state") /\ WillKnow(queue, toRider, "state", v)) =>
                     WillKnow(queue', toRider', "state", v)
        /\ \A v : (~UnderWay(queue', toRider', "state") /\ WillKnow(queue, toRider, "state", v)) =>
                     message.what = "state" /\ message.value = v
    BY <1>0, <2>1, WayHeard
  <2>3. shown(StateNumber[playState]) = playState
    BY <1>0, StatesAre
  <2> HIDE DEF message, shown
  <2> QED BY <2>1, <2>2, <2>3 DEF PlayInv, Listens
<1>10. CASE RetrieveSettings \/ GameRetrieves \/ SchedulerRetrieves \/ Edit
             \/ UNCHANGED controlVars
  <2>1. UNCHANGED <<life, reported, playState, riderState, queue, toRider>>
    BY <1>10 DEF RetrieveSettings, GameRetrieves, SchedulerRetrieves, Edit, Input, playVars,
                 riderVars, controlVars
  <2> QED BY <2>1 DEF PlayInv, Listens
<1> QED BY <1>2, <1>3, <1>4, <1>5, <1>6, <1>7, <1>8, <1>9, <1>10
        DEF ControlNext, GameThread, SchedulerThread

(***************************************************************************)
(* The settings                                                            *)
(***************************************************************************)
\* A batch is about one thing, and its first message tells what.
LEMMA ModesWait ==
    ASSUME ControlTypeOK PROVE QueueTells(queue, "mode") => ModeWaits
<1> SUFFICES ASSUME QueueTells(queue, "mode") PROVE ModeWaits
  OBVIOUS
<1>1. PICK i \in DOMAIN queue : queue[i].act = "send" /\ Tells(queue[i].messages, "mode")
  BY DEF QueueTells, Says
<1>2. queue[i] \in QueueItems
  BY DEF ControlTypeOK
<1>3. queue[i].messages \in Batches
  BY <1>1, <1>2 DEF QueueItems
<1>4. queue[i].messages[1].what = "mode"
  BY <1>1, <1>3 DEF Batches, Tells
<1> QED BY <1>1, <1>4 DEF ModeWaits

LEMMA SettingsStep ==
    ControlTypeOK /\ SettingsInv /\ [ControlNext]_controlVars => SettingsInv'
<1> SUFFICES ASSUME ControlTypeOK, SettingsInv, [ControlNext]_controlVars PROVE SettingsInv'
  OBVIOUS
<1>0. /\ queue \in Seq(QueueItems) /\ toRider \in Seq(Messages) /\ settings \in PlaySettings
      /\ life \in {"new", "subscribed", "up", "down"} /\ gameTasks \in Seq(Int)
      /\ overtaken \in BOOLEAN /\ riderMode \in Int /\ playMode \in Int
      /\ scheduler.mode \in Int /\ game.mode \in Int
  BY DEF ControlTypeOK
<1>1. Idle.at = "idle"
  BY DEF Idle
\* A step that only moves what is under way.
<1>2. ASSUME UNCHANGED <<life, settings, playMode, scheduler, game, riderMode, overtaken>>,
             life # "new", WayStays("mode"),
             scheduler = Idle \/ (QueueTells(queue', "mode") => QueueTells(queue, "mode")),
             LastAsked(queue, riderMode) => LastAsked(queue', riderMode)
      PROVE  SettingsInv'
  <2>1. (Listens /\ ~overtaken) => BusyInv'
    BY <1>2 DEF SettingsInv, BusyInv
  <2>2. (life = "up" /\ ~overtaken) => ShownInv'
    BY <1>2 DEF SettingsInv, ShownInv, WayStays
  <2> QED BY <1>2, <2>1, <2>2 DEF SettingsInv, Listens
\* What is put into the queue that says nothing about the mode.
<1>3. ASSUME NEW item \in QueueItems, ~Says(item, "mode"), item.act # "mode",
             queue' = Append(queue, item)
      PROVE  /\ QueueTells(queue', "mode") => QueueTells(queue, "mode")
             /\ LastAsked(queue, riderMode) => LastAsked(queue', riderMode)
  BY <1>0, <1>3, QueueAppend
<1>4. CASE Subscribe
  <2>1. /\ life' = "subscribed" /\ scheduler' = [at |-> "constructs", mode |-> 0]
        /\ life = "new" /\ UNCHANGED <<game, queue>>
    BY <1>4 DEF Subscribe
  <2>2. game = Idle /\ queue = <<>>
    BY <2>1 DEF SettingsInv
  <2>3. ~QueueTells(queue, "mode")
    BY <2>2 DEF QueueTells
  <2> QED BY <1>1, <2>1, <2>2, <2>3 DEF SettingsInv, BusyInv
<1>5. CASE RetrieveSettings
  <2>1. /\ scheduler.at = "constructs"
        /\ scheduler' = [at |-> "retrieved", mode |-> PackToMode(settings)]
        /\ UNCHANGED <<life, settings, queue, game, overtaken>>
    BY <1>5 DEF RetrieveSettings
  <2> QED BY <1>1, <2>1 DEF SettingsInv, BusyInv, Listens
<1>6. CASE InitialSync
  <2> DEFINE first == Message("mode", scheduler.mode)
             second == Message("initialized", 1)
  <2>1. /\ scheduler.at = "retrieved" /\ life' = "up" /\ scheduler' = Idle
        /\ playMode' = scheduler.mode /\ toRider' = toRider \o <<first, second>>
        /\ UNCHANGED <<settings, queue, game, overtaken>>
    BY <1>6 DEF InitialSync
  <2>2. life = "subscribed" /\ scheduler # Idle
    BY <1>1, <2>1 DEF SettingsInv
  <2>3. ~overtaken => /\ ~QueueTells(queue, "mode") /\ game = Idle
                      /\ scheduler.mode = PackToMode(settings)
    BY <2>1, <2>2 DEF SettingsInv, BusyInv, Listens
  <2>4. /\ first \in Messages /\ first.what = "mode" /\ first.value = scheduler.mode
        /\ second \in Messages /\ second.what # "mode"
    BY <1>0, MessageTypes DEF Message
  <2> HIDE DEF first, second
  <2>5. toRider' = Append(Append(toRider, first), second)
        /\ Append(toRider, first) \in Seq(Messages)
    BY <1>0, <2>1, <2>4
  <2>6. ~overtaken => /\ UnderWay(queue, Append(toRider, first), "mode")
                      /\ WillKnow(queue, Append(toRider, first), "mode", scheduler.mode)
    BY <1>0, <2>3, <2>4, WayTold
  <2>7. ~overtaken => /\ UnderWay(queue, Append(Append(toRider, first), second), "mode")
                      /\ WillKnow(queue, Append(Append(toRider, first), second), "mode",
                                  scheduler.mode)
    BY <2>4, <2>5, <2>6, WayTold
  <2>8. ~overtaken => BusyInv' /\ ShownInv'
    BY <1>1, <2>1, <2>3, <2>5, <2>7 DEF BusyInv, ShownInv, SettingsInv
  <2> QED BY <1>1, <2>1, <2>8 DEF SettingsInv
<1>7. CASE Reset
  <2>1. life = "up" /\ life' = "down" /\ scheduler = Idle /\ UNCHANGED <<scheduler, game>>
    BY <1>7 DEF Reset
  <2> QED BY <1>1, <2>1 DEF SettingsInv, Listens
<1>8. CASE Edit
  <2>1. /\ game = Idle /\ game' = IF Listens THEN [at |-> "edited", mode |-> 0] ELSE Idle
        /\ overtaken' = (overtaken \/ (Listens /\ scheduler # Idle))
        /\ UNCHANGED <<life, playMode, queue, scheduler, toRider, gameTasks, riderMode, riderKnows>>
    BY <1>8 DEF Edit, riderVars, requestVars
  <2>2. CASE life = "new"
    BY <1>1, <2>1, <2>2 DEF SettingsInv, Listens
  <2>3. CASE life # "new"
    <3>1. Listens /\ ~overtaken' => ~overtaken /\ scheduler = Idle /\ game'.at = "edited"
      BY <1>0, <2>1
    <3>2. Listens /\ ~overtaken' => BusyInv'
      BY <1>1, <2>1, <3>1 DEF BusyInv
    <3>3. life = "up" /\ ~overtaken' => ShownInv'
      BY <1>1, <2>1, <3>1 DEF SettingsInv, ShownInv, Listens
    <3>4. game'.at = "idle" <=> game' = Idle
      BY <1>1, <2>1
    <3> QED BY <2>1, <2>3, <3>2, <3>3, <3>4 DEF SettingsInv, Listens
  <2> QED BY <2>2, <2>3
<1>9. CASE UpdateSettings
  <2>1. /\ scheduler = Idle /\ queue # <<>> /\ Head(queue).act = "mode" /\ life = "up"
        /\ queue' = Tail(queue) /\ settings' = UnpackFromMode(Head(queue).number)
        /\ scheduler' = [at |-> "edited", mode |-> 0]
        /\ overtaken' = (overtaken \/ game # Idle \/ ModeWaits)
        /\ UNCHANGED <<life, playMode, game, riderMode>>
    BY <1>9 DEF UpdateSettings, TakesNext, riderVars
  <2>2. ASSUME ~overtaken' PROVE BusyInv' /\ ShownInv'
    <3>1. ~overtaken /\ game = Idle /\ ~QueueTells(queue, "mode")
      BY <2>1, <2>2, ModesWait
    <3>2. ~QueueTells(Tail(queue), "mode")
      BY <1>0, <2>1, <3>1, QueueTail
    <3>3. WayStays("mode") /\ ShownInv
      BY <1>9, <2>1, <3>1, WayKept DEF SettingsInv
    <3>4. LastAsked(queue, riderMode) =>
            LastAsked(queue', riderMode) \/ settings' = UnpackFromMode(riderMode)
      BY <1>0, <2>1, QueueTail
    <3>5. BusyInv'
      BY <1>1, <2>1, <3>1, <3>2 DEF BusyInv
    <3>6. ShownInv'
      BY <1>1, <2>1, <3>1, <3>3, <3>4 DEF ShownInv, WayStays
    <3> QED BY <3>5, <3>6
  <2> QED BY <1>1, <2>1, <2>2 DEF SettingsInv
<1>10. CASE GameRetrieves
  <2>1. /\ game.at = "edited" /\ game' = [at |-> "retrieved", mode |-> PackToMode(settings)]
        /\ UNCHANGED <<life, settings, playMode, queue, scheduler, toRider, riderMode, overtaken>>
    BY <1>10 DEF GameRetrieves, riderVars
  <2>2. game # Idle /\ life # "new"
    BY <1>1, <2>1 DEF SettingsInv
  <2>3. Listens /\ ~overtaken => BusyInv'
    BY <1>1, <2>1, <2>2 DEF SettingsInv, BusyInv
  <2>4. life = "up" /\ ~overtaken => ShownInv'
    BY <1>1, <2>1 DEF SettingsInv, ShownInv
  <2> QED BY <1>1, <2>1, <2>2, <2>3, <2>4 DEF SettingsInv, Listens
<1>11. CASE GameAnnounces
  <2>1. /\ game.at = "retrieved" /\ game' = Idle
        /\ UNCHANGED <<life, settings, scheduler, toRider, riderMode, overtaken>>
    BY <1>11 DEF GameAnnounces, riderVars
  <2>2. game # Idle /\ life # "new"
    BY <1>1, <2>1 DEF SettingsInv
  <2>3. ASSUME Listens, ~overtaken
        PROVE  scheduler = Idle /\ game.mode = PackToMode(settings)
    BY <2>1, <2>2, <2>3 DEF SettingsInv, BusyInv
  <2>4. Listens /\ ~overtaken => BusyInv'
    BY <1>1, <2>1, <2>3 DEF BusyInv
  <2>5. ASSUME life = "up", ~overtaken PROVE ShownInv'
    <3>1. playMode' = game.mode /\ scheduler = Idle /\ playMode' = PackToMode(settings)
      BY <1>11, <2>3, <2>5 DEF GameAnnounces, Listens
    <3>2. CASE game.mode = playMode
      <4>1. UNCHANGED <<playMode, queue>>
        BY <1>11, <3>2 DEF GameAnnounces
      <4> QED BY <2>1, <2>5, <3>1, <4>1 DEF SettingsInv, ShownInv
    <3>3. CASE game.mode # playMode
      <4> DEFINE message == Message("mode", game.mode)
      <4>1. queue' = Append(queue, Send(<<message>>))
        BY <1>11, <3>3 DEF GameAnnounces
      <4>2. message \in Messages /\ message.what = "mode" /\ message.value = game.mode
        BY <1>0, MessageTypes DEF Message
      <4> HIDE DEF message
      <4>3. /\ Send(<<message>>) \in QueueItems /\ Says(Send(<<message>>), "mode")
            /\ Ends(Send(<<message>>).messages, "mode", game.mode)
        BY <4>2, MessageTypes, Batchwise
      <4>4. /\ UnderWay(queue', toRider, "mode") /\ WillKnow(queue', toRider, "mode", game.mode)
        BY <1>0, <4>1, <4>3, WayPut
      <4> QED BY <2>1, <3>1, <4>4 DEF ShownInv
    <3> QED BY <3>2, <3>3
  <2> QED BY <1>1, <2>1, <2>2, <2>4, <2>5 DEF SettingsInv, Listens
<1>12. CASE SchedulerRetrieves
  <2>1. /\ scheduler.at = "edited"
        /\ scheduler' = [at |-> "updated", mode |-> PackToMode(settings)]
        /\ UNCHANGED <<life, settings, playMode, queue, game, toRider, riderMode, overtaken>>
    BY <1>12 DEF SchedulerRetrieves, riderVars
  <2>2. scheduler # Idle /\ life \notin {"new", "subscribed"}
    BY <1>1, <2>1 DEF SettingsInv
  <2>3. Listens /\ ~overtaken => BusyInv'
    BY <1>1, <2>1, <2>2 DEF SettingsInv, BusyInv
  <2>4. life = "up" /\ ~overtaken => ShownInv'
    BY <1>1, <2>1 DEF SettingsInv, ShownInv
  <2> QED BY <1>1, <2>1, <2>2, <2>3, <2>4 DEF SettingsInv, Listens
<1>13. CASE SchedulerAnnounces
  <2>1. /\ scheduler.at = "updated" /\ scheduler' = Idle
        /\ UNCHANGED <<life, settings, queue, game, riderMode, overtaken>>
    BY <1>13 DEF SchedulerAnnounces, riderVars
  <2>2. scheduler # Idle /\ life \notin {"new", "subscribed"}
    BY <1>1, <2>1 DEF SettingsInv
  <2>3. ASSUME Listens, ~overtaken
        PROVE  /\ ~QueueTells(queue, "mode") /\ game = Idle
               /\ scheduler.mode = PackToMode(settings)
    BY <2>1, <2>2, <2>3 DEF SettingsInv, BusyInv
  <2>4. Listens /\ ~overtaken => BusyInv'
    BY <1>1, <2>1, <2>3 DEF BusyInv
  <2>5. ASSUME life = "up", ~overtaken PROVE ShownInv'
    <3>1. playMode' = scheduler.mode /\ playMode' = PackToMode(settings)
      BY <1>13, <2>3, <2>5 DEF SchedulerAnnounces, Listens
    <3>2. CASE scheduler.mode = playMode
      <4>1. UNCHANGED <<playMode, toRider>>
        BY <1>13, <3>2 DEF SchedulerAnnounces
      <4>2. settings = UnpackFromMode(riderMode) =>
              UnpackFromMode(riderMode) = UnpackFromMode(playMode)
        BY <1>0, <3>1, <4>1, UnpackFixed
      <4> QED BY <2>1, <2>5, <3>1, <4>1, <4>2 DEF SettingsInv, ShownInv
    <3>3. CASE scheduler.mode # playMode
      <4> DEFINE message == Message("mode", scheduler.mode)
      <4>1. toRider' = Append(toRider, message)
        BY <1>13, <3>3 DEF SchedulerAnnounces
      <4>2. message \in Messages /\ message.what = "mode" /\ message.value = scheduler.mode
        BY <1>0, MessageTypes DEF Message
      <4>3. ~QueueTells(queue, "mode")
        BY <2>3, <2>5 DEF Listens
      <4> HIDE DEF message
      <4>4. /\ UnderWay(queue, toRider', "mode")
            /\ WillKnow(queue, toRider', "mode", scheduler.mode)
        BY <1>0, <4>1, <4>2, <4>3, WayTold
      <4> QED BY <2>1, <3>1, <4>4 DEF ShownInv
    <3> QED BY <3>2, <3>3
  <2> QED BY <1>1, <2>1, <2>2, <2>4, <2>5 DEF SettingsInv, Listens
<1>14. CASE PlayEvent
  <2>1. /\ WayStays("mode")
        /\ UNCHANGED <<life, settings, playMode, scheduler, game, riderMode, overtaken, toRider,
                       gameTasks, riderKnows>>
    BY <1>14, WayKept DEF PlayEvent, BeginPIE, EndPIE, PausePIE, ResumePIE, SingleStepPIE,
                          Broadcast, riderVars, requestVars
  <2>2. \E batch \in {<<State("Play")>>, <<State("Idle")>>, <<State("Pause")>>,
                      <<State("Play"), State("Pause")>>} :
           \/ queue' = queue
           \/ queue' = Append(queue, Send(batch)) /\ Listens
    BY <1>14 DEF PlayEvent, BeginPIE, EndPIE, PausePIE, ResumePIE, SingleStepPIE, Broadcast
  <2>3. \A batch \in {<<State("Play")>>, <<State("Idle")>>, <<State("Pause")>>,
                      <<State("Play"), State("Pause")>>} :
           /\ Send(batch) \in QueueItems /\ ~Says(Send(batch), "mode")
           /\ Send(batch).act # "mode"
    <3>1. \A name \in {"Idle", "Play", "Pause"} : State(name).what = "state"
      BY DEF State, Message
    <3>2. \A batch : Send(batch).act # "mode"
      BY DEF Send
    <3> QED BY <3>1, <3>2, MessageTypes, Batchwise
  <2>4. CASE queue' = queue
    <3>1. life # "new" => SettingsInv'
      BY <1>2, <2>1, <2>4
    <3>2. life = "new" => SettingsInv'
      BY <2>1, <2>4 DEF SettingsInv, Listens
    <3> QED BY <3>1, <3>2
  <2>5. CASE queue' # queue
    <3>1. life # "new"
      BY <2>2, <2>5 DEF Listens
    <3>2. /\ QueueTells(queue', "mode") => QueueTells(queue, "mode")
          /\ LastAsked(queue, riderMode) => LastAsked(queue', riderMode)
      BY <1>3, <2>2, <2>3, <2>5
    <3> QED BY <1>2, <2>1, <3>1, <3>2
  <2> QED BY <2>4, <2>5
<1>15. CASE RequestPlayWorldCommand \/ RunSend
  <2>1. /\ WayStays("mode") /\ scheduler = Idle /\ queue # <<>> /\ Head(queue).act # "mode"
        /\ queue' = Tail(queue)
        /\ UNCHANGED <<life, settings, playMode, scheduler, game, riderMode, overtaken>>
    BY <1>15, WayKept DEF RequestPlayWorldCommand, RunSend, TakesNext, riderVars
  <2>2. LastAsked(queue, riderMode) => LastAsked(queue', riderMode)
    BY <1>0, <2>1, QueueTail
  <2>3. life # "new"
    BY <2>1 DEF SettingsInv
  <2> QED BY <1>2, <2>1, <2>2, <2>3
<1>16. CASE TryExecuteAction
  <2>1. /\ WayStays("mode") /\ gameTasks # <<>>
        /\ queue' = Append(queue, Send(<<Reply(Head(gameTasks))>>))
        /\ UNCHANGED <<life, settings, playMode, scheduler, game, riderMode, overtaken>>
    BY <1>16, WayKept DEF TryExecuteAction, riderVars
  <2>2. /\ Reply(Head(gameTasks)) \in Messages /\ Reply(Head(gameTasks)).what = "reply"
        /\ Head(gameTasks) \in Int
    BY <1>0, <2>1, Taken, MessageTypes DEF Reply, Message
  <2>3. /\ Send(<<Reply(Head(gameTasks))>>) \in QueueItems
        /\ ~Says(Send(<<Reply(Head(gameTasks))>>), "mode")
        /\ Send(<<Reply(Head(gameTasks))>>).act # "mode"
    BY <2>2, MessageTypes, Batchwise DEF Send
  <2>4. life # "new"
    BY <2>1 DEF SettingsInv
  <2> QED BY <1>2, <1>3, <2>1, <2>3, <2>4
<1>17. CASE RunUnheard
  <2>1. life = "down" /\ UNCHANGED <<life, scheduler, game>>
    BY <1>17 DEF RunUnheard
  <2> QED BY <2>1 DEF SettingsInv, Listens
<1>18. CASE RiderHears
  <2> DEFINE message == Head(toRider)
  <2>1. /\ toRider # <<>> /\ toRider' = Tail(toRider)
        /\ riderMode' = IF message.what = "mode" THEN message.value ELSE riderMode
        /\ UNCHANGED <<life, settings, playMode, queue, scheduler, game, overtaken>>
    BY <1>18 DEF RiderHears
  <2>2. /\ UnderWay(queue, toRider, "mode") <=>
             (UnderWay(queue', toRider', "mode") \/ message.what = "mode")
        /\ \A v : (UnderWay(queue', toRider', "mode") /\ WillKnow(queue, toRider, "mode", v)) =>
                     WillKnow(queue', toRider', "mode", v)
        /\ \A v : (~UnderWay(queue', toRider', "mode") /\ WillKnow(queue, toRider, "mode", v)) =>
                     message.what = "mode" /\ message.value = v
    BY <1>0, <2>1, WayHeard
  <2> HIDE DEF message
  <2>3. life # "new"
    BY <2>1 DEF SettingsInv
  <2>4. Listens /\ ~overtaken => BusyInv'
    BY <2>1 DEF SettingsInv, BusyInv
  <2>5. life = "up" /\ ~overtaken => ShownInv'
    BY <2>1, <2>2 DEF SettingsInv, ShownInv
  <2> QED BY <2>1, <2>3, <2>4, <2>5 DEF SettingsInv, Listens
<1>19. CASE RiderChangesMode
  <2>1. /\ WayStays("mode") /\ riderKnows /\ queue' = Append(queue, FromRider("mode", riderMode'))
        /\ riderMode' \in Int
        /\ UNCHANGED <<life, settings, playMode, scheduler, game, overtaken>>
    BY <1>19, WayKept, ControlAssumption DEF RiderChangesMode
  <2>2. /\ FromRider("mode", riderMode') \in QueueItems
        /\ ~Says(FromRider("mode", riderMode'), "mode")
        /\ FromRider("mode", riderMode').act = "mode"
        /\ FromRider("mode", riderMode').number = riderMode'
    BY <2>1, MessageTypes, Batchwise DEF FromRider
  <2>3. /\ QueueTells(queue', "mode") => QueueTells(queue, "mode")
        /\ LastAsked(queue', riderMode')
    BY <1>0, <2>1, <2>2, QueueAppend
  <2>4. life # "new"
    BY <2>1 DEF SettingsInv
  <2>5. Listens /\ ~overtaken => BusyInv'
    BY <2>1, <2>3 DEF SettingsInv, BusyInv
  <2>6. life = "up" /\ ~overtaken => ShownInv'
    BY <2>1, <2>3 DEF SettingsInv, ShownInv, WayStays
  <2> QED BY <2>1, <2>4, <2>5, <2>6 DEF SettingsInv, Listens
<1>20. CASE RiderRequests
  <2>1. /\ WayStays("mode") /\ riderKnows /\ queue' = Append(queue, FromRider("request", asked + 1))
        /\ UNCHANGED <<life, settings, playMode, scheduler, game, overtaken, riderMode>>
    BY <1>20, WayKept DEF RiderRequests, riderVars
  <2>2. /\ FromRider("request", asked + 1) \in QueueItems
        /\ ~Says(FromRider("request", asked + 1), "mode")
        /\ FromRider("request", asked + 1).act # "mode"
    <3>1. asked + 1 \in Int
      BY DEF ControlTypeOK
    <3> QED BY <3>1, MessageTypes, Batchwise DEF FromRider
  <2>3. life # "new"
    BY <2>1 DEF SettingsInv
  <2> QED BY <1>2, <1>3, <2>1, <2>2, <2>3
<1>21. CASE UNCHANGED controlVars
  BY <1>21 DEF controlVars, SettingsInv, BusyInv, ShownInv, Listens
<1> QED BY <1>4, <1>5, <1>6, <1>7, <1>8, <1>9, <1>10, <1>11, <1>12, <1>13, <1>14, <1>15,
           <1>16, <1>17, <1>18, <1>19, <1>20, <1>21
        DEF ControlNext, GameThread, SchedulerThread

-----------------------------------------------------------------------------
LEMMA ControlSteps == [PluginNext]_pluginVars => [ControlNext]_controlVars
BY DEF PluginNext, pluginVars, OnlyLink, OnlyControl

LEMMA ShownWhenQuiet == ControlTypeOK /\ PlayInv /\ SettingsInv => EditorIsShown
<1> SUFFICES ASSUME ControlTypeOK, PlayInv, SettingsInv, Quiet PROVE EditorIsShown
  BY DEF EditorIsShown, SettingsArrive, PlayStateArrives
<1>1. /\ life = "up" /\ queue = <<>> /\ toRider = <<>> /\ scheduler = Idle /\ game = Idle
      /\ Idle.at = "idle"
  BY DEF Quiet, Idle
<1>2. \A what : ~UnderWay(queue, toRider, what)
  BY <1>1 DEF UnderWay, QueueTells, Tells
<1>3. \A mode : ~LastAsked(queue, mode)
  BY <1>1 DEF LastAsked
<1>4. PlayStateArrives
  BY <1>1, <1>2 DEF PlayStateArrives, PlayInv, Listens
<1>5. SettingsArrive
  <2> SUFFICES ASSUME ~overtaken, settings.clients <= 4
               PROVE  UnpackFromMode(riderMode) = Canonical(settings)
    BY DEF SettingsArrive
  <2>1. ShownInv
    BY <1>1 DEF SettingsInv
  <2>2. playMode = PackToMode(settings)
    BY <1>1, <2>1 DEF ShownInv
  <2>3. UnpackFromMode(riderMode) = UnpackFromMode(playMode)
    BY <1>1, <1>2, <1>3, <2>1 DEF ShownInv
  <2>4. settings \in PlaySettings
    BY DEF ControlTypeOK
  <2> QED BY <2>2, <2>3, <2>4, PackUnpack
<1> QED BY <1>4, <1>5 DEF EditorIsShown

(***************************************************************************)
(* Every variable of the game control has its type: what is sent at a time *)
(* is about one thing, and a mode is a number whatever settings it packs.  *)
(***************************************************************************)
THEOREM ControlTypeCorrect == PluginSpec => []ControlTypeOK
<1>1. PluginInit => ControlTypeOK
  BY ControlTypeInit DEF PluginInit
<1> QED BY <1>1, ControlTypeStep, ControlSteps, PTL DEF PluginSpec

(***************************************************************************)
(* When nothing is under way between the threads of the editor and Rider,  *)
(* Rider shows the settings of the editor and what it plays, whatever      *)
(* settings there are and however many inputs there were.                  *)
(***************************************************************************)
THEOREM RiderShowsTheEditor == PluginSpec => []EditorIsShown
<1>1. PluginInit => PlayInv /\ SettingsInv
  BY ShownInit DEF PluginInit
<1>2. ControlTypeOK /\ PlayInv /\ SettingsInv /\ [PluginNext]_pluginVars =>
        PlayInv' /\ SettingsInv'
  BY PlayStep, SettingsStep, ControlSteps
<1> QED BY <1>1, <1>2, ShownWhenQuiet, ControlTypeCorrect, PTL DEF PluginSpec
=============================================================================
