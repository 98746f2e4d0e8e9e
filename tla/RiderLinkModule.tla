--------------------------- MODULE RiderLinkModule ---------------------------
(***************************************************************************)
(* The module RiderLink of the editor (RiderLink/Private/RiderLink.cpp):   *)
(* it keeps one model per connection and shows it to the other modules.    *)
(*                                                                         *)
(* Three threads use it.  The thread of the wire connects and disconnects: *)
(* the n-th connection has a lifetime, which ends with it.  The scheduler  *)
(* of the module makes the model and, when the lifetime has ended, takes   *)
(* it out of sight (RdIsModelAlive); views run on it.  The scheduler of    *)
(* the log sends messages in chunks (RiderLoggingExtension.cpp) with       *)
(* FireAsyncAction, under the reader lock of ModelLock.                    *)
(*                                                                         *)
(* A model is named by its connection.  The end of the module is not       *)
(* modelled.                                                               *)
(***************************************************************************)
EXTENDS Naturals, Sequences, FiniteSets

CONSTANTS
    MaxConnections,     \* bound: how often Rider connects
    MaxChunks           \* bound: how many chunks the log sends

ASSUME LinkAssumption == MaxConnections \in Nat /\ MaxChunks \in Nat

Nothing == 0
Connections == 1 .. MaxConnections

VARIABLES
    connection,     \* the connection there is, or Nothing
    connections,    \* how many there have been
    ending,         \* the connection whose closings the wire thread runs
    actions,        \* what the scheduler has to do
    making,         \* the scheduler: [at |-> "idle" or its step, n |-> model]
    writer,         \* the scheduler holds ModelLock
    EditorModel,    \* the model, or Nothing
    bound,          \* the model that is bound, or Nothing
    noticing,       \* the connection whose lifetime will queue its end
    RdIsModelAlive, \* "unset", "yes" or "no"
    watching,       \* a module has asked for the model
    viewing,        \* the model its handler has, or Nothing
    logger,         \* the log: "idle", "locked" (the reader lock), "handles"
                    \* (the model is alive) or "sends" (it was bound)
    chunks          \* how many chunks the log has begun

linkVars == <<connection, connections, ending, actions, making, writer,
              EditorModel, bound, noticing, RdIsModelAlive, watching, viewing,
              logger, chunks>>

Todo(act, n) == [act |-> act, n |-> n]

LinkInit ==
    /\ connection = Nothing /\ connections = 0 /\ ending = Nothing
    /\ actions = <<>>
    /\ making = [at |-> "idle", n |-> Nothing] /\ writer = FALSE
    /\ EditorModel = Nothing /\ bound = Nothing /\ noticing = Nothing
    /\ RdIsModelAlive = "unset"
    /\ watching = FALSE /\ viewing = Nothing
    /\ logger = "idle" /\ chunks = 0

-----------------------------------------------------------------------------
(***************************************************************************)
(* The thread of the wire (the view of connected)                          *)
(***************************************************************************)
Connect ==
    /\ connection = Nothing /\ ending = Nothing /\ connections < MaxConnections
    /\ connections' = connections + 1
    /\ connection' = connections + 1
    /\ actions' = Append(actions, Todo("create", connections + 1))
    /\ UNCHANGED <<ending, making, writer, EditorModel, bound, noticing,
                   RdIsModelAlive, watching, viewing, logger, chunks>>

\* The lifetime is over; its closings run backwards, the last one first.
Disconnect ==
    /\ connection # Nothing
    /\ ending' = connection /\ connection' = Nothing
    /\ noticing' = IF noticing = connection THEN Nothing ELSE noticing
    /\ actions' = IF noticing = connection
                  THEN Append(actions, Todo("down", connection)) ELSE actions
    /\ UNCHANGED <<connections, making, writer, EditorModel, bound,
                   RdIsModelAlive, watching, viewing, logger, chunks>>

Unbind ==
    /\ ending # Nothing
    /\ bound' = IF bound = ending THEN Nothing ELSE bound
    /\ ending' = Nothing
    /\ UNCHANGED <<connection, connections, actions, making, writer, EditorModel,
                   noticing, RdIsModelAlive, watching, viewing, logger, chunks>>

-----------------------------------------------------------------------------
(***************************************************************************)
(* The scheduler of the module                                             *)
(***************************************************************************)
TakesTodo(act) == making.at = "idle" /\ actions # <<>> /\ Head(actions).act = act

Locked == writer \/ logger # "idle"

\* The model before is destroyed; the new one binds, unless the connection is
\* over: then it throws and the action is abandoned.
Create ==
    /\ TakesTodo("create") /\ ~Locked
    /\ actions' = Tail(actions)
    /\ EditorModel' = Head(actions).n
    /\ IF connection = Head(actions).n
       THEN /\ bound' = Head(actions).n
            /\ making' = [at |-> "bound", n |-> Head(actions).n]
            /\ writer' = TRUE
       ELSE bound' = Nothing /\ UNCHANGED <<making, writer>>
    /\ UNCHANGED <<connection, connections, ending, noticing, RdIsModelAlive,
                   watching, viewing, logger, chunks>>

(* Mutant: a lifetime that is over takes the action and never runs it. *)
NoticeUnchecked ==
    /\ making.at = "bound"
    /\ noticing' = making.n
    /\ making' = [making EXCEPT !.at = "noticed"]
    /\ UNCHANGED <<connection, connections, ending, actions, writer, EditorModel,
                   bound, RdIsModelAlive, watching, viewing, logger, chunks>>

\* add_action throws if the lifetime is over.
Notice ==
    /\ making.at = "bound"
    /\ IF connection = making.n
       THEN /\ noticing' = making.n
            /\ making' = [making EXCEPT !.at = "noticed"]
            /\ UNCHANGED writer
       ELSE /\ making' = [at |-> "idle", n |-> Nothing]
            /\ writer' = FALSE
            /\ UNCHANGED noticing
    /\ UNCHANGED <<connection, connections, ending, actions, EditorModel, bound,
                   RdIsModelAlive, watching, viewing, logger, chunks>>

\* The views run: only a change is told to them.
SetAlive ==
    /\ making.at = "noticed"
    /\ RdIsModelAlive' = "yes"
    /\ viewing' = IF RdIsModelAlive # "yes" /\ watching THEN EditorModel ELSE viewing
    /\ making' = [at |-> "idle", n |-> Nothing]
    /\ writer' = FALSE
    /\ UNCHANGED <<connection, connections, ending, actions, EditorModel, bound,
                   noticing, watching, logger, chunks>>

(* Mutant: Down is left out when Rider is back. *)
DownUnlessConnected ==
    /\ TakesTodo("down") /\ ~Locked
    /\ actions' = Tail(actions)
    /\ IF connection = Nothing
       THEN RdIsModelAlive' = "no" /\ viewing' = Nothing
       ELSE UNCHANGED <<RdIsModelAlive, viewing>>
    /\ UNCHANGED <<connection, connections, ending, making, writer, EditorModel,
                   bound, noticing, watching, logger, chunks>>

Down ==
    /\ TakesTodo("down") /\ ~Locked
    /\ actions' = Tail(actions)
    /\ RdIsModelAlive' = "no" /\ viewing' = Nothing
    /\ UNCHANGED <<connection, connections, ending, making, writer, EditorModel,
                   bound, noticing, watching, logger, chunks>>

\* ViewModel, from another thread.
ViewModel ==
    /\ ~watching /\ Todo("view", Nothing) \notin {actions[i] : i \in DOMAIN actions}
    /\ actions' = Append(actions, Todo("view", Nothing))
    /\ UNCHANGED <<connection, connections, ending, making, writer, EditorModel,
                   bound, noticing, RdIsModelAlive, watching, viewing, logger, chunks>>

\* The scheduler is the only one that writes what it reads here.
View ==
    /\ TakesTodo("view")
    /\ actions' = Tail(actions)
    /\ watching' = TRUE
    /\ viewing' = IF RdIsModelAlive = "yes" THEN EditorModel ELSE Nothing
    /\ UNCHANGED <<connection, connections, ending, making, writer, EditorModel,
                   bound, noticing, RdIsModelAlive, logger, chunks>>

-----------------------------------------------------------------------------
(***************************************************************************)
(* FireAsyncAction on the scheduler of the log                             *)
(***************************************************************************)
LogChunk ==
    /\ logger = "idle" /\ ~writer /\ chunks < MaxChunks
    /\ logger' = "locked" /\ chunks' = chunks + 1
    /\ UNCHANGED <<connection, connections, ending, actions, making, writer,
                   EditorModel, bound, noticing, RdIsModelAlive, watching, viewing>>

TestAlive ==
    /\ logger = "locked"
    /\ logger' = IF RdIsModelAlive = "yes" THEN "handles" ELSE "idle"
    /\ UNCHANGED <<connection, connections, ending, actions, making, writer,
                   EditorModel, bound, noticing, RdIsModelAlive, watching, viewing, chunks>>

\* unrealLog is asynchronous: unbound, it returns.
TestBound ==
    /\ logger = "handles"
    /\ logger' = IF bound # Nothing THEN "sends" ELSE "idle"
    /\ UNCHANGED <<connection, connections, ending, actions, making, writer,
                   EditorModel, bound, noticing, RdIsModelAlive, watching, viewing, chunks>>

\* Sent; or the model was unbound since and get_wire throws: the rest of the
\* message is given up.
SendChunk ==
    /\ logger = "sends"
    /\ logger' = "idle"
    /\ UNCHANGED <<connection, connections, ending, actions, making, writer,
                   EditorModel, bound, noticing, RdIsModelAlive, watching, viewing, chunks>>

-----------------------------------------------------------------------------
Scheduled == Create \/ Notice \/ SetAlive \/ Down \/ View
Logs == TestAlive \/ TestBound \/ SendChunk

LinkNext ==
    \/ Connect \/ Disconnect \/ Unbind
    \/ Scheduled \/ ViewModel
    \/ LogChunk \/ Logs

-----------------------------------------------------------------------------
(***************************************************************************)
(* Properties                                                              *)
(***************************************************************************)
\* The type of every variable.
Todos == [act : {"create", "down", "view"}, n : Nat]

LinkTypeOK ==
    /\ connections \in Nat
    /\ connection \in 0 .. connections /\ ending \in 0 .. connections
    /\ actions \in Seq(Todos) /\ \A i \in DOMAIN actions : actions[i].n <= connections
    /\ making \in [at : {"idle", "bound", "noticed"}, n : 0 .. connections]
    /\ writer = (making.at # "idle")
    /\ EditorModel \in 0 .. connections /\ bound \in {Nothing, EditorModel}
    /\ noticing \in {Nothing, connection}
    /\ RdIsModelAlive \in {"unset", "yes", "no"}
    /\ watching \in BOOLEAN /\ viewing \in 0 .. connections
    /\ logger \in {"idle", "locked", "handles", "sends"}
    /\ chunks \in Nat

(***************************************************************************)
(* What a module holds is the model there is, never one that is destroyed: *)
(* the model before has gone out of sight when the next one is made,       *)
(* however fast connections end and begin.                                 *)
(***************************************************************************)
ModelOutlivesItsViews == viewing # Nothing => viewing = EditorModel

(***************************************************************************)
(* A connection that lasts gets its model in sight, a module that has      *)
(* asked for it gets it, and when Rider is gone the views end.             *)
(***************************************************************************)
ViewsFollowConnections ==
    /\ \A n \in Connections :
         connection = n ~> \/ connection # n
                           \/ RdIsModelAlive = "yes" /\ EditorModel = n
                                 /\ (watching => viewing = n)
    /\ connection = Nothing ~> connection # Nothing \/ viewing = Nothing
=============================================================================
