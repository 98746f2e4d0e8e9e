-------------------------------- MODULE RdMap --------------------------------
(***************************************************************************)
(* RdMap: a replicated map (impl/RdMap.h over reactive/ViewableMap.h).     *)
(* The changes of the master carry a version and are acknowledged; while   *)
(* one for a key is in pendingForAck, changes of that key which the slave  *)
(* made without knowing it are rejected.                                   *)
(*                                                                         *)
(* pendingForAck is keyed by pointers to keys.  The pointer of a removed   *)
(* entry dangles, for remove's own event as soon as remove returns; a      *)
(* lookup that compares with it may find it or not.                        *)
(***************************************************************************)
EXTENDS RdReactiveBase

CONSTANT Keys

ASSUME RdMapAssumption == IsFiniteSet(Keys)

VARIABLES
    map,            \* map[e]: the copy at e, a function on Keys
    next_version,   \* of the master: the version it used last
    pendingForAck,  \* of the master: its entries
    ackError        \* history: an ACK was logged as an error although no
                    \* pointer dangled

mapVars == <<map, next_version, pendingForAck, ackError>>

NotFound == [key |-> NoValue, version |-> 0, live |-> FALSE]

MapInit ==
    /\ map = [e \in Ends |-> [k \in Keys |-> NoValue]]
    /\ next_version = 0
    /\ pendingForAck = {}
    /\ ackError = FALSE

-----------------------------------------------------------------------------
(***************************************************************************)
(* pendingForAck                                                           *)
(***************************************************************************)
\* What a lookup may answer.
Pending(k) ==
    LET found == {p \in pendingForAck : p.key = k}
    IN  IF \E p \in found : p.live THEN found ELSE found \union {NotFound}

\* Does this ACK take the entry away?
Acknowledged(p, version) == p # NotFound /\ p.version = version

\* The errmsg of an ACK.
Unexpected(p, version) == p = NotFound \/ p.version < version

-----------------------------------------------------------------------------
(***************************************************************************)
(* Local changes: each event is a message                                  *)
(***************************************************************************)
Versioned(e, k, v, version) ==
    [ack |-> FALSE, key |-> k, value |-> v,
     version |-> IF e = Master THEN version ELSE 0]

\* set and remove (v = NoValue): nothing for a value that is the same.
MapChange(e, k, v) ==
    /\ map[e][k] # v
    /\ map' = [map EXCEPT ![e][k] = v]
    /\ LocalChange(e, <<Versioned(e, k, v, next_version + 1)>>)
    /\ IF e = Master /\ bound[e]
       THEN /\ next_version' = next_version + 1
            /\ \E p \in Pending(k) :
                 LET new == [key |-> k, version |-> next_version + 1,
                             live |-> TRUE]
                     all == IF p = NotFound
                            THEN pendingForAck \union {new}
                            ELSE pendingForAck
                 IN  pendingForAck' =
                       {IF q.key = k /\ v = NoValue
                        THEN [q EXCEPT !.live = FALSE] ELSE q : q \in all}
            /\ careful' = (careful /\ v # NoValue /\ Pending(k) = {NotFound})
       ELSE UNCHANGED <<next_version, pendingForAck, careful>>
    /\ UNCHANGED ackError

\* clear: an event for each entry, then the entries go.
MapClear(e) ==
    LET keys == SetToSeq({k \in Keys : map[e][k] # NoValue})
    IN  /\ keys # <<>>
        /\ map' = [map EXCEPT ![e] = [k \in Keys |-> NoValue]]
        /\ LocalChange(e, [i \in DOMAIN keys |->
                             Versioned(e, keys[i], NoValue, next_version + i)])
        /\ IF e = Master /\ bound[e]
           THEN /\ next_version' = next_version + Len(keys)
                /\ \E p \in [DOMAIN keys -> pendingForAck \union {NotFound}] :
                     /\ \A i \in DOMAIN keys : p[i] \in Pending(keys[i])
                     /\ pendingForAck' =
                          {IF map[e][q.key] # NoValue
                           THEN [q EXCEPT !.live = FALSE] ELSE q :
                             q \in pendingForAck}
                            \union {[key |-> keys[i], version |-> next_version + i,
                                     live |-> FALSE] :
                                      i \in {j \in DOMAIN keys : p[j] = NotFound}}
                /\ careful' = FALSE
           ELSE UNCHANGED <<next_version, pendingForAck, careful>>
        /\ UNCHANGED ackError

\* init sends what the copy holds.
MapBind(e) ==
    LET keys == SetToSeq({k \in Keys : map[e][k] # NoValue})
    IN  /\ Bind(e, [i \in DOMAIN keys |->
                      Versioned(e, keys[i], map[e][keys[i]], next_version + i)])
        /\ IF e = Master
           THEN /\ next_version' = next_version + Len(keys)
                /\ pendingForAck' =
                     {[key |-> keys[i], version |-> next_version + i,
                       live |-> TRUE] : i \in DOMAIN keys}
           ELSE UNCHANGED <<next_version, pendingForAck>>
        /\ UNCHANGED <<map, ackError, careful>>

-----------------------------------------------------------------------------
(***************************************************************************)
(* on_wire_received                                                        *)
(***************************************************************************)
MapAck(e) ==
    LET msg == Head(wire[e]) IN
    /\ WireReceived(e, <<>>)
    /\ msg.ack
    /\ \E p \in Pending(msg.key) :
         /\ pendingForAck' = IF Acknowledged(p, msg.version)
                             THEN pendingForAck \ {p} ELSE pendingForAck
         /\ ackError' = \/ ackError
                        \/ /\ Unexpected(p, msg.version)
                           /\ \A q \in pendingForAck : q.live
    /\ UNCHANGED <<map, next_version, careful>>

(* Mutant: the master takes whatever comes. *)
AcceptsAny(e, msg, p) == TRUE

\* msg_versioned || !is_master || pendingForAck.count(key) == 0
Accepts(e, msg, p) == msg.version > 0 \/ e # Master \/ p = NotFound

(* Mutant: what is not acknowledged is sent back. *)
AnswersAlways(msg) ==
    IF msg.version > 0
    THEN <<[ack |-> TRUE, key |-> msg.key, value |-> NoValue,
            version |-> msg.version]>>
    ELSE <<msg>>

Answers(msg) ==
    IF msg.version > 0
    THEN <<[ack |-> TRUE, key |-> msg.key, value |-> NoValue,
            version |-> msg.version]>>
    ELSE <<>>

MapReceived(e) ==
    LET msg == Head(wire[e]) IN
    /\ WireReceived(e, Answers(msg))
    /\ ~msg.ack
    /\ \E p \in Pending(msg.key) :
         map' = IF Accepts(e, msg, p)
                THEN [map EXCEPT ![e][msg.key] = msg.value] ELSE map
    /\ UNCHANGED <<next_version, pendingForAck, ackError, careful>>

MapNext ==
    \E e \in Ends :
        \/ \E k \in Keys, v \in Values \union {NoValue} : MapChange(e, k, v)
        \/ MapClear(e)
        \/ MapBind(e)
        \/ MapAck(e)
        \/ MapReceived(e)

-----------------------------------------------------------------------------
(***************************************************************************)
(* When nothing is under way any more both copies are equal and every      *)
(* change of the master was acknowledged, however the changes of both ends *)
(* for a key cross, as long as the master neither changes a key again      *)
(* before the acknowledgement nor removes one.                             *)
(***************************************************************************)
MapSettles ==
    (Quiet /\ careful) => map["editor"] = map["rider"] /\ pendingForAck = {}

(***************************************************************************)
(* Between the ends: while a key is pending, and only then, the master's   *)
(* value for it or its acknowledgement is under way.                       *)
(***************************************************************************)
PendingIsUnderWay ==
    (careful /\ bound[Master]) => \A k \in Keys :
        LET sent  == {m \in Range(wire[Other(Master)]) : m.key = k /\ m.version > 0}
            acked == {m \in Range(wire[Master]) : m.key = k /\ m.ack}
        IN  {p.version : p \in {q \in pendingForAck : q.key = k}}
              = {m.version : m \in sent \union acked}

(***************************************************************************)
(* `No pending for ACK' and its like are errors (RdMap.h): every ACK finds *)
(* the change it is for.                                                   *)
(***************************************************************************)
AcksAreExpected == ~ackError
=============================================================================
