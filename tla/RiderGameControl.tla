-------------------------- MODULE RiderGameControl --------------------------
(***************************************************************************)
(* The game control of the editor                                          *)
(* (RiderGameControlExtension.cpp), for the time of one model: play        *)
(* settings are kept the same in Rider and in the editor, play events are  *)
(* reported, and requests of Rider are executed and answered.              *)
(*                                                                         *)
(* Two threads of the editor: the game thread edits settings, broadcasts   *)
(* events and executes commands; the scheduler of RiderLink handles what   *)
(* comes from Rider and sends (what it schedules itself runs at once).     *)
(* Neither settings nor playMode are guarded.  Rider, external, takes over *)
(* what it hears.                                                          *)
(***************************************************************************)
EXTENDS Integers, Sequences, FiniteSets, SequencesExt

CONSTANTS
    Settings,       \* the play settings that the editor may be given
    RiderModes,     \* the modes that Rider may send
    InitialModes,   \* what playMode may hold before it is assigned
    MaxInputs       \* bound: how many things the user and Rider do

\* The play settings that there are.
PlayTypes == {"InViewPort", "InMobilePreview", "InTargetedMobilePreview", "InEditorFloating",
              "InVR", "InNewProcess", "Simulate", "InVulkanPreview"}

PlaySettings ==
    [play : PlayTypes, clients : Nat \ {0}, dedicated : BOOLEAN, spawn : BOOLEAN]

ASSUME ControlAssumption ==
    /\ MaxInputs \in Nat
    /\ Settings \subseteq PlaySettings
    /\ RiderModes \subseteq Int /\ InitialModes \subseteq Int

-----------------------------------------------------------------------------
(***************************************************************************)
(* A mode: bits 0-1 clients - 1, 2 spawn, 3 dedicated, 4-6 the play mode,  *)
(* 7 whether to compile.                                                   *)
(***************************************************************************)
PlayModes == <<"InMobilePreview", "InEditorFloating", "InVR", "InNewProcess",
               "Simulate", "InVulkanPreview">>

PlayModeFromInt(number) ==
    IF number \in DOMAIN PlayModes THEN PlayModes[number] ELSE "InViewPort"

PlayModeToInt(type) ==
    CASE type = "InTargetedMobilePreview" -> 1
      [] type \in Range(PlayModes) -> CHOOSE i \in DOMAIN PlayModes : PlayModes[i] = type
      [] OTHER -> 0

UnpackFromMode(mode) ==
    [play |-> PlayModeFromInt((mode \div 16) % 8),
     clients |-> (mode % 4) + 1,
     dedicated |-> (mode \div 8) % 2 = 1,
     spawn |-> (mode \div 4) % 2 = 1]

PackToMode(settings) ==
    (settings.clients - 1) + (IF settings.spawn THEN 4 ELSE 0)
      + (IF settings.dedicated THEN 8 ELSE 0) + PlayModeToInt(settings.play) * 16

\* What a mode can express.
Canonical(settings) ==
    [settings EXCEPT !.play = PlayModeFromInt(PlayModeToInt(@))]

-----------------------------------------------------------------------------
VARIABLES
    life,           \* "new", "subscribed" (to the editor), "up" or "down"
    settings,       \* the play settings of the editor
    playMode,       \* the mode last announced to Rider
    queue,          \* what the scheduler has to do
    scheduler,      \* its callback: [at |-> step, mode |-> PlayModeNew]
    game,           \* the callback of the game thread, likewise
    gameTasks,      \* the requests that wait for the game thread
    playState,      \* what the editor plays
    reported,       \* playState was broadcast to the game control
    toRider,        \* what is on its way to Rider
    riderMode,      \* the mode that Rider shows
    riderState,     \* the state that Rider shows
    riderKnows,     \* Rider knows that the game control is initialized
    asked,          \* how many requests Rider has sent
    replies,        \* the answers that have come, by request
    inputs,         \* how many things the user and Rider have done
    overtaken,      \* both threads were busy with a change of the settings
    undefined       \* memory was used that is gone

controlVars == <<life, settings, playMode, queue, scheduler, game, gameTasks,
                 playState, reported, toRider, riderMode, riderState, riderKnows,
                 asked, replies, inputs, overtaken, undefined>>

Idle == [at |-> "idle", mode |-> 0]
Message(what, value) == [what |-> what, value |-> value]
StateNumber == [Idle |-> 0, Play |-> 1, Pause |-> 2]

Send(messages) == [act |-> "send", messages |-> messages, number |-> 0]
FromRider(act, number) == [act |-> act, messages |-> <<>>, number |-> number]

ControlInit ==
    /\ life = "new"
    /\ settings \in Settings /\ playMode \in InitialModes
    /\ queue = <<>> /\ scheduler = Idle /\ game = Idle /\ gameTasks = <<>>
    /\ playState = "Idle" /\ reported = FALSE
    /\ toRider = <<>> /\ riderMode = 0 /\ riderState = "Idle" /\ riderKnows = FALSE
    /\ asked = 0 /\ replies = <<>>
    /\ inputs = 0 /\ overtaken = FALSE /\ undefined = FALSE

riderVars == <<riderMode, riderState, riderKnows>>
playVars == <<playState, reported>>
requestVars == <<gameTasks, asked, replies>>

Listens == life \in {"subscribed", "up"}
Input == inputs < MaxInputs /\ inputs' = inputs + 1
TakesNext(act) ==
    ~undefined /\ scheduler = Idle /\ queue # <<>> /\ Head(queue).act = act

\* A mode that the game thread has announced and that is not yet sent.
ModeWaits ==
    \E i \in DOMAIN queue : queue[i].act = "send" /\ queue[i].messages[1].what = "mode"

-----------------------------------------------------------------------------
(***************************************************************************)
(* The constructor, and the end of the model (on the scheduler)            *)
(***************************************************************************)
\* playMode is not assigned yet when the editor may call back.
Subscribe ==
    /\ life = "new" /\ scheduler = Idle
    /\ life' = "subscribed"
    /\ scheduler' = [at |-> "constructs", mode |-> 0]
    /\ UNCHANGED <<settings, playMode, queue, game, playVars, toRider, riderVars,
                   requestVars, inputs, overtaken, undefined>>

RetrieveSettings ==
    /\ ~undefined /\ scheduler.at = "constructs"
    /\ scheduler' = [at |-> "retrieved", mode |-> PackToMode(settings)]
    /\ UNCHANGED <<life, settings, playMode, queue, game, playVars, toRider,
                   riderVars, requestVars, inputs, overtaken, undefined>>

InitialSync ==
    /\ ~undefined /\ scheduler.at = "retrieved"
    /\ life' = "up" /\ scheduler' = Idle
    /\ playMode' = scheduler.mode
    /\ toRider' = toRider \o <<Message("mode", scheduler.mode), Message("initialized", 1)>>
    /\ UNCHANGED <<settings, queue, game, playVars, riderVars, requestVars,
                   inputs, overtaken, undefined>>

\* GameControl.Reset, while the game thread may be in a callback.
Reset ==
    /\ ~undefined /\ life = "up" /\ scheduler = Idle
    /\ life' = "down"
    /\ undefined' = (game # Idle)
    /\ UNCHANGED <<settings, playMode, queue, scheduler, game, playVars, toRider,
                   riderVars, requestVars, inputs, overtaken>>

-----------------------------------------------------------------------------
(***************************************************************************)
(* The play settings                                                       *)
(***************************************************************************)
\* The user edits the settings; the callback follows if there is one.
Edit ==
    /\ ~undefined /\ Input /\ game = Idle
    /\ \E new \in Settings \ {settings} : settings' = new
    /\ game' = IF Listens THEN [at |-> "edited", mode |-> 0] ELSE Idle
    /\ overtaken' = (overtaken \/ (Listens /\ scheduler # Idle))
    /\ UNCHANGED <<life, playMode, queue, scheduler, playVars, toRider, riderVars,
                   requestVars, undefined>>

\* The mode of Rider is written into the settings, and the callback follows.
UpdateSettings ==
    /\ TakesNext("mode") /\ life = "up"
    /\ queue' = Tail(queue)
    /\ settings' = UnpackFromMode(Head(queue).number)
    /\ scheduler' = [at |-> "edited", mode |-> 0]
    /\ overtaken' = (overtaken \/ game # Idle \/ ModeWaits)
    /\ UNCHANGED <<life, playMode, game, playVars, toRider, riderVars, requestVars,
                   inputs, undefined>>

GameRetrieves ==
    /\ ~undefined /\ game.at = "edited"
    /\ game' = [at |-> "retrieved", mode |-> PackToMode(settings)]
    /\ UNCHANGED <<life, settings, playMode, queue, scheduler, playVars, toRider,
                   riderVars, requestVars, inputs, overtaken, undefined>>

\* On the game thread the announcement has to wait.
GameAnnounces ==
    /\ ~undefined /\ game.at = "retrieved"
    /\ game' = Idle
    /\ IF game.mode = playMode
       THEN UNCHANGED <<playMode, queue>>
       ELSE /\ playMode' = game.mode
            /\ queue' = Append(queue, Send(<<Message("mode", game.mode)>>))
    /\ UNCHANGED <<life, settings, scheduler, playVars, toRider, riderVars,
                   requestVars, inputs, overtaken, undefined>>

SchedulerRetrieves ==
    /\ ~undefined /\ scheduler.at = "edited"
    /\ scheduler' = [at |-> "updated", mode |-> PackToMode(settings)]
    /\ UNCHANGED <<life, settings, playMode, queue, game, playVars, toRider,
                   riderVars, requestVars, inputs, overtaken, undefined>>

(* Mutant: what came from Rider is not announced to it. *)
SchedulerKeepsQuiet ==
    /\ ~undefined /\ scheduler.at = "updated"
    /\ scheduler' = Idle
    /\ playMode' = scheduler.mode
    /\ UNCHANGED <<life, settings, queue, game, playVars, toRider, riderVars,
                   requestVars, inputs, overtaken, undefined>>

\* On the scheduler it is sent at once.
SchedulerAnnounces ==
    /\ ~undefined /\ scheduler.at = "updated"
    /\ scheduler' = Idle
    /\ IF scheduler.mode = playMode
       THEN UNCHANGED <<playMode, toRider>>
       ELSE /\ playMode' = scheduler.mode
            /\ toRider' = Append(toRider, Message("mode", scheduler.mode))
    /\ UNCHANGED <<life, settings, queue, game, playVars, riderVars, requestVars,
                   inputs, overtaken, undefined>>

-----------------------------------------------------------------------------
(***************************************************************************)
(* Play events, broadcast on the game thread                               *)
(***************************************************************************)
Broadcast(state, messages) ==
    /\ ~undefined /\ Input /\ game = Idle
    /\ playState' = state
    /\ reported' = (reported \/ Listens)
    /\ queue' = IF Listens THEN Append(queue, Send(messages)) ELSE queue
    /\ UNCHANGED <<life, settings, playMode, scheduler, game, toRider, riderVars,
                   requestVars, overtaken, undefined>>

State(name) == Message("state", StateNumber[name])

BeginPIE == playState = "Idle" /\ Broadcast("Play", <<State("Play")>>)
EndPIE == playState # "Idle" /\ Broadcast("Idle", <<State("Idle")>>)
PausePIE == playState = "Play" /\ Broadcast("Pause", <<State("Pause")>>)
ResumePIE == playState = "Pause" /\ Broadcast("Play", <<State("Play")>>)

SingleStepPIE ==
    playState = "Pause" /\ Broadcast("Pause", <<State("Play"), State("Pause")>>)

-----------------------------------------------------------------------------
(***************************************************************************)
(* Requests                                                                *)
(***************************************************************************)
Reply(number) == Message("reply", number)

(* Mutant: a command that is not registered is not answered. *)
RequestUnanswered ==
    /\ TakesNext("request") /\ life = "up"
    /\ queue' = Tail(queue)
    /\ \E registered \in BOOLEAN :
         gameTasks' = IF registered THEN Append(gameTasks, Head(queue).number)
                      ELSE gameTasks
    /\ UNCHANGED <<life, settings, playMode, scheduler, game, playVars, toRider,
                   riderVars, asked, replies, inputs, overtaken, undefined>>

RequestPlayWorldCommand ==
    /\ TakesNext("request") /\ life = "up"
    /\ queue' = Tail(queue)
    /\ \/ toRider' = Append(toRider, Reply(Head(queue).number)) /\ UNCHANGED gameTasks
       \/ gameTasks' = Append(gameTasks, Head(queue).number) /\ UNCHANGED toRider
    /\ UNCHANGED <<life, settings, playMode, scheduler, game, playVars, riderVars,
                   asked, replies, inputs, overtaken, undefined>>

\* Executed or rejected by the engine, it is answered: through the game
\* control, which must still be there.
TryExecuteAction ==
    /\ ~undefined /\ gameTasks # <<>> /\ game = Idle
    /\ gameTasks' = Tail(gameTasks)
    /\ queue' = Append(queue, Send(<<Reply(Head(gameTasks))>>))
    /\ undefined' = (life = "down")
    /\ UNCHANGED <<life, settings, playMode, scheduler, game, playVars, toRider,
                   riderVars, asked, replies, inputs, overtaken>>

-----------------------------------------------------------------------------
(***************************************************************************)
(* The scheduler sends, and Rider                                          *)
(***************************************************************************)
\* The action has captured the game control.
RunSend ==
    /\ TakesNext("send")
    /\ queue' = Tail(queue)
    /\ toRider' = toRider \o Head(queue).messages
    /\ undefined' = (life = "down")
    /\ UNCHANGED <<life, settings, playMode, scheduler, game, playVars, riderVars,
                   requestVars, inputs, overtaken>>

\* The handlers are unsubscribed.
RunUnheard ==
    /\ TakesNext("mode") \/ TakesNext("request")
    /\ life = "down"
    /\ queue' = Tail(queue)
    /\ UNCHANGED <<life, settings, playMode, scheduler, game, playVars, toRider,
                   riderVars, requestVars, inputs, overtaken, undefined>>

RiderHears ==
    LET message == Head(toRider) IN
    /\ ~undefined /\ toRider # <<>>
    /\ toRider' = Tail(toRider)
    /\ riderMode' = IF message.what = "mode" THEN message.value ELSE riderMode
    /\ riderState' = IF message.what = "state"
                     THEN CHOOSE state \in DOMAIN StateNumber :
                            StateNumber[state] = message.value
                     ELSE riderState
    /\ riderKnows' = (riderKnows \/ message.what = "initialized")
    /\ replies' = IF message.what = "reply" THEN Append(replies, message.value) ELSE replies
    /\ UNCHANGED <<life, settings, playMode, queue, scheduler, game, gameTasks,
                   playVars, asked, inputs, overtaken, undefined>>

RiderChangesMode ==
    /\ ~undefined /\ Input /\ riderKnows
    /\ \E mode \in RiderModes :
         riderMode' = mode /\ queue' = Append(queue, FromRider("mode", mode))
    /\ UNCHANGED <<life, settings, playMode, scheduler, game, playVars, toRider,
                   riderState, riderKnows, requestVars, overtaken, undefined>>

RiderRequests ==
    /\ ~undefined /\ Input /\ riderKnows
    /\ asked' = asked + 1
    /\ queue' = Append(queue, FromRider("request", asked + 1))
    /\ UNCHANGED <<life, settings, playMode, scheduler, game, gameTasks, playVars,
                   toRider, riderVars, replies, overtaken, undefined>>

-----------------------------------------------------------------------------
GameThread == GameRetrieves \/ GameAnnounces \/ TryExecuteAction

SchedulerThread ==
    \/ Subscribe \/ RetrieveSettings \/ InitialSync
    \/ UpdateSettings \/ SchedulerRetrieves \/ SchedulerAnnounces
    \/ RequestPlayWorldCommand \/ RunSend \/ RunUnheard

PlayEvent == BeginPIE \/ EndPIE \/ PausePIE \/ ResumePIE \/ SingleStepPIE

ControlNext ==
    \/ GameThread \/ SchedulerThread \/ Reset
    \/ Edit \/ PlayEvent
    \/ RiderHears \/ RiderChangesMode \/ RiderRequests

-----------------------------------------------------------------------------
(***************************************************************************)
(* Properties                                                              *)
(***************************************************************************)
\* The type of every variable; what is sent at a time is about one thing.
Messages ==
    [what : {"mode", "initialized", "reply"}, value : Int]
      \union [what : {"state"}, value : 0 .. 2]

Batches ==
    {messages \in Seq(Messages) :
        messages # <<>> /\ \A i \in DOMAIN messages : messages[i].what = messages[1].what}

QueueItems ==
    [act : {"send"}, messages : Batches, number : {0}]
      \union [act : {"mode", "request"}, messages : {<<>>}, number : Int]

ControlTypeOK ==
    /\ life \in {"new", "subscribed", "up", "down"}
    /\ settings \in PlaySettings /\ playMode \in Int
    /\ queue \in Seq(QueueItems) /\ gameTasks \in Seq(Int)
    /\ scheduler \in [at : {"idle", "constructs", "retrieved", "edited", "updated"}, mode : Int]
    /\ game \in [at : {"idle", "edited", "retrieved"}, mode : Int]
    /\ playState \in DOMAIN StateNumber /\ riderState \in DOMAIN StateNumber
    /\ toRider \in Seq(Messages) /\ riderMode \in Int
    /\ reported \in BOOLEAN /\ riderKnows \in BOOLEAN
    /\ asked \in Nat /\ replies \in Seq(Int) /\ inputs \in Nat
    /\ overtaken \in BOOLEAN /\ undefined \in BOOLEAN

Quiet ==
    /\ life = "up" /\ ~undefined
    /\ queue = <<>> /\ toRider = <<>> /\ gameTasks = <<>>
    /\ scheduler = Idle /\ game = Idle

(***************************************************************************)
(* When nothing is under way Rider shows the settings of the editor, also  *)
(* when the user and Rider have changed them at the same time.  Excepted   *)
(* are changes that met within the editor, on its two threads, and more    *)
(* clients than two bits can hold.                                         *)
(***************************************************************************)
SettingsArrive ==
    Quiet /\ ~overtaken /\ settings.clients <= 4
      => UnpackFromMode(riderMode) = Canonical(settings)

(***************************************************************************)
(* When nothing is under way Rider shows what the editor plays, once an    *)
(* event was broadcast to the game control.                                *)
(***************************************************************************)
PlayStateArrives == Quiet /\ reported => riderState = playState

(***************************************************************************)
(* Rider shows the editor: its settings and what it plays.                 *)
(***************************************************************************)
EditorIsShown == SettingsArrive /\ PlayStateArrives

(***************************************************************************)
(* Every request is answered as long as the model lasts, whether the       *)
(* command is registered, executed or rejected, and none is answered       *)
(* twice, whoever finds out that it fails: the scheduler that looks for    *)
(* the command, or the game thread that tries it.                          *)
(***************************************************************************)
EveryRequestAnswered ==
    /\ [](\A i, j \in DOMAIN replies : replies[i] = replies[j] => i = j)
    /\ \A number \in 1 .. MaxInputs :
         asked >= number ~> number \in Range(replies) \/ life = "down" \/ undefined
=============================================================================
