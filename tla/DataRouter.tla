----------------------------- MODULE DataRouter -----------------------------
(***************************************************************************)
(* server/DataRouter.cpp with the threads around it: the loop thread of    *)
(* the DataSink, whose callbacks route messages; the dispatcher thread,    *)
(* which registers handlers; the router thread, which gives each message   *)
(* to the handler of its key; and the main thread, which stops them.       *)
(*                                                                         *)
(* The queue is module Queue.  _handlers is shared without a lock: each of *)
(* its operations is one step here.  A handler stands for itself, for its  *)
(* HandlerEvent and for its Context: it is loaded and registered once.     *)
(***************************************************************************)
EXTENDS Naturals, Sequences, FiniteSets

CONSTANTS
  Keys,        \* keys that handlers and messages carry
  Handlers,    \* handlers that the dispatcher may load
  KeyOf,       \* [Handlers -> Keys], ctx->key
  Unusable,    \* handlers that are of neither type
  NoHandler,
  NoKey,       \* the key of a message that names no handler or does not parse
  Capacity,    \* of the queue
  MaxMessages  \* bound: messages that are routed

ASSUME DataRouterAssumption ==
  /\ KeyOf \in [Handlers -> Keys]
  /\ Unusable \subseteq Handlers
  /\ NoHandler \notin Handlers
  /\ NoKey \notin Keys
  /\ Capacity \in Nat
  /\ MaxMessages \in Nat

Sink == "sink"
Main == "main"
RouterThread == "router"

VARIABLES
  queue, thread, arg,  \* of module Queue
  running,     \* _running
  handlers,    \* _handlers: [Keys -> Handlers or NoHandler]
  registered,  \* handlers that have been registered
  exiting,     \* handlers with ctx->__exit set
  deleted,     \* handlers that _DeleteHandler has freed
  routerPc,    \* where _RouteForever is, see RouterState
  item,        \* the item it holds
  current,     \* the handler it has found, or NoHandler
  sinkPc,      \* the loop thread: idle, in a callback, in Route
  dispatcher,  \* whether the dispatcher thread runs
  mainPc,      \* see MainState
  nextId,      \* number of the next message
  settled,     \* history: messages handled, or dropped for want of a handler
  latest,      \* history: [Keys -> the handler registered last]
  overtaken,   \* history: keys whose newer handler was erased for an older one
  aborted      \* the process has died

queueVars   == <<queue, thread, arg>>
handlerVars == <<handlers, registered, latest, overtaken>>
routerVars  == <<routerPc, item, current>>
exitVars    == <<exiting, deleted>>
mainVars    == <<running, dispatcher, mainPc>>
vars == <<queueVars, handlerVars, routerVars, exitVars, settled, mainVars,
          sinkPc, nextId, aborted>>

\* RouterItem: a message is its number and its key; the dummy of Stop is 0.
Item == [id : 0..MaxMessages, key : Keys \cup {NoKey}]
Dummy == [id |-> 0, key |-> NoKey]
NoItem == [id |-> MaxMessages + 1, key |-> NoKey]

Q == INSTANCE Queue WITH
       Producers <- {Sink, Main},
       Consumers <- {RouterThread},
       Items <- Item,
       clearedUnderProducer <- FALSE

\* loop: before Pop; pop: in it; popped: before the test of the flag; find:
\* before the lookup; handle: before Handle; handled: after it; erase, free:
\* in _DeleteHandler.
RouterState ==
  {"loop", "pop", "popped", "find", "handle", "handled", "erase", "free", "done"}
\* stopping: the dispatcher is stopped; flag: the sink is; dummy: the flag is
\* cleared; pushing, joining: in Stop; ended: the router has been deleted.
MainState ==
  {"running", "stopping", "flag", "dummy", "pushing", "joining", "ended"}

Init ==
  /\ Q!Init
  /\ running = TRUE
  /\ handlers = [k \in Keys |-> NoHandler]
  /\ latest = [k \in Keys |-> NoHandler]
  /\ registered = {} /\ exiting = {} /\ deleted = {} /\ overtaken = {}
  /\ routerPc = "loop" /\ item = Dummy /\ current = NoHandler
  /\ sinkPc = "idle" /\ dispatcher = TRUE /\ mainPc = "running"
  /\ nextId = 1
  /\ settled = <<>>
  /\ aborted = FALSE

-----------------------------------------------------------------------------
(* The sink's loop thread.  It is not joined: a callback that DataSink's   *)
(* Stop finds under way goes on to route the rest of what it has received. *)

CallbackBegins ==
  /\ sinkPc = "idle" /\ mainPc \in {"running", "stopping"}
  /\ sinkPc' = "callback"
  /\ UNCHANGED <<queueVars, handlerVars, routerVars, exitVars, settled, mainVars,
                 nextId, aborted>>

\* Route(message, length), of a message that is not empty.
CallRoute(key) ==
  /\ sinkPc = "callback" /\ mainPc # "ended"
  /\ nextId <= MaxMessages
  /\ Q!CallPush(Sink, [id |-> nextId, key |-> key])
  /\ sinkPc' = "push"
  /\ nextId' = nextId + 1
  /\ UNCHANGED <<handlerVars, routerVars, exitVars, settled, mainVars, aborted>>

PushItem ==
  /\ mainPc # "ended"
  /\ Q!PushStep(Sink)
  /\ sinkPc' = IF thread'[Sink] = "idle" THEN "callback" ELSE sinkPc
  /\ UNCHANGED <<handlerVars, routerVars, exitVars, settled, mainVars, nextId,
                 aborted>>

CallbackEnds ==
  /\ sinkPc = "callback"
  /\ sinkPc' = "idle"
  /\ UNCHANGED <<queueVars, handlerVars, routerVars, exitVars, settled, mainVars,
                 nextId, aborted>>

\* The callback uses the router that main has deleted.
UseDeletedRouter ==
  /\ sinkPc # "idle" /\ mainPc = "ended"
  /\ aborted' = TRUE
  /\ UNCHANGED <<queueVars, handlerVars, routerVars, exitVars, settled, mainVars,
                 sinkPc, nextId>>

-----------------------------------------------------------------------------
(* The dispatcher thread, and the handlers' own threads.                   *)

\* Mutant: an entry that is there stays (map::insert).
RegisterInserts(h) ==
  /\ dispatcher /\ h \notin registered
  /\ registered' = registered \cup {h}
  /\ handlers' = [handlers EXCEPT ![KeyOf[h]] = IF @ = NoHandler THEN h ELSE @]
  /\ latest' = [latest EXCEPT ![KeyOf[h]] = h]
  /\ overtaken' = overtaken \ {KeyOf[h]}
  /\ UNCHANGED <<queueVars, routerVars, exitVars, settled, mainVars, sinkPc,
                 nextId, aborted>>

\* Register(monitor, ctx): a handler of the same key is replaced.
Register(h) ==
  /\ dispatcher /\ h \notin registered
  /\ registered' = registered \cup {h}
  /\ handlers' = [handlers EXCEPT ![KeyOf[h]] = h]
  /\ latest' = [latest EXCEPT ![KeyOf[h]] = h]
  /\ overtaken' = overtaken \ {KeyOf[h]}
  /\ UNCHANGED <<queueVars, routerVars, exitVars, settled, mainVars, sinkPc,
                 nextId, aborted>>

\* ctx->Exit(), which a handler may call in Handle or from a thread of its own.
Exit(h) ==
  /\ h \in registered \ (deleted \cup exiting)
  /\ exiting' = exiting \cup {h}
  /\ UNCHANGED <<queueVars, handlerVars, routerVars, deleted, settled, mainVars,
                 sinkPc, nextId, aborted>>

-----------------------------------------------------------------------------
(* The router thread.                                                      *)

CallPop ==
  /\ routerPc = "loop"
  /\ Q!CallPop(RouterThread)
  /\ routerPc' = "pop"
  /\ UNCHANGED <<handlerVars, item, current, exitVars, settled, mainVars, sinkPc,
                 nextId, aborted>>

PopItem ==
  /\ Q!PopStep(RouterThread)
  /\ \/ thread'[RouterThread] = "idle" /\ routerPc' = "popped" /\ item' = Q!Front
     \/ thread'[RouterThread] # "idle" /\ UNCHANGED <<routerPc, item>>
  /\ UNCHANGED <<handlerVars, current, exitVars, settled, mainVars, sinkPc, nextId,
                 aborted>>

\* if (_running == false) break;
CheckRunning ==
  /\ routerPc = "popped"
  /\ routerPc' = IF running THEN "find" ELSE "done"
  /\ UNCHANGED <<queueVars, handlerVars, item, current, exitVars, settled, mainVars,
                 sinkPc, nextId, aborted>>

\* The item is deleted, and the thread goes back to Pop.
ItemDone == routerPc' = "loop" /\ item' = Dummy /\ current' = NoHandler

\* Mutant: after a message without a handler the thread leaves its loop.
FindNoneLeaves ==
  /\ routerPc = "find"
  /\ item.key \in Keys => handlers[item.key] = NoHandler
  /\ settled' = Append(settled, item.id)
  /\ routerPc' = "done" /\ item' = Dummy
  /\ UNCHANGED <<queueVars, handlerVars, current, exitVars, mainVars, sinkPc, nextId,
                 aborted>>

\* The message has no handler, or no key because it does not parse.
FindNone ==
  /\ routerPc = "find"
  /\ item.key \in Keys => handlers[item.key] = NoHandler
  /\ settled' = Append(settled, item.id)
  /\ ItemDone
  /\ UNCHANGED <<queueVars, handlerVars, exitVars, mainVars, sinkPc, nextId, aborted>>

FindHandler ==
  /\ routerPc = "find"
  /\ item.key \in Keys /\ handlers[item.key] # NoHandler
  /\ current' = handlers[item.key]
  /\ routerPc' = "handle"
  /\ UNCHANGED <<queueVars, handlerVars, item, exitVars, settled, mainVars, sinkPc,
                 nextId, aborted>>

\* Handle(...) of either interface; LOG(FATAL) if the handler has neither.
Handle ==
  /\ routerPc = "handle"
  /\ \/ /\ current \notin Unusable
        /\ settled' = Append(settled, item.id)
        /\ routerPc' = "handled"
        /\ UNCHANGED aborted
     \/ /\ current \in Unusable
        /\ aborted' = TRUE
        /\ UNCHANGED <<settled, routerPc>>
  /\ UNCHANGED <<queueVars, handlerVars, item, current, exitVars, mainVars, sinkPc,
                 nextId>>

\* Mutant: a handler that exits is freed and stays in the map.
CheckExitNoErase ==
  /\ routerPc = "handled"
  /\ \/ current \notin exiting /\ ItemDone
     \/ current \in exiting /\ routerPc' = "free" /\ UNCHANGED <<item, current>>
  /\ UNCHANGED <<queueVars, handlerVars, exitVars, settled, mainVars, sinkPc, nextId,
                 aborted>>

\* if (event->ctx->__exit), then OnStop and _DeleteHandler.
CheckExit ==
  /\ routerPc = "handled"
  /\ \/ current \notin exiting /\ ItemDone
     \/ current \in exiting /\ routerPc' = "erase" /\ UNCHANGED <<item, current>>
  /\ UNCHANGED <<queueVars, handlerVars, exitVars, settled, mainVars, sinkPc, nextId,
                 aborted>>

\* _handlers->erase(key): whichever handler the key has by now.
EraseHandler ==
  LET k == KeyOf[current] IN
  /\ routerPc = "erase"
  /\ handlers' = [handlers EXCEPT ![k] = NoHandler]
  /\ overtaken' = IF handlers[k] # current THEN overtaken \cup {k} ELSE overtaken
  /\ routerPc' = "free"
  /\ UNCHANGED <<queueVars, registered, latest, item, current, exitVars, settled,
                 mainVars, sinkPc, nextId, aborted>>

FreeHandler ==
  /\ routerPc = "free"
  /\ deleted' = deleted \cup {current}
  /\ ItemDone
  /\ UNCHANGED <<queueVars, handlerVars, exiting, settled, mainVars, sinkPc, nextId,
                 aborted>>

-----------------------------------------------------------------------------
(* The main thread (server/Main.cpp).                                      *)

DispatcherStopped ==
  /\ mainPc = "running"
  /\ dispatcher' = FALSE /\ mainPc' = "stopping"
  /\ UNCHANGED <<queueVars, handlerVars, routerVars, exitVars, settled, running,
                 sinkPc, nextId, aborted>>

\* DataSink::Stop: the watchers go, so that no callback begins.
SinkStopped ==
  /\ mainPc = "stopping"
  /\ mainPc' = "flag"
  /\ UNCHANGED <<queueVars, handlerVars, routerVars, exitVars, settled, running,
                 dispatcher, sinkPc, nextId, aborted>>

\* Stop: clear the flag, push the dummy, join.
StopClearsFlag ==
  /\ mainPc = "flag"
  /\ running' = FALSE /\ mainPc' = "dummy"
  /\ UNCHANGED <<queueVars, handlerVars, routerVars, exitVars, settled, dispatcher,
                 sinkPc, nextId, aborted>>

\* Mutant: Stop relies on the flag alone.
StopPushesNothing ==
  /\ mainPc = "dummy"
  /\ mainPc' = "joining"
  /\ UNCHANGED <<queueVars, handlerVars, routerVars, exitVars, settled, running,
                 dispatcher, sinkPc, nextId, aborted>>

StopPushesDummy ==
  /\ mainPc = "dummy"
  /\ Q!CallPush(Main, Dummy)
  /\ mainPc' = "pushing"
  /\ UNCHANGED <<handlerVars, routerVars, exitVars, settled, running, dispatcher,
                 sinkPc, nextId, aborted>>

PushDummy ==
  /\ Q!PushStep(Main)
  /\ mainPc' = IF thread'[Main] = "idle" THEN "joining" ELSE mainPc
  /\ UNCHANGED <<handlerVars, routerVars, exitVars, settled, running, dispatcher,
                 sinkPc, nextId, aborted>>

\* The join returns, and main deletes the router.
Join ==
  /\ mainPc = "joining" /\ routerPc = "done"
  /\ mainPc' = "ended"
  /\ UNCHANGED <<queueVars, handlerVars, routerVars, exitVars, settled, running,
                 dispatcher, sinkPc, nextId, aborted>>

SpuriousWakeup ==
  /\ mainPc # "ended"
  /\ \E t \in {Sink, Main, RouterThread} : Q!SpuriousWakeup(t)
  /\ UNCHANGED <<handlerVars, routerVars, exitVars, settled, mainVars, sinkPc,
                 nextId, aborted>>

-----------------------------------------------------------------------------
RouterStep ==
  \/ CallPop \/ PopItem \/ CheckRunning \/ FindNone \/ FindHandler \/ Handle
  \/ CheckExit \/ EraseHandler \/ FreeHandler

StopStep == StopPushesDummy \/ PushDummy \/ Join

\* The process has ended; nothing more happens.
Ended == (mainPc = "ended" \/ aborted) /\ UNCHANGED vars

Next ==
  \/ /\ ~aborted
     /\ \/ CallbackBegins
        \/ \E key \in Keys \cup {NoKey} : CallRoute(key)
        \/ PushItem
        \/ CallbackEnds
        \/ UseDeletedRouter
        \/ \E h \in Handlers : Register(h) \/ Exit(h)
        \/ RouterStep
        \/ DispatcherStopped \/ SinkStopped \/ StopClearsFlag
        \/ StopStep
        \/ SpuriousWakeup
  \/ Ended

\* Threads that are in a call go on with it, and Handle returns.  Nothing has
\* to be received, registered or stopped.
Fairness ==
  /\ WF_vars(~aborted /\ PushItem)
  /\ WF_vars(~aborted /\ RouterStep)
  /\ WF_vars(~aborted /\ StopStep)

Spec == Init /\ [][Next]_vars
FairSpec == Spec /\ Fairness

-----------------------------------------------------------------------------
TypeOK ==
  /\ queue \in Seq(Item) /\ Len(queue) <= Capacity
  /\ thread \in [{Sink, Main, RouterThread} -> Q!ThreadState]
  /\ arg \in [{Sink, Main} -> Item \cup {NoItem}]
  /\ running \in BOOLEAN /\ dispatcher \in BOOLEAN /\ aborted \in BOOLEAN
  /\ handlers \in [Keys -> Handlers \cup {NoHandler}]
  /\ latest \in [Keys -> Handlers \cup {NoHandler}]
  /\ registered \subseteq Handlers /\ exiting \subseteq registered
  /\ deleted \subseteq exiting /\ overtaken \subseteq Keys
  /\ routerPc \in RouterState /\ mainPc \in MainState
  /\ item \in Item /\ current \in Handlers \cup {NoHandler}
  /\ current # NoHandler <=> routerPc \in {"handle", "handled", "erase", "free"}
  /\ sinkPc \in {"idle", "callback", "push"}
  /\ nextId \in 1..(MaxMessages + 1)
  /\ settled \in Seq(1..MaxMessages)

\* Messages come to their handlers in the order in which Route was called, and
\* none twice: neither the queue nor a handler that is replaced or exits
\* meanwhile repeats or overtakes one (_RouteForever).
SettledInOrder ==
  \A i, j \in 1..Len(settled) : i < j => settled[i] < settled[j]

\* Registrations race with _DeleteHandler, which erases by key: nevertheless
\* the handler registered last under a key is the one that gets its messages
\* until it exits, unless the erase was meant for its predecessor.
RegistrationKept ==
  \A k \in Keys :
    handlers[k] = latest[k] \/ latest[k] \in exiting \/ k \in overtaken

\* No handler is called, or can be found, after _DeleteHandler has freed it.
DeletedNotUsed ==
  /\ current \notin deleted
  /\ \A k \in Keys : handlers[k] \notin deleted

\* Every message that Route accepts comes to its handler, or to the finding
\* that it has none, unless the server is stopped first: the thread outlives
\* messages without a handler and handlers that exit.
EveryMessageSettled ==
  \A n \in 1..MaxMessages :
    n < nextId ~> (\E i \in 1..Len(settled) : settled[i] = n) \/ ~running \/ aborted

\* The thread has taken an item and not yet looked at the flag, or has seen it
\* cleared, and the sink has left no room for the dummy.
StopCaught == Len(queue) = Capacity /\ routerPc \in {"popped", "done"}

\* Stop returns, in spite of a loop thread that goes on routing, unless the
\* queue is full when the thread takes its last look.
StopReturnsUnlessCaught ==
  mainPc = "dummy" ~> mainPc = "ended" \/ StopCaught \/ aborted
=============================================================================
