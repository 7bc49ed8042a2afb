----------------------------- MODULE Notifications -----------------------------
(***************************************************************************)
(* NotificationsService with its cached unread counts, and the handler of  *)
(* document.processed events, which writes notifications of its own.       *)
(* A call goes from one await to the next; the notification it creates     *)
(* bears its name, the one an event makes for user u is <<event, u>>.      *)
(***************************************************************************)
EXTENDS Integers, FiniteSets

CONSTANTS
  Users,      \* the active users of one organization
  Calls,      \* requests to the service
  Who,        \* Who[c]: the user that makes request c, or that it notifies
  Events,     \* document.processed events
  Miss,       \* what the cache answers when it has no value
  MaxFaults   \* bound: failed calls and restarts

ASSUME WhoAssumption   == Who \in [Calls -> Users]
ASSUME MissAssumption  == Miss \notin Nat
ASSUME BoundAssumption == MaxFaults \in Nat

VARIABLES
  stored,       \* stored[u]: the notifications of u
  unread,       \* unread[u]: those with isRead = false
  cache,        \* cache[u]: the value under u's unread key
  pc, item, got, \* of each call: its step, notification, count
  epc, heard,   \* of each event: whether its loop runs, users it has served
  faults,
  overtaken,    \* history: counts taken before a change and not yet stored
  tainted,      \* history: users whose cached value such a count overwrote
  bypassed      \* history: users whose count an event changed under a cached value

rows    == <<stored, unread>>
locals  == <<item, got>>
events  == <<epc, heard>>
history == <<overtaken, tainted, bypassed>>
vars    == <<rows, cache, pc, locals, events, faults, history>>

Items    == Calls \cup (Events \X Users)
Ended    == {"done", "denied", "error", "lost"}
CallPc   == {"idle", "mark", "remove", "del", "count", "set"} \cup Ended
InFlight(c) == pc[c] \notin Ended \cup {"idle"}
Count(u) == Cardinality(unread[u])

Init ==
  /\ stored = [u \in Users |-> {}] /\ unread = stored
  /\ cache = [u \in Users |-> Miss]
  /\ pc = [c \in Calls |-> "idle"]
  /\ item = [c \in Calls |-> c] /\ got = [c \in Calls |-> 0]
  /\ epc = [e \in Events |-> "idle"] /\ heard = [e \in Events |-> {}]
  /\ faults = 0 /\ overtaken = {} /\ tainted = {} /\ bypassed = {}

Goto(c, from, to) == pc[c] = from /\ pc' = [pc EXCEPT ![c] = to]
Answered == UNCHANGED faults
Rejected == faults < MaxFaults /\ faults' = faults + 1

\* The rows of u become S, T of them unread; counts under way are overtaken.
Write(u, S, T) ==
  /\ stored' = [stored EXCEPT ![u] = S] /\ unread' = [unread EXCEPT ![u] = T]
  /\ overtaken' = IF T = unread[u] THEN overtaken
                  ELSE overtaken \cup {c \in Calls : pc[c] = "set" /\ Who[c] = u}

----------------------------------------------------------------------------
(* create, markAllAsRead, markAsRead, delete: a write, then cache.del *)

Create(c) ==
  /\ Goto(c, "idle", "del") /\ Answered
  /\ Write(Who[c], stored[Who[c]] \cup {c}, unread[Who[c]] \cup {c})
  /\ UNCHANGED <<cache, locals, events, tainted, bypassed>>

MarkAllAsRead(c) ==
  /\ Goto(c, "idle", "del") /\ Answered
  /\ Write(Who[c], stored[Who[c]], {})
  /\ UNCHANGED <<cache, locals, events, tainted, bypassed>>

\* markAsRead and delete find the row first.
Find(c, i) ==
  /\ IF i \in stored[Who[c]] THEN Goto(c, "idle", "mark") \/ Goto(c, "idle", "remove")
                             ELSE Goto(c, "idle", "denied")
  /\ item' = [item EXCEPT ![c] = i] /\ Answered
  /\ UNCHANGED <<rows, cache, got, events, history>>

\* A row that is gone by now rejects the update.
Change(c, from, S, T) ==
  /\ Goto(c, from, IF item[c] \in stored[Who[c]] THEN "del" ELSE "error") /\ Answered
  /\ IF item[c] \in stored[Who[c]] THEN Write(Who[c], S, T) ELSE UNCHANGED <<rows, overtaken>>
  /\ UNCHANGED <<cache, locals, events, tainted, bypassed>>

MarkAsRead(c) == Change(c, "mark", stored[Who[c]], unread[Who[c]] \ {item[c]})
DeleteRow(c)  == Change(c, "remove", stored[Who[c]] \ {item[c]}, unread[Who[c]] \ {item[c]})

Fresh(u) == tainted' = tainted \ {u} /\ bypassed' = bypassed \ {u}

\* Mutant: a write does not invalidate.
DelForgotten(c) ==
  /\ Goto(c, "del", "done") /\ Answered
  /\ UNCHANGED <<rows, cache, locals, events, history>>

\* A cache that fails is not noticed.
Del(c) ==
  /\ Goto(c, "del", "done")
  /\ \/ Answered /\ cache' = [cache EXCEPT ![Who[c]] = Miss] /\ Fresh(Who[c])
     \/ Rejected /\ UNCHANGED <<cache, tainted, bypassed>>
  /\ UNCHANGED <<rows, locals, events, overtaken>>

----------------------------------------------------------------------------
(* getUnreadCount *)

Peek(c) ==
  /\ \/ Answered /\ Goto(c, "idle", IF cache[Who[c]] = Miss THEN "count" ELSE "done")
     \/ Rejected /\ Goto(c, "idle", "count")
  /\ UNCHANGED <<rows, cache, locals, events, history>>

CountRows(c) ==
  /\ Goto(c, "count", "set") /\ Answered
  /\ got' = [got EXCEPT ![c] = Count(Who[c])]
  /\ UNCHANGED <<rows, cache, item, events, history>>

Set(c) ==
  /\ Goto(c, "set", "done")
  /\ \/ /\ Answered /\ cache' = [cache EXCEPT ![Who[c]] = got[c]]
        /\ tainted' = IF c \in overtaken THEN tainted \cup {Who[c]} ELSE tainted \ {Who[c]}
        /\ bypassed' = bypassed \ {Who[c]}
     \/ Rejected /\ UNCHANGED <<cache, tainted, bypassed>>
  /\ UNCHANGED <<rows, locals, events, overtaken>>

\* The TTL of 15 s.
Expire(u) ==
  /\ cache[u] # Miss
  /\ cache' = [cache EXCEPT ![u] = Miss] /\ Fresh(u)
  /\ UNCHANGED <<rows, pc, locals, events, faults, overtaken>>

\* PostgreSQL rejects the statement a call waits for.
Reject(c) ==
  /\ Rejected
  /\ \E from \in {"idle", "mark", "remove", "count"} : Goto(c, from, "error")
  /\ UNCHANGED <<rows, cache, locals, events, history>>

----------------------------------------------------------------------------
(* NotificationHandler.handleDocumentProcessed *)

Publish(e) ==
  /\ epc[e] = "idle" /\ epc' = [epc EXCEPT ![e] = "loop"]
  /\ UNCHANGED <<rows, cache, pc, locals, heard, faults, history>>

\* Mutant: the loop returns after its first user.
DeliverOne(e) ==
  /\ epc[e] = "loop" /\ epc' = [epc EXCEPT ![e] = "done"]
  /\ \E u \in Users \ heard[e] :
       /\ Write(u, stored[u] \cup {<<e, u>>}, unread[u] \cup {<<e, u>>})
       /\ heard' = [heard EXCEPT ![e] = @ \cup {u}]
       /\ bypassed' = IF cache[u] = Miss THEN bypassed ELSE bypassed \cup {u}
  /\ Answered /\ UNCHANGED <<cache, pc, locals, tainted>>

\* One user after another, in the database's order, and never cache.del.
Deliver(e) ==
  /\ epc[e] = "loop"
  /\ \E u \in Users \ heard[e] :
       /\ Write(u, stored[u] \cup {<<e, u>>}, unread[u] \cup {<<e, u>>})
       /\ heard' = [heard EXCEPT ![e] = @ \cup {u}]
       /\ epc' = [epc EXCEPT ![e] = IF heard[e] \cup {u} = Users THEN "done" ELSE "loop"]
       /\ bypassed' = IF cache[u] = Miss THEN bypassed ELSE bypassed \cup {u}
  /\ Answered /\ UNCHANGED <<cache, pc, locals, tainted>>

\* A create that fails ends the loop: the users left hear nothing.
Stop(e) ==
  /\ epc[e] = "loop" /\ epc' = [epc EXCEPT ![e] = "stopped"]
  /\ Rejected /\ UNCHANGED <<rows, cache, pc, locals, heard, history>>

----------------------------------------------------------------------------

\* Redis keeps its values; the in-memory fallback does not.
Crash ==
  /\ Rejected
  /\ pc' = [c \in Calls |-> IF InFlight(c) THEN "lost" ELSE pc[c]]
  /\ epc' = [e \in Events |-> IF epc[e] = "loop" THEN "stopped" ELSE epc[e]]
  /\ \/ UNCHANGED <<cache, tainted, bypassed>>
     \/ cache' = [u \in Users |-> Miss] /\ tainted' = {} /\ bypassed' = {}
  /\ UNCHANGED <<rows, locals, heard, overtaken>>

Writes(c) == Create(c) \/ MarkAllAsRead(c) \/ MarkAsRead(c) \/ DeleteRow(c) \/ Del(c)
               \/ \E i \in Items : Find(c, i)
Reads(c)  == Peek(c) \/ CountRows(c) \/ Set(c)

Next ==
  \/ \E c \in Calls : Writes(c) \/ Reads(c) \/ Reject(c)
  \/ \E u \in Users : Expire(u)
  \/ \E e \in Events : Publish(e) \/ Deliver(e) \/ Stop(e)
  \/ Crash

\* The loop's awaited creates are settled in the end.
Fairness == \A e \in Events : WF_vars(Deliver(e) \/ Stop(e))

Spec == Init /\ [][Next]_vars /\ Fairness
----------------------------------------------------------------------------
(* Properties *)

TypeOK ==
  /\ stored \in [Users -> SUBSET Items] /\ unread \in [Users -> SUBSET Items]
  /\ cache \in [Users -> 0 .. Cardinality(Items) \cup {Miss}]
  /\ pc \in [Calls -> CallPc]
  /\ item \in [Calls -> Items] /\ got \in [Calls -> 0 .. Cardinality(Items)]
  /\ epc \in [Events -> {"idle", "loop", "done", "stopped"}] /\ heard \in [Events -> SUBSET Users]
  /\ faults \in 0 .. MaxFaults
  /\ overtaken \subseteq Calls /\ tainted \subseteq Users /\ bypassed \subseteq Users

Wrong(u) == cache[u] # Miss /\ cache[u] # Count(u)
Invalidating(u) == \E c \in Calls : pc[c] = "del" /\ Who[c] = u

\* While the cache and the process do not fail, a cached unread count is wrong
\* only until the write that changed it deletes the key, or because a reader
\* counted before a write and stored after its delete, or because an event
\* notified the user behind the cache (notifications.service.ts:87, 97;
\* notification.handler.ts:23).
WrongCountExplained ==
  faults = 0 => \A u \in Users : Wrong(u) => Invalidating(u) \/ u \in tainted \cup bypassed

\* Every active user hears of a processed document, unless a create was
\* rejected or the process died (notification.handler.ts:22).
EveryoneHears ==
  \A e \in Events, u \in Users :
    epc[e] = "loop" ~> (u \in heard[e] \/ faults > 0)

==============================================================================
