---------------------------- MODULE MemoryCache -----------------------------
(***************************************************************************)
(* cache.Memory: a map of entries and a doubly linked list of them in      *)
(* order of use, guarded by one mutex.  Get, Put and PurgeExpired read the *)
(* clock before they take the mutex, so two calls can use their readings   *)
(* in either order; each call is therefore two steps, Begin and its locked *)
(* section.                                                                *)
(*                                                                         *)
(* The map holds at most one entry per key and no reference to a removed   *)
(* entry survives, so the key stands for the pointer to its entry.  A call *)
(* whose context is done returns before it reads the clock and changes     *)
(* nothing.  The counters of Snapshot and the observers, which only report *)
(* what happened, are left out.                                            *)
(***************************************************************************)
EXTENDS Naturals, Sequences, FiniteSets, SequencesExt

CONSTANTS
    Keys, Values,
    Callers,    \* goroutines
    Capacity,
    TTLs,       \* times to live that callers ask for; 0 is "no expiration"
    MaxTime,    \* bound on the clock
    Nil,        \* no entry
    Nothing     \* no argument, or a lookup that found no entry

\* NewMemory refuses a capacity below one and Put a negative TTL.
ASSUME CacheAssumption ==
    /\ Capacity \in Nat \ {0}
    /\ TTLs \subseteq Nat
    /\ MaxTime \in Nat
    /\ Nil \notin Keys \cup [value : Values, expiresAt : Nat]
    /\ Nothing \notin Values

VARIABLES
    clock,      \* memory.clock()
    op,         \* the call each caller is in
    arg,        \* its key, value, TTL and clock reading
    items,      \* memory.items: key to [value, expiresAt], or Nil
    list,       \* memory.head, memory.tail and the entries' links
    answer      \* what each caller's last Get returned

vars == <<clock, op, arg, items, list, answer>>

Links == [Keys -> Keys \cup {Nil}]
EmptyList ==
    [head |-> Nil, tail |-> Nil,
     previous |-> [k \in Keys |-> Nil], next |-> [k \in Keys |-> Nil]]

\* The arguments of a caller that is in no call.
NoArg == [key |-> Nothing, value |-> Nothing, ttl |-> 0, now |-> 0]

Init ==
    /\ clock = 0
    /\ op = [c \in Callers |-> "idle"]
    /\ arg = [c \in Callers |-> NoArg]
    /\ items = [k \in Keys |-> Nil]
    /\ list = EmptyList
    /\ answer = [c \in Callers |-> Nothing]

Held == {k \in Keys : items[k] # Nil}

-----------------------------------------------------------------------------
\* The list.

insertFront(l, k) ==
    [head |-> k,
     tail |-> IF l.head = Nil THEN k ELSE l.tail,
     previous |-> [x \in Keys |-> CASE x = k -> Nil
                                    [] x # k /\ x = l.head -> k
                                    [] OTHER -> l.previous[x]],
     next |-> [l.next EXCEPT ![k] = l.head]]

\* Mutant of unlink: the entry behind k still points back at it.
unlinkForward(l, k) ==
    LET p == l.previous[k]
        n == l.next[k]
    IN  [head |-> IF p = Nil THEN n ELSE l.head,
         tail |-> IF n = Nil THEN p ELSE l.tail,
         previous |-> [l.previous EXCEPT ![k] = Nil],
         next |-> [x \in Keys |-> CASE x = k -> Nil
                                    [] x # k /\ x = p -> n
                                    [] OTHER -> l.next[x]]]

unlink(l, k) ==
    LET p == l.previous[k]
        n == l.next[k]
    IN  [head |-> IF p = Nil THEN n ELSE l.head,
         tail |-> IF n = Nil THEN p ELSE l.tail,
         previous |-> [x \in Keys |-> CASE x = k -> Nil
                                        [] x # k /\ x = n -> p
                                        [] OTHER -> l.previous[x]],
         next |-> [x \in Keys |-> CASE x = k -> Nil
                                    [] x # k /\ x = p -> n
                                    [] OTHER -> l.next[x]]]

\* Mutant of moveToFront: a used entry keeps its place.
moveNowhere(l, k) == l

moveToFront(l, k) ==
    IF k = l.head THEN l ELSE insertFront(unlink(l, k), k)

\* The removals of PurgeExpired, one after the other.
unlinkAll(l, order) ==
    LET after[i \in 0..Len(order)] ==
          IF i = 0 THEN l ELSE unlink(after[i - 1], order[i])
    IN  after[Len(order)]

\* Mutant of expired: the zero time is a time that has passed.
expiredAtZero(item, now) == item.expiresAt <= now

expired(item, now) == item.expiresAt # 0 /\ item.expiresAt <= now

\* Mutant of Found: the value of an expired entry is returned all the same.
FoundExpired(item, now) == IF item # Nil THEN item.value ELSE Nothing

\* What Get returns for the entry, or its absence, that it finds.
Found(item, now) ==
    IF item # Nil /\ ~expired(item, now) THEN item.value ELSE Nothing

-----------------------------------------------------------------------------
\* Calls.

\* Time passes.
Tick ==
    /\ clock < MaxTime
    /\ clock' = clock + 1
    /\ UNCHANGED <<op, arg, items, list, answer>>

\* Up to the mutex: the context is not done, and the clock is read.
Begin(c, call, k, v, ttl) ==
    /\ op[c] = "idle"
    /\ op' = [op EXCEPT ![c] = call]
    /\ arg' = [arg EXCEPT ![c] =
                 [key |-> k, value |-> v, ttl |-> ttl, now |-> clock]]
    /\ UNCHANGED <<clock, items, list, answer>>

Return(c) ==
    /\ op' = [op EXCEPT ![c] = "idle"]
    /\ arg' = [arg EXCEPT ![c] = NoArg]
    /\ UNCHANGED clock

\* The locked section of Get: a miss, an expired entry that is removed, or a
\* hit that becomes the most recently used entry.
Get(c) ==
    LET k == arg[c].key
        isExpired == items[k] # Nil /\ expired(items[k], arg[c].now)
        isHit == items[k] # Nil /\ ~expired(items[k], arg[c].now)
    IN  /\ op[c] = "get"
        /\ items' = IF isExpired THEN [items EXCEPT ![k] = Nil] ELSE items
        /\ list' = CASE isExpired -> unlink(list, k)
                     [] isHit -> moveToFront(list, k)
                     [] OTHER -> list
        /\ answer' = [answer EXCEPT ![c] = Found(items[k], arg[c].now)]
        /\ Return(c)

\* The locked section of Put: replace, or insert and evict the tail.
Put(c) ==
    LET k == arg[c].key
        item == [value |-> arg[c].value,
                 expiresAt |-> IF arg[c].ttl > 0 THEN arg[c].now + arg[c].ttl
                               ELSE 0]
        pushed == insertFront(list, k)
        evicts == Cardinality(Held) + 1 > Capacity
    IN  /\ op[c] = "put"
        /\ IF items[k] # Nil
           THEN /\ items' = [items EXCEPT ![k] = item]
                /\ list' = moveToFront(list, k)
           ELSE /\ items' = [x \in Keys |->
                               CASE x = k -> item
                                 [] evicts /\ x = pushed.tail -> Nil
                                 [] OTHER -> items[x]]
                /\ list' = IF evicts THEN unlink(pushed, pushed.tail)
                           ELSE pushed
        /\ UNCHANGED answer
        /\ Return(c)

\* The locked section of Delete.
Delete(c) ==
    LET k == arg[c].key
    IN  /\ op[c] = "delete"
        /\ items' = [items EXCEPT ![k] = Nil]
        /\ list' = IF items[k] = Nil THEN list ELSE unlink(list, k)
        /\ UNCHANGED answer
        /\ Return(c)

\* The locked section of PurgeExpired.  The map is visited in any order.
PurgeExpired(c) ==
    LET gone == {k \in Held : expired(items[k], arg[c].now)}
    IN  /\ op[c] = "purge"
        /\ items' = [k \in Keys |-> IF k \in gone THEN Nil ELSE items[k]]
        /\ \E order \in SetToSeqs(gone) : list' = unlinkAll(list, order)
        /\ UNCHANGED answer
        /\ Return(c)

Call(c) ==
    \/ \E k \in Keys : \/ Begin(c, "get", k, Nothing, 0)
                       \/ Begin(c, "delete", k, Nothing, 0)
                       \/ \E v \in Values, ttl \in TTLs :
                             Begin(c, "put", k, v, ttl)
    \/ Begin(c, "purge", Nothing, Nothing, 0)

Next ==
    \/ Tick
    \/ \E c \in Callers :
          Call(c) \/ Get(c) \/ Put(c) \/ Delete(c) \/ PurgeExpired(c)

Spec == Init /\ [][Next]_vars

-----------------------------------------------------------------------------
\* Properties.

\* Every variable has its type.
TypeOK ==
    /\ clock \in 0..MaxTime
    /\ op \in [Callers -> {"idle", "get", "put", "delete", "purge"}]
    /\ arg \in [Callers -> [key : Keys \cup {Nothing},
                            value : Values \cup {Nothing},
                            ttl : TTLs \cup {0}, now : 0..MaxTime]]
    /\ items \in [Keys -> {Nil} \cup [value : Values, expiresAt : Nat]]
    /\ list \in [head : Keys \cup {Nil}, tail : Keys \cup {Nil},
                 previous : Links, next : Links]
    /\ answer \in [Callers -> Values \cup {Nothing}]

\* The i-th of keys, and nothing beyond either end.
KeyAt(keys, i) == IF i \in DOMAIN keys THEN keys[i] ELSE Nil

\* The list is keys from head to tail, and back.
Linked(l, keys) ==
    /\ l.head = KeyAt(keys, 1)
    /\ l.tail = KeyAt(keys, Len(keys))
    /\ \A i \in DOMAIN keys : /\ l.previous[keys[i]] = KeyAt(keys, i - 1)
                              /\ l.next[keys[i]] = KeyAt(keys, i + 1)

\* The list and the map hold the same entries: followed from its head the
\* list visits every held key once and ends at its tail, followed back from
\* the tail it visits them in reverse, and what was removed is linked to
\* nothing.  unlink and insertFront keep it so through every order of calls,
\* which is what makes memory.tail the entry to evict.
ListMatchesMap ==
    /\ \E keys \in SetToSeqs(Held) : Linked(list, keys)
    /\ \A k \in Keys \ Held : list.previous[k] = Nil /\ list.next[k] = Nil

\* The held keys in the order of the list.
Order == CHOOSE keys \in [1..Cardinality(Held) -> Held] : Linked(list, keys)

\* The calls, each asked when it read the clock, and the entries in the order
\* of use.
Asked ==
    [c \in Callers |->
       [call |-> op[c], key |-> arg[c].key, value |-> arg[c].value,
        ttl |-> arg[c].ttl, since |-> arg[c].now]]

Entries ==
    LET keys == Order
    IN  [i \in DOMAIN keys |->
           [key |-> keys[i], value |-> items[keys[i]].value,
            expiresAt |-> items[keys[i]].expiresAt]]

\* cache.Memory implements LRUCache: with any interleaving of callers, each
\* of Get, Put, Delete and PurgeExpired behaves as one atomic operation on
\* a least-recently-used sequence of at most Capacity entries.  The operation
\* is the one the caller asked for, on its key and with its value and TTL; Get
\* answers what the sequence holds for that key.  A call judges expiration at
\* an instant of its own duration although it reads the clock before it takes
\* the mutex.
LRU == INSTANCE LRUCache WITH asked <- Asked, entries <- Entries

\* The property TLC checks; see LRU.
ImplementsLRU == LRU!Spec
=============================================================================
