------------------------------ MODULE LRUCache ------------------------------
(***************************************************************************)
(* What cache.Memory promises: "a fixed-capacity least-recently-used       *)
(* cache" whose calls take effect one at a time.  The contents are a       *)
(* sequence of entries, most recently used first.  A call does what its    *)
(* caller asked for, with the arguments the caller gave, and judges        *)
(* expiration at some instant between its beginning and the moment it      *)
(* takes effect.                                                           *)
(***************************************************************************)
EXTENDS Naturals, Sequences, FiniteSets

CONSTANTS
    Keys, Values,
    Callers,    \* goroutines
    Capacity,
    TTLs,       \* times to live that callers ask for; 0 is "no expiration"
    Nothing     \* no argument, or a lookup that found no entry

VARIABLES
    clock,
    asked,      \* the call each caller is in: its arguments, and since when
    entries,    \* sequence of [key, value, expiresAt]
    answer      \* what each caller's last Get returned

abstractVars == <<clock, asked, entries, answer>>

IsExpired(e, now) == e.expiresAt # 0 /\ e.expiresAt <= now

\* The elements of s at these positions, in their order.
At(s, positions) ==
    [j \in 1..Cardinality(positions) |->
        s[CHOOSE i \in positions : Cardinality({h \in positions : h <= i}) = j]]

Without(k) ==
    LET s == entries
    IN  At(s, {i \in DOMAIN s : s[i].key # k})

\* What a caller can ask for now, and what it asks when it is in no call.
Requests ==
    [call : {"get", "delete"}, key : Keys,
     value : {Nothing}, ttl : {0}, since : {clock}]
    \cup [call : {"put"}, key : Keys,
          value : Values, ttl : TTLs, since : {clock}]
    \cup [call : {"purge"}, key : {Nothing},
          value : {Nothing}, ttl : {0}, since : {clock}]

Idle == [call |-> "idle", key |-> Nothing,
         value |-> Nothing, ttl |-> 0, since |-> 0]

Init ==
    /\ clock = 0
    /\ asked = [c \in Callers |-> Idle]
    /\ entries = <<>>
    /\ answer = [c \in Callers |-> Nothing]

Tick ==
    /\ clock' = clock + 1
    /\ UNCHANGED <<asked, entries, answer>>

Ask(c) ==
    /\ asked[c].call = "idle"
    /\ \E request \in Requests : asked' = [asked EXCEPT ![c] = request]
    /\ UNCHANGED <<clock, entries, answer>>

\* The call that c is in takes effect and is over.
Return(c, call) ==
    /\ asked[c].call = call
    /\ asked' = [asked EXCEPT ![c] = Idle]
    /\ UNCHANGED clock

\* Get of a key that is held and not expired returns and touches the entry.
Hit(c) ==
    /\ Return(c, "get")
    /\ \E i \in DOMAIN entries, now \in asked[c].since..clock :
          /\ entries[i].key = asked[c].key
          /\ ~IsExpired(entries[i], now)
          /\ answer' = [answer EXCEPT ![c] = entries[i].value]
          /\ entries' = <<entries[i]>> \o Without(asked[c].key)

\* Get of any other key finds nothing, and drops an expired entry.
Miss(c) ==
    /\ Return(c, "get")
    /\ \E now \in asked[c].since..clock : \A i \in DOMAIN entries :
          entries[i].key = asked[c].key => IsExpired(entries[i], now)
    /\ answer' = [answer EXCEPT ![c] = Nothing]
    /\ entries' = Without(asked[c].key)

\* Put replaces or inserts; a full cache loses its least recently used entry.
Store(c) ==
    /\ Return(c, "put")
    /\ \E now \in asked[c].since..clock :
          LET e == [key |-> asked[c].key, value |-> asked[c].value,
                    expiresAt |-> IF asked[c].ttl > 0
                                  THEN now + asked[c].ttl ELSE 0]
              stored == <<e>> \o Without(asked[c].key)
          IN  entries' = IF Len(stored) > Capacity
                         THEN SubSeq(stored, 1, Capacity)
                         ELSE stored
    /\ UNCHANGED answer

\* Delete drops the entry of its key, if there is one.
Invalidate(c) ==
    /\ Return(c, "delete")
    /\ entries' = Without(asked[c].key)
    /\ UNCHANGED answer

\* PurgeExpired drops the entries that have expired and no others.
DropExpired(c) ==
    /\ Return(c, "purge")
    /\ \E now \in asked[c].since..clock :
          LET s == entries
          IN  entries' = At(s, {i \in DOMAIN s : ~IsExpired(s[i], now)})
    /\ UNCHANGED answer

Next ==
    \/ Tick
    \/ \E c \in Callers :
          \/ Ask(c)
          \/ Hit(c)
          \/ Miss(c)
          \/ Store(c)
          \/ Invalidate(c)
          \/ DropExpired(c)

Spec == Init /\ [][Next]_abstractVars
=============================================================================
