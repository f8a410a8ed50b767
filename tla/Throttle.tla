------------------------------- MODULE Throttle -------------------------------
(***************************************************************************)
(* The login throttle (src/lib/runtime/login_throttle.cpp) as handleLogin  *)
(* of src/web_auth.cpp uses it: a table of clients with their failures,    *)
(* lockouts and when they were last seen, read on a 32-bit clock of        *)
(* milliseconds that wraps.                                                *)
(*                                                                         *)
(* The httpd task serves one request at a time and handleLogin reads the   *)
(* clock once, so an attempt is one step.                                  *)
(*                                                                         *)
(* An operator named Bug... is a plausible mistake in the definition that  *)
(* follows it, kept to show that the properties reject it.                 *)
(***************************************************************************)
EXTENDS Naturals, FiniteSets

CONSTANTS
  Clients,     (* the keys clientKey() can give: one per address            *)
  NoClient,    (* the key of a free entry                                   *)
  Capacity,    (* kMaxTrackedClients                                        *)
  MaxFailures, (* kMaxFailures                                              *)
  MaxCount,    (* the failures counted: 0xFF                                *)
  Lockout,     (* kLockoutMs, in clock units                                *)
  ClockMod     (* the clock wraps to 0 at ClockMod                          *)

ASSUME ThrottleAssumption ==
  /\ NoClient \notin Clients
  /\ Capacity \in Nat \ {0}
  /\ MaxFailures \in Nat \ {0}
  /\ MaxCount \in Nat /\ MaxCount >= MaxFailures
  /\ Lockout \in Nat \ {0}
  /\ ClockMod \in Nat /\ ClockMod > Lockout

VARIABLES
  entries,   (* entries_                                                    *)
  now,       (* static_cast<uint32_t>(nowMs())                              *)
  streak     (* history: failures of a client since its last success, counted
                up to MaxFailures                                           *)

throttleVars == <<entries, now, streak>>

Slots == 1 .. Capacity
Times == 0 .. ClockMod - 1

Entry == [client : Clients \cup {NoClient}, failures : 0 .. MaxCount,
          lockedUntil : Times, lastSeen : Times]

FreeEntry == [client |-> NoClient, failures |-> 0, lockedUntil |-> 0, lastSeen |-> 0]

ThrottleInit ==
  /\ entries = [s \in Slots |-> FreeEntry]
  /\ now \in Times
  /\ streak = [c \in Clients |-> 0]

-------------------------------------------------------------------------------
\* An entry under an active lockout; lockedUntil = 0 means none.
lockedEntry(e) == e.lockedUntil # 0 /\ now < e.lockedUntil

\* find(): a client has at most one entry.
tracks(s, c) == entries[s].client = c
Tracked(c)   == \E s \in Slots : tracks(s, c)
slotOf(c)    == CHOOSE s \in Slots : tracks(s, c)

isLocked(c) == Tracked(c) /\ lockedEntry(entries[slotOf(c)])

\* The first of a set of slots that was seen longest ago, by the raw clock readings.
Oldest(S) ==
  CHOOSE s \in S : \A t \in S :
    \/ entries[s].lastSeen < entries[t].lastSeen
    \/ entries[s].lastSeen = entries[t].lastSeen /\ s <= t

BugLeastRecent ==
  LET free == {s \in Slots : entries[s].client = NoClient}
  IN  IF free # {} THEN CHOOSE s \in free : \A t \in free : s <= t ELSE Oldest(Slots)

\* allocate(): the first free entry, else the oldest unlocked one, else the oldest.
allocated ==
  LET free     == {s \in Slots : entries[s].client = NoClient}
      unlocked == {s \in Slots : ~lockedEntry(entries[s])}
  IN  CASE free # {}     -> CHOOSE s \in free : \A t \in free : s <= t
        [] free = {} /\ unlocked # {} -> Oldest(unlocked)
        [] OTHER         -> Oldest(Slots)

BugCountUncapped(e) ==
  LET counted == IF e.lockedUntil # 0 THEN 1 ELSE e.failures + 1
  IN  IF lockedEntry(e) THEN [e EXCEPT !.lastSeen = now]
      ELSE [e EXCEPT !.lastSeen = now, !.failures = counted,
                     !.lockedUntil = IF counted >= MaxFailures
                                     THEN (now + Lockout) % ClockMod ELSE 0]

\* The entry after a failure, with the lockout it may start.  An active lockout is
\* never extended; an expired one starts the count again.  A lockout that would end
\* at time 0 is none, and the next failure starts one.
failed(e) ==
  LET before  == IF e.lockedUntil # 0 THEN 0 ELSE e.failures
      counted == IF before < MaxCount THEN before + 1 ELSE before
  IN  IF lockedEntry(e) THEN [e EXCEPT !.lastSeen = now]
      ELSE [e EXCEPT !.lastSeen = now, !.failures = counted,
                     !.lockedUntil = IF counted >= MaxFailures
                                     THEN (now + Lockout) % ClockMod ELSE 0]

recordFailure(c) ==
  IF Tracked(c)
  THEN LET s == slotOf(c) IN entries' = [entries EXCEPT ![s] = failed(entries[s])]
  ELSE LET s == allocated
       IN  entries' = [entries EXCEPT ![s] = failed([FreeEntry EXCEPT !.client = c])]

BugSuccessOnlyUnlocks(e) ==
  IF lockedEntry(e) THEN [e EXCEPT !.lastSeen = now]
  ELSE [e EXCEPT !.lastSeen = now, !.lockedUntil = 0]

\* The entry after a success; an active lockout wins.
succeeded(e) ==
  IF lockedEntry(e) THEN [e EXCEPT !.lastSeen = now]
  ELSE [e EXCEPT !.lastSeen = now, !.failures = 0, !.lockedUntil = 0]

\* An untracked client takes no entry by succeeding.
recordSuccess(c) ==
  IF Tracked(c)
  THEN LET s == slotOf(c) IN entries' = [entries EXCEPT ![s] = succeeded(entries[s])]
  ELSE UNCHANGED entries

-------------------------------------------------------------------------------
\* handleLogin: a locked client is answered at once, and its password is not tried.
attempt(c, right) ==
  /\ ~isLocked(c)
  /\ IF right
     THEN recordSuccess(c) /\ streak' = [streak EXCEPT ![c] = 0]
     ELSE /\ recordFailure(c)
          /\ streak' = [streak EXCEPT ![c] = IF @ < MaxFailures THEN @ + 1 ELSE @]
  /\ UNCHANGED now

\* Any time passes, one unit at a time, and the clock wraps.
tick ==
  /\ now' = (now + 1) % ClockMod
  /\ UNCHANGED <<entries, streak>>

ThrottleNext ==
  \/ \E c \in Clients, right \in BOOLEAN : attempt(c, right)
  \/ tick

ThrottleSpec == ThrottleInit /\ [][ThrottleNext]_throttleVars

-------------------------------------------------------------------------------
ThrottleTypeOK ==
  /\ entries \in [Slots -> Entry]
  /\ now \in Times
  /\ streak \in [Clients -> 0 .. MaxFailures]

\* No client is locked out that has not failed MaxFailures times since its last
\* success, whatever the others did and however the table was shared
\* (login_throttle.cpp:73-87).
LockoutIsEarned == \A c \in Clients : isLocked(c) => streak[c] = MaxFailures

\* No attempt of any client ends a lockout, unless every entry of the table is locked:
\* then there is nothing else to evict (login_throttle.cpp:19-21, "evict the oldest
\* UNLOCKED entry so an attacker can't flush a victim's lockout by spraying fresh keys").
LockoutSurvives ==
  [][\A c \in Clients : isLocked(c) /\ now' = now =>
       isLocked(c)' \/ \A s \in Slots : lockedEntry(entries[s])]_throttleVars
===============================================================================
