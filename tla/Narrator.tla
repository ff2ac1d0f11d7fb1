------------------------------ MODULE Narrator ------------------------------
(***************************************************************************)
(* Explanations with a narrative: explainCode after its statements         *)
(* (internal/api/server.go) and Narrate with its cache, a sync.Map, and    *)
(* its one call of an LLM (internal/explain/narrative.go).  Requests run   *)
(* at the same time; each Load, Delete and Store of the cache is a step.   *)
(* ShopScans says where the input of an explanation comes from; here it is *)
(* one of the inputs of the behaviour.                                     *)
(*                                                                         *)
(* Time is counted in parts of the 24 hours of CacheTTL.  The call gives   *)
(* up after 45 seconds or when the client is gone.                         *)
(***************************************************************************)
EXTENDS Triage

CONSTANTS
  Requests,   \* handlers of GET /v1/codes/{code}/explain that run at a time
  Behaviours, \* [inputs, asks, until]: what is asked, how often, for how long
  TTL         \* CacheTTL

\* What an explanation is asked with, as the handler reads it.
AnyReading == Int \cup {None}
AnyFrame   == [rpm : AnyReading] \cup {None}
AnySample  ==
  [ {"rpm", "speed", "st", "lt", "maf", "load", "front", "rear", "volts"} -> AnyReading ]
    \cup {None}

AnyInput ==
  [ focus   : Nat,
    codes   : SUBSET Nat,
    frame   : AnyFrame,
    obs     : [live : AnySample, link : Nat \cup {None}, frame : AnyFrame] \cup {None},
    co      : Seq([code : Nat, with : Nat, of : Nat]),
    article : STRING \cup {None},
    vehicle : STRING \cup {None},
    history : Seq(Nat) ]

AnyLoad == [inputs : SUBSET AnyInput, asks : Nat, until : Nat]

ASSUME NarratorAssumption ==
  /\ TTL \in Nat \ {0}
  /\ Behaviours \subseteq AnyLoad

VARIABLES
  enabled,   \* LLM_ENABLED and an API key
  load,      \* the inputs, and the asks and the time that are left
  now,
  cache,     \* fingerprint -> the packet whose text it is, and its CreatedAt
  req,       \* the handlers
  made,      \* observes: every text that was stored
  raced      \* observes: fingerprints whose entry another request's Delete took

narratorVars == <<enabled, load, now, cache, req, made, raced>>

NoPacket == [code |-> None]

\* A text is known by the packet it is of; its "at" is its CreatedAt.
NoEntry == [key |-> NoPacket, of |-> NoPacket, at |-> 0]

\* "seen" is the entry Load gave and Delete is for, "text" the packet of the text of the
\* reply and "age" that of a cached one; "reason" is SkipReason.
NoRequest ==
  [ pc |-> "idle", in |-> None, packet |-> NoPacket, force |-> FALSE,
    seen |-> NoEntry, text |-> NoPacket, age |-> 0, reason |-> "" ]

NarratorInit ==
  /\ enabled \in BOOLEAN
  /\ load \in Behaviours
  /\ now = 0
  /\ cache = {}
  /\ req = [r \in Requests |-> NoRequest]
  /\ made = {}
  /\ raced = {}
-----------------------------------------------------------------------------
At(r, pc) == req[r].pc = pc

\* Mutant of Fingerprint: the code alone.
FingerprintOfCode(p) == p.code

\* A hash of the packet: equal for equal packets, different for different ones.
Fingerprint(p) == p

Entries(key) == { e \in cache : e.key = key }

\* time.Since(CreatedAt) < CacheTTL.
Fresh(e) == now - e.at < TTL

\* The findings and the packet of an explanation; ?narrative=1 goes on to Narrate, and
\* only ?force_narrative=1 forces it.
Explains(r) ==
  /\ At(r, "idle")
  /\ load.asks > 0
  /\ load' = [load EXCEPT !.asks = @ - 1]
  /\ \E in \in load.inputs, narrative, force \in BOOLEAN :
       req' = [req EXCEPT ![r] =
         [NoRequest EXCEPT !.pc = IF narrative THEN "narrate" ELSE "reply",
                       !.in = in, !.packet = BuildPacket(in), !.force = force]]
  /\ UNCHANGED <<enabled, now, cache, made, raced>>

\* The gate: worth it, and a model to ask.
Narrates(r) ==
  LET worth == WorthNarrating(req[r].packet, req[r].force) IN
  /\ At(r, "narrate")
  /\ req' =
       IF worth \notin {"forced", "ok"}
       THEN [req EXCEPT ![r].pc = "reply", ![r].reason = worth]
       ELSE IF ~enabled
       THEN [req EXCEPT ![r].pc = "reply", ![r].reason = "llm_disabled"]
       ELSE [req EXCEPT ![r].pc = "load"]
  /\ UNCHANGED <<enabled, load, now, cache, made, raced>>

\* cache.Load, and the age of what it gives.
Loads(r) ==
  LET found == Entries(Fingerprint(req[r].packet)) IN
  /\ At(r, "load")
  /\ \/ /\ found = {}
        /\ req' = [req EXCEPT ![r].pc = "call"]
     \/ \E e \in found :
          req' = IF Fresh(e)
                 THEN [req EXCEPT ![r].pc = "reply", ![r].text = e.of,
                                  ![r].age = now - e.at]
                 ELSE [req EXCEPT ![r].pc = "delete", ![r].seen = e]
  /\ UNCHANGED <<enabled, load, now, cache, made, raced>>

\* cache.Delete takes what is there now, expired or not.
Deletes(r) ==
  LET key == Fingerprint(req[r].packet) IN
  /\ At(r, "delete")
  /\ cache' = cache \ Entries(key)
  /\ raced' = IF Entries(key) \ {req[r].seen} # {} THEN raced \cup {key} ELSE raced
  /\ req' = [req EXCEPT ![r].pc = "call", ![r].seen = NoEntry]
  /\ UNCHANGED <<enabled, load, now, made>>

\* The model answers with a text of this packet.
Completes(r) ==
  /\ At(r, "call")
  /\ req' = [req EXCEPT ![r].pc = "store", ![r].text = req[r].packet]
  /\ UNCHANGED <<enabled, load, now, cache, made, raced>>

\* Out of time, the client gone, a bad status or an empty answer.
CallFails(r) ==
  /\ At(r, "call")
  /\ req' = [req EXCEPT ![r].pc = "reply", ![r].reason = "llm_error"]
  /\ UNCHANGED <<enabled, load, now, cache, made, raced>>

\* Mutant of Stores: nothing is stored.
StoresNothing(r) ==
  LET e == [key |-> Fingerprint(req[r].packet), of |-> req[r].text, at |-> now] IN
  /\ At(r, "store")
  /\ made' = made \cup {e}
  /\ req' = [req EXCEPT ![r].pc = "reply"]
  /\ UNCHANGED <<enabled, load, now, cache, raced>>

\* cache.Store.
Stores(r) ==
  LET e == [key |-> Fingerprint(req[r].packet), of |-> req[r].text, at |-> now] IN
  /\ At(r, "store")
  /\ cache' = (cache \ Entries(e.key)) \cup {e}
  /\ made' = made \cup {e}
  /\ req' = [req EXCEPT ![r].pc = "reply"]
  /\ UNCHANGED <<enabled, load, now, raced>>

Replies(r) ==
  /\ At(r, "reply")
  /\ req' = [req EXCEPT ![r] = NoRequest]
  /\ UNCHANGED <<enabled, load, now, cache, made, raced>>

Tick ==
  /\ load.until > 0
  /\ load' = [load EXCEPT !.until = @ - 1]
  /\ now' = now + 1
  /\ UNCHANGED <<enabled, cache, req, made, raced>>

NarratorNext ==
  \/ \E r \in Requests :
       \/ Explains(r) \/ Narrates(r) \/ Loads(r) \/ Deletes(r)
       \/ Completes(r) \/ CallFails(r) \/ Stores(r) \/ Replies(r)
  \/ Tick

NarratorSpec == NarratorInit /\ [][NarratorNext]_narratorVars
-----------------------------------------------------------------------------
(* Properties *)

InHand(r) == ~At(r, "idle")

\* The packet holds the three strongest findings of all rules in their order.
StrongestInPacket ==
  \A r \in Requests : InHand(r) => KeepsStrongest(req[r].in, req[r].packet.findings)

\* To ask about a code is as good as to have it in the scan: every finding that
\* depends on a code is there either way.  P0174 and the air mass are the exception
\* the code makes, a cylinder's code counts cylinders of the scan.
FocusIsEnough ==
  \A r \in Requests : InHand(r) =>
    LET in == req[r].in
        scanned == [in EXCEPT !.codes = @ \cup {in.focus}]
        air == IF in.focus = 174 THEN {"maf.low_vs_rpm", "maf.high_vs_rpm"} ELSE {} IN
    in.focus \in Cylinders \/ Ids(in) \ air = Ids(scanned) \ air

\* The text of a reply was written for its own packet, and one from the cache was less
\* than a day old when it was looked up.
TextIsOwn ==
  \A r \in Requests : At(r, "reply") /\ req[r].text # NoPacket =>
    req[r].text = req[r].packet /\ req[r].age < TTL

\* A model is not asked again within the day after the text of the same packet was
\* stored, unless a Delete took a fresh entry for the expired one its request had seen.
CachedForADay ==
  [][\A r \in Requests : At(r, "load") /\ req'[r].pc \in {"delete", "call"} =>
       LET key == Fingerprint(req[r].packet) IN
       key \in raced \/ \A t \in made : t.key = key => now - t.at >= TTL]_narratorVars
-----------------------------------------------------------------------------
(* The inductive invariant of these properties *)

Packets == { BuildPacket(in) : in \in load.inputs } \cup {NoPacket}

AnyEntry == [key : Packets, of : Packets, at : Nat]

AnyRequest ==
  [ pc     : {"idle", "narrate", "load", "delete", "call", "store", "reply"},
    in     : load.inputs \cup {None},
    packet : Packets,
    force  : BOOLEAN,
    seen   : AnyEntry,
    text   : Packets,
    age    : Nat,
    reason : {"", "no_findings_or_kb", "kb_only", "structured_sufficient", "llm_disabled",
              "llm_error"} ]

\* What a handler has is of its own input; a text is of its own packet, and at the
\* Delete the entry that was seen is a day old.
RequestIsSound(r) ==
  LET q == req[r] IN
  /\ InHand(r) => q.in \in load.inputs /\ q.packet = BuildPacket(q.in)
  /\ InHand(r) => q.text \in {NoPacket, q.packet}
  /\ InHand(r) /\ q.packet.findings # <<>> => q.reason \in {"", "llm_disabled", "llm_error"}
  /\ At(r, "store") => q.text = q.packet
  /\ q.age < TTL
  /\ At(r, "delete") => ~Fresh(q.seen)

\* The cache has one entry of a packet at most, with the packet's own text, and no text
\* is from the future.
CacheIsSound ==
  /\ \A e \in cache : e.of = e.key
  /\ \A e, f \in cache : e.key = f.key => e = f
  /\ \A t \in cache \cup made : t.at <= now

\* A text that was stored less than a day ago is there, or a later one, unless a Delete
\* took another entry than it had seen.
FreshIsKept ==
  \A t \in made : Fresh(t) =>
    t.key \in raced \/ \E e \in cache : e.key = t.key /\ e.at >= t.at

NarratorTypes ==
  /\ load \in AnyLoad
  /\ now \in Nat
  /\ cache \subseteq AnyEntry
  /\ made \subseteq AnyEntry
  /\ req \in [Requests -> AnyRequest]

NarratorInv ==
  /\ NarratorTypes
  /\ \A r \in Requests : RequestIsSound(r)
  /\ CacheIsSound
  /\ FreshIsKept
=============================================================================
