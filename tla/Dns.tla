--------------------------------- MODULE Dns ---------------------------------
(***************************************************************************)
(* The stub resolver of src/dns.c: the cache dns_cache[8], the table of    *)
(* outstanding queries qtracks[8], the transaction id counter qid_counter, *)
(* dns_query_async, dns_on_response and the polling loop of dns_resolve,   *)
(* against one upstream server and a UDP path that may lose, delay and     *)
(* duplicate messages.                                                     *)
(*                                                                         *)
(* Data abstraction.  A name is a model value; NoName is the empty string  *)
(* that qtrack_clear leaves in a free slot.  Addr gives each name the      *)
(* address the server answers with; Zero is the address 0.0.0.0, which    *)
(* also marks a free cache slot.  A response is its transaction id, the    *)
(* address of its A answer (NoAnswer when it has none) and whether it is   *)
(* well formed: a malformed one makes dns_on_response return early.  The   *)
(* transaction id is the 16-bit counter itself, with its start value.      *)
(* One poll of the NIC delivers every message that has arrived.            *)
(***************************************************************************)
EXTENDS Naturals, FiniteSets, FiniteSetsExt, SequencesExt

CONSTANTS Names,       \* names the application resolves
          Unpackable,  \* names pack_name rejects (a label of 0 or > 63 bytes)
          Addresses,   \* addresses the server can answer with
          Addr,        \* Addr[n]: the server's A record for n
          Zero,        \* the address 0.0.0.0
          NoName,      \* the empty string
          NoAnswer,    \* a response without a usable A record
          CacheSize,   \* DNS_CACHE_ENTRIES (8 in the code)
          TrackSize,   \* DNS_OUTSTANDING (8 in the code)
          PollBudget,  \* polls of dns_resolve before it gives up (20000)
          MaxResolves, \* bound on dns_resolve calls
          Lossy,       \* whether the UDP path loses messages
          Dup,         \* whether the UDP path duplicates messages
          ServerFaults \* whether the server may answer without A or malformed

ASSUME /\ Unpackable \subseteq Names
       /\ Addr \in [Names -> Addresses \cup {Zero}]
       /\ Zero \notin Addresses /\ NoName \notin Names
       /\ NoAnswer \notin Addresses \cup {Zero}
       /\ {CacheSize, TrackSize, PollBudget} \subseteq Nat \ {0}
       /\ MaxResolves \in Nat
       /\ {Lossy, Dup, ServerFaults} \subseteq BOOLEAN

QidMod == 65536          \* uint16_t
QidStart == 16384        \* qid_counter = 0x4000
Qids == 0 .. QidMod - 1
CacheSlots == 0 .. CacheSize - 1
TrackSlots == 0 .. TrackSize - 1
NotFound == "NULL"       \* qtrack_getname's NULL

Query == [kind : {"query"}, qid : Qids, name : Names]
Response == [kind : {"response"}, qid : Qids, ans : Addresses \cup {Zero, NoAnswer},
             ok : BOOLEAN]

VARIABLES dns_cache,   \* dns_cache[i].name, dns_cache[i].ip
          qtracks,     \* qtracks[i].qid, qtracks[i].name
          qid_counter,
          msgs,        \* queries to the server and its responses in flight
          rs,          \* the dns_resolve call in progress
          results,     \* what the dns_resolve calls returned
          nres         \* dns_resolve calls made

vars == <<dns_cache, qtracks, qid_counter, msgs, rs, results, nres>>

Resolver == [pc : {"idle", "wait"}, name : Names \cup {NoName}, qid : Qids,
             polls : 0 .. PollBudget, answered : BOOLEAN]

TypeOK ==
    /\ dns_cache \in [CacheSlots -> [name : Names \cup {NoName}, ip : Addresses \cup {Zero}]]
    /\ qtracks \in [TrackSlots -> [qid : Qids, name : Names \cup {NoName}]]
    /\ qid_counter \in Qids
    /\ msgs \subseteq Query \cup Response
    /\ rs \in Resolver
    /\ results \subseteq [name : Names, ok : BOOLEAN, ip : Addresses \cup {Zero}, answered : BOOLEAN]
    /\ nres \in 0 .. MaxResolves

Init ==
    /\ dns_cache = [i \in CacheSlots |-> [name |-> NoName, ip |-> Zero]]
    /\ qtracks = [i \in TrackSlots |-> [qid |-> 0, name |-> NoName]]
    /\ qid_counter = QidStart
    /\ msgs = {}
    /\ rs = [pc |-> "idle", name |-> NoName, qid |-> 0, polls |-> 0, answered |-> FALSE]
    /\ results = {}
    /\ nres = 0

-----------------------------------------------------------------------------
(* dns.c                                                                   *)

\* dns_get_cached: the first slot with a non-zero address and the name.
CachedSlots(c, n) == {i \in CacheSlots : c[i].ip # Zero /\ c[i].name = n}
dns_get_cached(c, n) == CachedSlots(c, n) # {}
CachedIp(c, n) == c[Min(CachedSlots(c, n))].ip

\* dns_cache_store: nothing if the name is cached, else the first slot with
\* address 0, else slot 0.
dns_cache_store(c, n, ip) ==
    LET free == {i \in CacheSlots : c[i].ip = Zero}
    IN  IF dns_get_cached(c, n) THEN c
        ELSE IF free # {} THEN [c EXCEPT ![Min(free)] = [name |-> n, ip |-> ip]]
        ELSE [c EXCEPT ![0] = [name |-> n, ip |-> ip]]

\* qtrack_add: the first slot with qid 0, else slot 0.
qtrack_add(id, n) ==
    LET free == {i \in TrackSlots : qtracks[i].qid = 0}
        slot == IF free # {} THEN Min(free) ELSE 0
    IN  [qtracks EXCEPT ![slot] = [qid |-> id, name |-> n]]

\* Variant of qtrack_getname that returns the name of the first busy slot,
\* whatever its id (a plausible defect).
qtrack_getname_any(t, id) ==
    LET busy == {i \in TrackSlots : t[i].qid # 0}
    IN  IF busy = {} THEN NotFound ELSE t[Min(busy)].name

\* qtrack_getname: the name in the first slot with the id (a free slot
\* matches id 0), or NULL.
qtrack_getname(t, id) ==
    LET match == {i \in TrackSlots : t[i].qid = id}
    IN  IF match = {} THEN NotFound ELSE t[Min(match)].name

\* qtrack_clear: every slot with the id is freed.
qtrack_clear(t, id) ==
    [i \in TrackSlots |-> IF t[i].qid = id THEN [qid |-> 0, name |-> NoName] ELSE t[i]]

\* Variant of the cache update of dns_on_response that stores the address
\* field of a response without an A record (a plausible defect).
OnResponseCache_anyans(c, t, r) ==
    LET qn == qtrack_getname(t, r.qid)
    IN  IF r.ok /\ qn # NotFound THEN dns_cache_store(c, qn, r.ans) ELSE c

\* dns_on_response: a malformed message returns before anything changes; a
\* well-formed one stores its A answer under the name tracked for its id and
\* frees the id's slots.
OnResponseCache(c, t, r) ==
    LET qn == qtrack_getname(t, r.qid)
    IN  IF r.ok /\ r.ans # NoAnswer /\ qn # NotFound
        THEN dns_cache_store(c, qn, r.ans) ELSE c
OnResponseTracks(t, r) == IF r.ok THEN qtrack_clear(t, r.qid) ELSE t

\* The call as a whole, from the pair st of tables before it to the pair
\* after it.
dns_on_response(st, r) ==
    [cache |-> OnResponseCache(st.cache, st.tracks, r),
     tracks |-> OnResponseTracks(st.tracks, r)]

\* The orders in which the responses in flight can sit in the NIC's ring at
\* one poll: any of them, each once, in any order (UDP may reorder).
Arrivals == UNION {SetToSeqs(S) : S \in SUBSET {m \in msgs : m.kind = "response"}}

\* One rtl8139_poll: its loop hands every frame of the ring, in order, from
\* net_rx (source port 53) to dns_on_response before it returns.  A
\* delivered message stays in flight when the path duplicates it.
Drained(rseq) == FoldLeft(dns_on_response, [cache |-> dns_cache, tracks |-> qtracks], rseq)

PollStep(rseq) ==
    /\ dns_cache' = Drained(rseq).cache
    /\ qtracks' = Drained(rseq).tracks
    /\ msgs' = IF Dup THEN msgs ELSE msgs \ ToSet(rseq)

\* Whether a response is a well-formed A answer to the query with id q.
AnswersQuery(r, q) == r.qid = q /\ r.ok /\ r.ans # NoAnswer

\* dns_resolve(name): an answer from the cache, else dns_query_async and the
\* polling loop.  dns_query_async takes the next id even when pack_name then
\* rejects the name, in which case nothing is tracked or sent.
dns_resolve(n) ==
    /\ rs.pc = "idle" /\ nres < MaxResolves
    /\ nres' = nres + 1
    /\ IF dns_get_cached(dns_cache, n)
       THEN /\ results' = results \cup {[name |-> n, ok |-> TRUE, ip |-> CachedIp(dns_cache, n),
                                         answered |-> FALSE]}
            /\ UNCHANGED <<dns_cache, qtracks, qid_counter, msgs, rs>>
       ELSE LET id == (qid_counter + 1) % QidMod
            IN  /\ qid_counter' = id
                /\ IF n \in Unpackable
                   THEN UNCHANGED <<qtracks, msgs>>
                   ELSE /\ qtracks' = qtrack_add(id, n)
                        /\ msgs' = msgs \cup {[kind |-> "query", qid |-> id, name |-> n]}
                /\ rs' = [pc |-> "wait", name |-> n, qid |-> id, polls |-> 0, answered |-> FALSE]
                /\ UNCHANGED <<dns_cache, results>>

\* One iteration of the loop of dns_resolve: rtl8139_poll, then the cache
\* check that returns the address.
ResolvePoll ==
    /\ rs.pc = "wait" /\ rs.polls < PollBudget
    /\ \E rseq \in Arrivals :
          /\ PollStep(rseq)
          /\ LET ans == rs.answered \/ \E k \in DOMAIN rseq : AnswersQuery(rseq[k], rs.qid)
                 c == Drained(rseq).cache
             IN  IF dns_get_cached(c, rs.name)
                 THEN /\ results' = results \cup {[name |-> rs.name, ok |-> TRUE,
                                                   ip |-> CachedIp(c, rs.name), answered |-> ans]}
                      /\ rs' = [rs EXCEPT !.pc = "idle"]
                 ELSE /\ rs' = [rs EXCEPT !.polls = @ + 1, !.answered = ans]
                      /\ UNCHANGED results
    /\ UNCHANGED <<qid_counter, nres>>

\* dns_resolve returns 0 once the budget is spent.
ResolveGiveUp ==
    /\ rs.pc = "wait" /\ rs.polls = PollBudget
    /\ results' = results \cup {[name |-> rs.name, ok |-> FALSE, ip |-> Zero,
                                 answered |-> rs.answered]}
    /\ rs' = [rs EXCEPT !.pc = "idle"]
    /\ UNCHANGED <<dns_cache, qtracks, qid_counter, msgs, nres>>

\* Outside dns_resolve the kernel's UI loops keep polling the NIC, so a late
\* response is still handed to dns_on_response.
IdlePoll ==
    /\ rs.pc = "idle"
    /\ \E r \in msgs : r.kind = "response" /\ PollStep(<<r>>)
    /\ UNCHANGED <<qid_counter, rs, results, nres>>

-----------------------------------------------------------------------------
(* The server and the UDP path; not part of the repository.                *)

\* The server answers a query with the A record of its name, or (when it
\* misbehaves) with no A record or with a malformed message.
ServerAnswer(q) ==
    /\ q \in msgs /\ q.kind = "query"
    /\ \E ans \in {Addr[q.name], NoAnswer}, ok \in BOOLEAN :
          /\ ServerFaults \/ (ans = Addr[q.name] /\ ok)
          /\ msgs' = (msgs \ {q}) \cup {[kind |-> "response", qid |-> q.qid, ans |-> ans, ok |-> ok]}
    /\ UNCHANGED <<dns_cache, qtracks, qid_counter, rs, results, nres>>

Lose(m) ==
    /\ Lossy /\ m \in msgs
    /\ msgs' = msgs \ {m}
    /\ UNCHANGED <<dns_cache, qtracks, qid_counter, rs, results, nres>>

Next ==
    \/ \E n \in Names : dns_resolve(n)
    \/ ResolvePoll \/ ResolveGiveUp \/ IdlePoll
    \/ \E m \in msgs : ServerAnswer(m) \/ Lose(m)

Spec == Init /\ [][Next]_vars

-----------------------------------------------------------------------------
(* Properties                                                              *)

\* Every address in the cache is the server's answer for the name it is
\* cached under: dns_on_response keys an answer by the name tracked for the
\* response's transaction id, never by another query's name.
CacheCorrect ==
    \A i \in CacheSlots :
        dns_cache[i].ip # Zero => dns_cache[i].name \in Names
                                  /\ dns_cache[i].ip = Addr[dns_cache[i].name]

\* dns_resolve fails only when no well-formed A answer to its own query was
\* handed to dns_on_response while it polled.
FailsOnlyUnanswered ==
    \A r \in results : ~r.ok => ~r.answered

=============================================================================
