------------------------------ MODULE CowGraph ------------------------------
(***************************************************************************)
(* Private memory across a fork, for one page address.  The source clones  *)
(* natively; the bytes may be at the executor, in the object of an         *)
(* ancestor.  The executor write-protects what it holds (OWED) and gives   *)
(* each copy its page before the original is written, taken or vacated     *)
(* (SPENT); a copy that touches the page first gets it from the nearest    *)
(* ancestor still OWED.  The source decides who is still owed a page from  *)
(* its own lineage and its record of breaks.                               *)
(*                                                                         *)
(* Bytes are version numbers, 0 the bytes of a new mapping.  A hand-over   *)
(* between the machines is one step where PageService and PageExchange     *)
(* show it to be one; the calls around a break are steps of their own.     *)
(***************************************************************************)
EXTENDS Naturals, FiniteSets

CONSTANTS
    Spaces,     \* address spaces
    Root,       \* the first
    None,
    Families    \* the families considered, as records of
                \*   parent   the space each is forked from, None if it never is
                \*   held     the page has been written before any fork
                \*   vacaters the spaces that unmap the page and map it anew
                \*   first    the copies whose program touches what they never had
                \*   threads  a parent has further threads in calls at the source
                \*   atomic   no break of another space falls into a copy's request
                \*   stores   bound: the last version stored

ASSUME FamiliesTyped ==
    \A f \in Families : f.parent \in [Spaces -> Spaces \cup {None}] /\ f.parent[Root] = None
ASSUME NoneOutside == None \notin Spaces

VARIABLES
    family,     \* the family, which no step changes
    life,       \* unborn; cloned (the source has it); live
    src,        \* bytes in the source's page tables
    rec,        \* the source's record: NONE, HOME or REMOTE
    broken,     \* cow_broken of the source
    obj,        \* bytes in the executor's object
    pte,        \* the executor's mapping: none, ro, rw
    loan,       \* the executor records the source as holder
    given,      \* cow_record.given
    prot,       \* cow_record.state: NONE, OWED, SPENT
    svc,        \* fault service of each space at the executor
    ask,        \* fault service of each space at the source
    fork,       \* the child that a space is being copied into
    want,       \* what the program must read: its own history since birth
    next        \* the next version to be stored

vars == <<family, life, src, rec, broken, obj, pte, loan, given, prot, svc, ask, fork,
          want, next>>

Parent     == family.parent
Held       == family.held
Vacaters   == family.vacaters
GuestFirst == family.first
Threads    == family.threads
AskAtomic  == family.atomic
MaxStores  == family.stores

Init ==
    /\ family \in Families
    /\ life = [a \in Spaces |-> IF a = Root THEN "live" ELSE "unborn"]
    /\ src = [a \in Spaces |-> IF a = Root /\ Held THEN 1 ELSE None]
    /\ rec = [a \in Spaces |-> "NONE"]
    /\ broken = {} /\ loan = {} /\ given = {}
    /\ obj = [a \in Spaces |-> None]
    /\ pte = [a \in Spaces |-> "none"]
    /\ prot = [a \in Spaces |-> "NONE"]
    /\ svc = [a \in Spaces |-> [pc |-> "idle", bytes |-> None]]
    /\ ask = [a \in Spaces |-> [pc |-> "idle", bytes |-> None]]
    /\ fork = [a \in Spaces |-> None]
    /\ want = [a \in Spaces |-> IF a = Root /\ Held THEN 1 ELSE 0]
    /\ next = IF Held THEN 2 ELSE 1

At(pc, b) == [pc |-> pc, bytes |-> b]
Idle == At("idle", None)

(* Who may move: one thread is either at the executor or in a call at the  *)
(* source; a snapshot pauses execution, and with one thread the source is  *)
(* inside the clone.  Further threads may be inside calls of their own.    *)
GuestRuns(a) == life[a] = "live" /\ fork[a] = None /\ ask[a] = Idle
SourceRuns(a) ==
    /\ life[a] = "live" /\ svc[a] = Idle /\ ask[a] = Idle
    /\ fork[a] = None \/ Threads
Alone(a) == AskAtomic => \A b \in Spaces \ {a} : svc[b].pc \in {"idle", "prep", "owed", "free"}

-----------------------------------------------------------------------------
(* cow_copies_of: the admitted children.                                   *)
Copies(a) == {c \in Spaces : Parent[c] = a /\ life[c] = "live"}

(* forked_from, n times.                                                   *)
Above[a \in Spaces, n \in Nat] ==
    IF n = 0 THEN a ELSE IF Parent[a] = None THEN None ELSE Above[Parent[a], n - 1]

(* Nothing is owed to a copy that was given the page or has one.           *)
Owed(c) == c \notin given /\ obj[c] = None

(* cow_give_from_chain: the nearest ancestor that carries the protection   *)
(* and whose page can be read (cow_give_page_mode, not relaxed).           *)
Vouching(c) ==
    {n \in 1 .. Cardinality(Spaces) :
        LET a == Above[c, n] IN a # None /\ prot[a] = "OWED" /\ obj[a] # None}
Chain(c) ==
    IF Owed(c) /\ Vouching(c) # {}
    THEN obj[Above[c, CHOOSE n \in Vouching(c) : \A m \in Vouching(c) : n <= m]]
    ELSE None

(* A page under protection is about to change: the copies it goes to       *)
(* (cow_break_copies), with the bytes b that are there now.                *)
Due(a) == {c \in Copies(a) : Owed(c)}
Broken(a, p) == IF p = "OWED" THEN Due(a) ELSE {}

(* The object map, the given set and the states after giving b to S.       *)
GiveObj(S, b, o) == [c \in Spaces |-> IF c \in S THEN b ELSE o[c]]
GiveProt(S, p) == [c \in Spaces |-> IF c \in S THEN "OWED" ELSE p[c]]

-----------------------------------------------------------------------------
(* A store at the source, into a page it has.                              *)
SourceStore(a) ==
    /\ SourceRuns(a) /\ src[a] # None /\ rec[a] # "REMOTE" /\ next <= MaxStores
    /\ src' = [src EXCEPT ![a] = next] /\ want' = [want EXCEPT ![a] = next]
    /\ next' = next + 1
    /\ UNCHANGED <<family, life, rec, broken, obj, pte, loan, given, prot, svc, ask, fork>>

(* A call at the source touches a page it does not have: GET.              *)
SourceMiss(a) ==
    /\ SourceRuns(a) /\ src[a] = None
    /\ ask' = [ask EXCEPT ![a] = At("get", None)]
    /\ UNCHANGED <<family, life, src, rec, broken, obj, pte, loan, given, prot, svc, fork,
                   want, next>>

(* pg_serve_conn, GET: its own page, or the one it inherits, which becomes *)
(* its own; then snapshot_take_page gives the copies theirs and the page   *)
(* leaves with everything that was known of it.                            *)
GetServe_NoBreak(a) ==
    LET own == IF obj[a] # None THEN obj[a] ELSE Chain(a)
    IN  /\ ask[a].pc = "get" /\ own # None
        /\ obj' = [obj EXCEPT ![a] = None]
        /\ given' = IF obj[a] = None THEN given \cup {a} ELSE given
        /\ prot' = [prot EXCEPT ![a] = "SPENT"]
        /\ pte' = [pte EXCEPT ![a] = "none"]
        /\ loan' = loan \cup {a}
        /\ ask' = [ask EXCEPT ![a] = At("land", own)]
        /\ UNCHANGED <<family, life, src, rec, broken, svc, fork, want, next>>
GetServe(a) ==
    LET own == IF obj[a] # None THEN obj[a] ELSE Chain(a)
        S == Broken(a, IF obj[a] # None THEN prot[a] ELSE "OWED")
    IN  /\ ask[a].pc = "get" /\ own # None /\ Alone(a)
        /\ obj' = [GiveObj(S, own, obj) EXCEPT ![a] = None]
        /\ given' = given \cup S \cup (IF obj[a] = None THEN {a} ELSE {})
        /\ prot' = [GiveProt(S, prot) EXCEPT ![a] = "SPENT"]
        /\ pte' = [pte EXCEPT ![a] = "none"]
        /\ loan' = loan \cup {a}
        /\ ask' = [ask EXCEPT ![a] = At("land", own)]
        /\ UNCHANGED <<family, life, src, rec, broken, svc, fork, want, next>>

(* The answer ABSENT: a copy whose page was never recorded asks for a      *)
(* break; anything else recorded as never handed over is new memory.  (A   *)
(* page recorded as handed over is asked for again: PageService.)          *)
GetAbsent(a) ==
    /\ ask[a].pc = "get" /\ obj[a] = None /\ Chain(a) = None
    /\ rec[a] # "REMOTE"
    /\ ask' = [ask EXCEPT ![a] = IF Parent[a] # None THEN At("cow", None) ELSE At("land", 0)]
    /\ UNCHANGED <<family, life, src, rec, broken, obj, pte, loan, given, prot, svc, fork,
                   want, next>>

(* pg_serve_conn, COWBREAK: the bytes of the nearest ancestor that vouches *)
(* go to the source, and the copy counts as given; its own page, if it has *)
(* one by now, is served as a GET; else nothing is there and the source    *)
(* lands zeros.                                                            *)
CowServe_Refuses(a) ==
    /\ ask[a].pc = "cow"
    /\ IF Chain(a) # None
       THEN given' = given \cup {a} /\ ask' = [ask EXCEPT ![a] = At("landcow", Chain(a))]
       ELSE ask' = [ask EXCEPT ![a] = At("get", None)] /\ UNCHANGED given
    /\ UNCHANGED <<family, life, src, rec, broken, obj, pte, loan, prot, svc, fork, want, next>>
CowServe(a) ==
    /\ ask[a].pc = "cow"
    /\ IF Chain(a) # None
       THEN given' = given \cup {a} /\ ask' = [ask EXCEPT ![a] = At("landcow", Chain(a))]
       ELSE /\ ask' = [ask EXCEPT ![a] = IF obj[a] # None THEN At("get", None) ELSE At("land", 0)]
            /\ UNCHANGED given
    /\ UNCHANGED <<family, life, src, rec, broken, obj, pte, loan, prot, svc, fork, want, next>>

(* ctx_land, and cow_note_break after a break.                             *)
Land(a) ==
    /\ ask[a].pc \in {"land", "landcow"}
    /\ src' = [src EXCEPT ![a] = ask[a].bytes]
    /\ rec' = [rec EXCEPT ![a] = "HOME"]
    /\ broken' = IF ask[a].pc = "landcow" THEN broken \cup {a} ELSE broken
    /\ ask' = [ask EXCEPT ![a] = Idle]
    /\ UNCHANGED <<family, life, obj, pte, loan, given, prot, svc, fork, want, next>>

-----------------------------------------------------------------------------
(* A store of the guest, through its own translation.                      *)
GuestStore(a) ==
    /\ GuestRuns(a) /\ svc[a] = Idle /\ pte[a] = "rw" /\ next <= MaxStores
    /\ obj' = [obj EXCEPT ![a] = next] /\ want' = [want EXCEPT ![a] = next]
    /\ next' = next + 1
    /\ UNCHANGED <<family, life, src, rec, broken, pte, loan, given, prot, svc, ask, fork>>

(* A store to a page under protection: WRITEPREP, answered from the        *)
(* source's lineage and its breaks (ctx_write_prep).                       *)
WriteFault(a) ==
    /\ GuestRuns(a) /\ svc[a] = Idle /\ pte[a] = "ro"
    /\ svc' = [svc EXCEPT ![a] = At("prep", None)]
    /\ UNCHANGED <<family, life, src, rec, broken, obj, pte, loan, given, prot, ask, fork, want, next>>

ctx_write_prep(a) ==
    /\ svc[a].pc = "prep"
    /\ LET unbroken == {c \in Spaces : Parent[c] = a /\ life[c] # "unborn"} \ broken
       IN  svc' = [svc EXCEPT ![a] = At(IF unbroken # {} THEN "owed" ELSE "free", None)]
    /\ UNCHANGED <<family, life, src, rec, broken, obj, pte, loan, given, prot, ask, fork, want, next>>

(* snapshot_map_object: the copies are given theirs, the mark is spent,    *)
(* the page is mapped writable.                                            *)
Mapped(a) ==
    /\ obj[a] # None
    /\ obj' = GiveObj(Broken(a, prot[a]), obj[a], obj)
    /\ given' = given \cup Broken(a, prot[a])
    /\ prot' = [GiveProt(Broken(a, prot[a]), prot) EXCEPT ![a] = IF @ = "OWED" THEN "SPENT" ELSE @]
    /\ pte' = [pte EXCEPT ![a] = "rw"]

(* The answer to WRITEPREP: COWBREAK asks for the break that the mapping   *)
(* then finds done; 0 is for a page nobody is owed.                        *)
Grant(a) ==
    /\ svc[a].pc \in {"owed", "free"} /\ Alone(a)
    /\ IF obj[a] # None THEN Mapped(a) ELSE UNCHANGED <<obj, given, prot, pte>>
    /\ svc' = [svc EXCEPT ![a] = Idle]
    /\ UNCHANGED <<family, life, src, rec, broken, loan, ask, fork, want, next>>

(* A fault on a page its own object holds: serve_object_mapped.            *)
LocalFault(a) ==
    /\ GuestRuns(a) /\ svc[a] = Idle /\ pte[a] = "none" /\ Alone(a)
    /\ Mapped(a)
    /\ UNCHANGED <<family, life, src, rec, broken, loan, svc, ask, fork, want, next>>

(* A fault on a page that is not here: the source is asked, and the        *)
(* coherence lock is let go meanwhile.                                     *)
RemoteFault(a) ==
    /\ GuestRuns(a) /\ svc[a] = Idle /\ pte[a] = "none" /\ obj[a] = None
    /\ a \in GuestFirst \/ Parent[a] = None \/ src[a] # None \/ rec[a] # "NONE"
    /\ svc' = [svc EXCEPT ![a] = At("pull", None)]
    /\ UNCHANGED <<family, life, src, rec, broken, obj, pte, loan, given, prot, ask, fork, want, next>>

(* ctx_page: a copy that the source never recorded and does not hold is    *)
(* told to break the sharing where the page is (cow_still_shared);         *)
(* otherwise the page is captured, or granted as zeros, or it is the       *)
(* asker's already.                                                        *)
cow_still_shared(a) == Parent[a] # None /\ rec[a] = "NONE" /\ src[a] = None

Answered(a, told) ==
    /\ ask[a] = Idle
    /\ IF told
       THEN svc' = [svc EXCEPT ![a] = At("break", None)] /\ UNCHANGED <<src, rec>>
       ELSE IF rec[a] = "REMOTE"
       THEN svc' = [svc EXCEPT ![a] = Idle] /\ UNCHANGED <<src, rec>>
       ELSE /\ svc' = [svc EXCEPT ![a] = At("install", IF src[a] = None THEN 0 ELSE src[a])]
            /\ src' = [src EXCEPT ![a] = None]
            /\ rec' = [rec EXCEPT ![a] = "REMOTE"]
    /\ UNCHANGED <<family, life, broken, obj, pte, loan, given, prot, ask, fork, want, next>>

Pull(a) == svc[a].pc = "pull" /\ Answered(a, cow_still_shared(a))
PullPlain(a) == svc[a].pc = "plain" /\ Answered(a, FALSE)

(* PULL_COWBREAK: the page of the nearest ancestor that vouches becomes    *)
(* the copy's own and is written into it by POKE, which maps it writable;  *)
(* when there is none the source is asked again, with nocow.               *)
CowBreak(a) ==
    /\ svc[a].pc = "break"
    /\ IF Chain(a) # None
       THEN /\ obj' = [obj EXCEPT ![a] = Chain(a)]
            /\ given' = given \cup {a}
            /\ prot' = [prot EXCEPT ![a] = "OWED"]
            /\ pte' = [pte EXCEPT ![a] = "rw"]
            /\ svc' = [svc EXCEPT ![a] = Idle]
       ELSE svc' = [svc EXCEPT ![a] = At("plain", None)] /\ UNCHANGED <<obj, given, prot, pte>>
    /\ UNCHANGED <<family, life, src, rec, broken, loan, ask, fork, want, next>>

(* The bytes are written into the page by POKE, and acknowledged.          *)
Install(a) ==
    /\ svc[a].pc = "install"
    /\ obj' = [obj EXCEPT ![a] = svc[a].bytes]
    /\ pte' = [pte EXCEPT ![a] = "rw"]
    /\ loan' = loan \ {a}
    /\ svc' = [svc EXCEPT ![a] = Idle]
    /\ UNCHANGED <<family, life, src, rec, broken, given, prot, ask, fork, want, next>>

-----------------------------------------------------------------------------
(* A fork.  forward: the call is admitted and the parent's loans are       *)
(* recalled (page_recall_all), which waits for crossings to finish.        *)
Settle(c) ==
    LET p == Parent[c]
    IN  /\ p # None /\ life[c] = "unborn"
        /\ life[p] = "live" /\ fork[p] = None /\ svc[p] = Idle /\ ask[p] = Idle
        /\ fork' = [fork EXCEPT ![p] = c]
        /\ IF p \in loan /\ src[p] # None
           THEN /\ obj' = [obj EXCEPT ![p] = src[p]]
                /\ pte' = [pte EXCEPT ![p] = "rw"]
                /\ src' = [src EXCEPT ![p] = None]
                /\ rec' = [rec EXCEPT ![p] = "REMOTE"]
           ELSE UNCHANGED <<obj, pte, src, rec>>
        /\ loan' = loan \ {p}
        /\ UNCHANGED <<family, life, broken, given, prot, svc, ask, want, next>>

(* The source's clone: its own pages are the child's by its kernel, and    *)
(* the lineage is recorded (fork_rel_note); the child is parked.           *)
Clone(c) ==
    LET p == Parent[c]
    IN  /\ p # None /\ fork[p] = c /\ life[c] = "unborn"
        /\ life' = [life EXCEPT ![c] = "cloned"]
        /\ src' = [src EXCEPT ![c] = src[p]]
        /\ want' = [want EXCEPT ![c] = want[p]]
        /\ UNCHANGED <<family, rec, broken, obj, pte, loan, given, prot, svc, ask, fork, next>>

(* source_child_pages: what the child has natively is its own.             *)
source_child_pages(c) ==
    /\ life[c] = "cloned" /\ src[c] # None /\ c \notin broken
    /\ rec' = [rec EXCEPT ![c] = "HOME"]
    /\ broken' = broken \cup {c}
    /\ UNCHANGED <<family, life, src, obj, pte, loan, given, prot, svc, ask, fork, want, next>>

(* Everything the object holds is write-protected where it is mapped, and  *)
(* marked.  A page that cannot be protected fails the fork and the run.    *)
cow_protect_address_space(p) ==
    /\ prot' = IF obj[p] # None THEN [prot EXCEPT ![p] = "OWED"] ELSE prot
    /\ pte' = IF obj[p] # None /\ pte[p] = "rw" THEN [pte EXCEPT ![p] = "ro"] ELSE pte

(* spawn_forked_context: the child's own pages are noted as given and      *)
(* lent, the child is admitted, and everything the parent's object holds   *)
(* is protected (cow_protect_address_space).                               *)
Publish_KeepsWritable(c) ==
    LET p == Parent[c]
    IN  /\ life[c] = "cloned" /\ (src[c] # None => c \in broken)
        /\ life' = [life EXCEPT ![c] = "live"]
        /\ given' = IF c \in broken THEN given \cup {c} ELSE given
        /\ loan' = IF c \in broken THEN loan \cup {c} ELSE loan
        /\ prot' = IF obj[p] # None THEN [prot EXCEPT ![p] = "OWED"] ELSE prot
        /\ fork' = [fork EXCEPT ![p] = None]
        /\ UNCHANGED <<family, src, rec, broken, obj, pte, svc, ask, want, next>>
Publish(c) ==
    LET p == Parent[c]
    IN  /\ life[c] = "cloned" /\ (src[c] # None => c \in broken) /\ Alone(p)
        /\ life' = [life EXCEPT ![c] = "live"]
        /\ given' = IF c \in broken THEN given \cup {c} ELSE given
        /\ loan' = IF c \in broken THEN loan \cup {c} ELSE loan
        /\ cow_protect_address_space(p)
        /\ fork' = [fork EXCEPT ![p] = None]
        /\ UNCHANGED <<family, src, rec, broken, obj, svc, ask, want, next>>

(* The copies get theirs, then the object's page is punched.               *)
cow_break_copies_range(a) ==
    /\ obj' = [GiveObj(Broken(a, prot[a]), obj[a], obj) EXCEPT ![a] = None]
    /\ given' = given \cup Broken(a, prot[a])
    /\ prot' = [GiveProt(Broken(a, prot[a]), prot) EXCEPT ![a] = IF @ = "OWED" THEN "SPENT" ELSE @]

(* The program unmaps the page and maps it anew; range_vacated_1 gives the *)
(* copies theirs, then drops the object's page, the loan and the mapping.  *)
Vacate(a) ==
    /\ a \in Vacaters /\ GuestRuns(a) /\ svc[a] = Idle /\ Alone(a)
    /\ cow_break_copies_range(a)
    /\ pte' = [pte EXCEPT ![a] = "none"]
    /\ loan' = loan \ {a}
    /\ src' = [src EXCEPT ![a] = None]
    /\ rec' = [rec EXCEPT ![a] = "NONE"]
    /\ want' = [want EXCEPT ![a] = 0]
    /\ UNCHANGED <<family, life, broken, svc, ask, fork, next>>

-----------------------------------------------------------------------------
Service(a) ==
    \/ GetServe(a) \/ GetAbsent(a) \/ CowServe(a) \/ Land(a)
    \/ ctx_write_prep(a) \/ Grant(a) \/ Pull(a) \/ PullPlain(a) \/ CowBreak(a) \/ Install(a)

Next ==
    \E a \in Spaces :
        \/ SourceStore(a) \/ SourceMiss(a) \/ GuestStore(a) \/ WriteFault(a)
        \/ LocalFault(a) \/ RemoteFault(a) \/ Service(a)
        \/ Settle(a) \/ Clone(a) \/ source_child_pages(a) \/ Publish(a) \/ Vacate(a)

Spec == Init /\ [][Next]_vars

(* The service threads of both machines keep running.                      *)
FairSpec == Spec /\ \A a \in Spaces : WF_vars(Service(a))

-----------------------------------------------------------------------------
(* A copy reads its memory as of the fork and its own stores since: no     *)
(* translation on either machine, of the original or of any copy, leads to *)
(* other bytes (cow_protect_address_space: "instead of as of the fork").   *)
SnapshotKept ==
    AskAtomic => \A a \in Spaces :
        /\ pte[a] # "none" => obj[a] = want[a]
        /\ src[a] # None => src[a] = want[a]

(* For a copy that has nothing of its own yet the chain speaks the truth:  *)
(* the nearest ancestor under protection holds what the copy inherited,    *)
(* and where there is none the copy inherited new memory.                  *)
ChainSpeaks ==
    AskAtomic => \A c \in Spaces :
        life[c] = "live" /\ Owed(c) /\ src[c] = None /\ rec[c] = "NONE" /\ ask[c].pc # "landcow"
            => want[c] = IF Chain(c) = None THEN 0 ELSE Chain(c)

(* The two records of a break agree where it matters: while the source's   *)
(* "nobody is owed this page" is under way to the executor, the executor   *)
(* owes the page to nobody either.                                         *)
FreeIsFree == \A a \in Spaces : svc[a].pc = "free" /\ prot[a] = "OWED" => Due(a) = {}

(* Both machines' accounts of who is still owed the page are right at the  *)
(* moments they are acted on: when a copy is given its page from the chain *)
(* (cow_give_from_chain) and when a store is let through as owed to nobody *)
(* (ctx_write_prep).                                                       *)
LineageTrue == ChainSpeaks /\ FreeIsFree

(* Every fault of a guest and every fault of a call is served in the end,  *)
(* whatever other spaces' breaks fall into it.                             *)
FaultServed ==
    \A a \in Spaces :
        ~AskAtomic /\ (svc[a] # Idle \/ ask[a] # Idle) ~> svc[a] = Idle /\ ask[a] = Idle

=============================================================================
