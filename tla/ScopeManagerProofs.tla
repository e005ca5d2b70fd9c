-------------------------- MODULE ScopeManagerProofs --------------------------
(***************************************************************************)
(* The scopes of the dependency injection container: every instance has    *)
(* one owner until it is disposed of, an ID is not used again before its   *)
(* generation is quiet, root services outlive the scopes, and a wait that  *)
(* returns means that the cleanup is over: for every set of IDs, resolvers *)
(* and lifetimes and every number of generations.                          *)
(***************************************************************************)
EXTENDS ScopeManager, FiniteSetTheorems, TLAPS

-----------------------------------------------------------------------------
(* The inductive invariant                                                 *)

\* The resolutions that hold a guard of generation g, and those the provider
\* has admitted.
Guards(g) ==
    {r \in Resolvers : res[r].gen = g /\ res[r].pc \in {"lock", "create", "leave"}}
Admitted == {r \in Resolvers : res[r].pc \notin {"idle", "done"}}

\* Both counters count.
CountInv ==
    /\ \A g \in Gens : ctx[g].inFlight = Cardinality(Guards(g))
    /\ provider.inFlight = Cardinality(Admitted)

\* A resolution that found a generation found it under the ID it was asked
\* for; one that asks for a root service never looks for one.  Nothing is
\* published before the factory ends, and only a handoff carries instances.
ResolutionOk(r) ==
    /\ res[r].pc # "idle" => res[r].id \in Ids /\ res[r].life \in Lifetimes
    /\ res[r].pc \in {"idle", "recheck", "lookup"} => res[r].gen = None
    /\ res[r].pc \in {"enter", "lock", "leave", "handoff"} => res[r].gen # None
    /\ res[r].pc \in {"lookup", "enter", "lock", "leave", "handoff"} => res[r].life # "root"
    /\ res[r].pc = "lock" => res[r].life = "scoped"
    /\ res[r].pc = "create" => (res[r].gen = None <=> res[r].life = "root")
    /\ res[r].pc = "overtaken" => res[r].gen = None /\ res[r].life = "root"
    /\ res[r].gen # None => res[r].gen \in Used /\ ctx[res[r].gen].id = res[r].id
    /\ res[r].pc \in {"idle", "recheck", "lookup", "enter", "lock", "create", "overtaken"} =>
           fate[r] = "none"
    /\ res[r].pc # "handoff" => res[r].carried = <<>>

ResolutionInv == \A r \in Resolvers : ResolutionOk(r)

\* The two maps of scopes.  Generations are numbered as they come; an open one
\* is in the map of its ID, one with a cleanup control reserves its ID, and
\* no ID is both used and reserved.
MapInv ==
    /\ \E n \in 0..MaxGens : Used = 1..n
    /\ \A g \in Used : ctx[g].id \in Ids
    /\ \A i \in Ids : scopes[i] # None =>
           ctx[scopes[i]].state = "Open" /\ ctx[scopes[i]].id = i /\ closing[i] = None
    /\ \A i \in Ids : closing[i] # None =>
           job[closing[i]].control /\ ctx[closing[i]].id = i
    /\ \A g \in Gens : ctx[g].state = "Open" => scopes[ctx[g].id] = g
    /\ \A g \in Gens : job[g].control => g \in Used /\ closing[ctx[g].id] = g

\* How far the cleanup of a generation is.  A generation is closing until its
\* ledger is detached, which happens when no guard is left, and until then,
\* and for as long as anything is left to do, it has its control.
CleanupOk(g) ==
    /\ job[g].pc = "none" <=> ctx[g].state \in {"Unused", "Open"}
    /\ job[g].pc = "none" => ~job[g].control /\ job[g].terminal = "OPEN"
    /\ job[g].pc \notin {"none", "ending", "joined"} => job[g].control
    /\ job[g].pc \in {"start", "count", "wait", "detach"} => ctx[g].state = "Closing"
    /\ job[g].pc \in {"load", "disposing", "claim"} => ctx[g].state = "Closed"
    /\ job[g].pc = "detach" => ctx[g].inFlight = 0
    /\ job[g].pc \in {"load", "disposing", "claim"} => job[g].detached
    /\ job[g].pc = "disposing" => job[g].held # <<>>
    /\ job[g].held # <<>> => job[g].pc \in {"load", "disposing"}
    /\ job[g].detached => ctx[g].state = "Closed"
    /\ ctx[g].state = "Unused" => ctx[g].ledger = <<>> /\ ctx[g].inFlight = 0
    /\ ctx[g].state = "Closing" => job[g].control
    /\ ctx[g].state = "Closed" => ctx[g].ledger = <<>> /\ ctx[g].inFlight = 0
    /\ ctx[g].handoff = "installed" =>
           ctx[g].state = "Closing" /\ job[g].pc \in {"ending", "joined"}
    /\ ctx[g].handoff = "taken" =>
           /\ ctx[g].state = "Closed" /\ job[g].control
           /\ job[g].pc \in {"ending", "joined"}

\* A handoff is taken by one resolution.
HandoffInv ==
    /\ \A r \in Resolvers : At(r, "handoff") => ctx[res[r].gen].handoff = "taken"
    /\ \A q, r \in Resolvers :
           At(q, "handoff") /\ At(r, "handoff") /\ res[q].gen = res[r].gen => q = r

CleanupInv == (\A g \in Gens : CleanupOk(g)) /\ HandoffInv

\* The creation lock of a scope: who makes a scoped service holds it, and
\* nothing is cached meanwhile.
LockInv ==
    /\ \A r \in Resolvers : At(r, "create") /\ res[r].life = "scoped" =>
           ctx[res[r].gen].creating = r
    /\ \A g \in Gens : ctx[g].creating # None => ctx[g].cached = None

\* Where an instance is.  What a generation's ledger, its cleanup task and
\* the resolution that took its handoff hold was resolved in that generation,
\* what the root holds in none.  A published instance is in one of these
\* places.
InScope(r, g) ==
    \/ r \in Range(ctx[g].ledger)
    \/ r \in Range(job[g].held)
    \/ \E q \in Resolvers : res[q].gen = g /\ r \in Range(res[q].carried)
InRoot(r) == r \in Range(roots.ledger) \/ r \in Range(roots.held)

PlaceInv ==
    /\ \A r \in Resolvers, g \in Gens :
           InScope(r, g) => res[r].gen = g /\ fate[r] = "published"
    /\ \A r \in Resolvers : InRoot(r) => res[r].gen = None /\ fate[r] = "published"
    /\ \A r \in Resolvers : fate[r] = "published" =>
           IF res[r].gen = None THEN InRoot(r) ELSE InScope(r, res[r].gen)
    /\ roots.held # <<>> => shutdown = "disposing"
    /\ shutdown = "disposing" => roots.ledger = <<>>

\* No instance is disposed of before its scope is closed, and what a normal
\* end promises of the instances of its generation.
Settled(g) == \A r \in Resolvers : res[r].gen = g =>
                  fate[r] \in {"none", "disposed"} \/ r \in Range(job[g].held)

NormalOk(g) ==
    /\ ctx[g].state # "Closed" =>
           \A r \in Resolvers : res[r].gen = g => fate[r] \in {"none", "published"}
    /\ job[g].pc \in {"load", "disposing", "claim"} /\ job[g].terminal = "OPEN" => Settled(g)
    /\ job[g].terminal = "NORMAL" =>
           job[g].pc \in {"finish", "ending", "joined"} /\ job[g].detached /\ Settled(g)

NormalInv == \A g \in Gens : NormalOk(g)

\* Who was told that a cleanup is over.
WatchInv ==
    /\ \A g \in Gens : owner[g] # "none" => g \in Used
    /\ \A g \in Gens : owner[g] \in {"ok", "error"} => InTask(g, "joined") /\ ~job[g].control
    /\ \A g \in Gens : owner[g] = "ok" => job[g].terminal = "NORMAL"
    /\ observer.pc # "idle" => observer.gen \in Used
    /\ observer.pc = "returned" =>
           InTask(observer.gen, "joined") /\ ~job[observer.gen].control

\* What each stage of the shutdown has seen the end of.
ScopesGone == \A i \in Ids : scopes[i] = None
TasksGone ==
    /\ \A i \in Ids : closing[i] = None
    /\ \A g \in Gens : job[g].pc \in {"none", "joined"}
RootStages == {"root", "rootWait", "dispose", "disposing"}

ShutdownInv ==
    /\ shutdown = "none" <=> provider.state = "Running"
    /\ shutdown \notin {"none", "done"} => provider.state = "Closing"
    /\ shutdown \notin {"none", "stop"} => ~accepting
    /\ shutdown \notin {"none", "stop", "scopes"} => ScopesGone
    /\ shutdown \in RootStages \/ provider.state = "Closed" => TasksGone
    /\ shutdown = "done" => provider.state \in {"Closed", "Failed"}
    /\ shutdown \in {"dispose", "disposing"} \/ provider.state = "Closed" =>
           \A r \in Resolvers : res[r].pc \in {"idle", "recheck", "done"}

IInv ==
    /\ TypeOK /\ CountInv /\ ResolutionInv /\ MapInv /\ CleanupInv /\ LockInv
    /\ PlaceInv /\ NormalInv /\ WatchInv /\ ShutdownInv


-----------------------------------------------------------------------------
(* Ledgers                                                                 *)

\* An injective sequence of resolvers is no longer than there are resolvers,
\* so it is a ledger.
LEMMA LedgerShape ==
    ASSUME NEW s
    PROVE  s \in Ledgers <=> s \in Seq(Resolvers) /\ IsInjective(s)
PROOF
  <1>1. IsFiniteSet(Resolvers)
    BY ScopeAssumption
  <1>2. Cardinality(Resolvers) \in Nat
    BY <1>1, FS_CardinalityType
  <1>3. ASSUME s \in Ledgers
        PROVE  s \in Seq(Resolvers) /\ IsInjective(s)
    <2>1. s \in UNION {[1..m -> Resolvers] : m \in 0..Cardinality(Resolvers)}
      BY <1>3 DEF Ledgers, BoundedSeq, SeqOf
    <2>2. PICK m \in 0..Cardinality(Resolvers) : s \in [1..m -> Resolvers]
      BY <2>1
    <2>3. m \in Nat
      BY <1>2
    <2>4. s \in Seq(Resolvers)
      BY <2>2, <2>3
    <2>. QED
      BY <2>4, <1>3 DEF Ledgers
  <1>4. ASSUME s \in Seq(Resolvers), IsInjective(s)
        PROVE  s \in Ledgers
    <2>1. Len(s) \in Nat /\ s \in [1..Len(s) -> Resolvers]
      BY <1>4
    <2>2. s \in Injection(1..Len(s), Resolvers)
      BY <2>1, <1>4 DEF Injection, IsInjective
    <2>3. Cardinality(1..Len(s)) <= Cardinality(Resolvers)
      BY <2>2, <1>1, FS_Injection
    <2>4. Cardinality(1..Len(s)) = Len(s)
      BY <2>1, FS_Interval
    <2>5. Len(s) \in 0..Cardinality(Resolvers)
      BY <2>1, <2>3, <2>4, <1>2
    <2>6. s \in UNION {[1..m -> Resolvers] : m \in 0..Cardinality(Resolvers)}
      BY <2>1, <2>5
    <2>. QED
      BY <2>6, <1>4 DEF Ledgers, BoundedSeq, SeqOf
  <1>. QED
    BY <1>3, <1>4

\* The empty ledger, and what every ledger holds.
LEMMA LedgerFacts ==
    /\ <<>> \in Ledgers
    /\ Range(<<>>) = {}
    /\ \A s \in Ledgers : Range(s) \subseteq Resolvers /\ (s = <<>> <=> Range(s) = {})
PROOF
  <1>1. <<>> \in Ledgers
    <2>1. <<>> \in Seq(Resolvers) /\ DOMAIN <<>> = {}
      OBVIOUS
    <2>2. IsInjective(<<>>)
      BY <2>1 DEF IsInjective
    <2>. QED
      BY <2>1, <2>2, LedgerShape
  <1>2. Range(<<>>) = {}
    BY DEF Range
  <1>3. ASSUME NEW s \in Ledgers
        PROVE  Range(s) \subseteq Resolvers /\ (s = <<>> <=> Range(s) = {})
    <2>1. s \in Seq(Resolvers)
      BY LedgerShape
    <2>2. ASSUME s # <<>> PROVE Range(s) # {}
      <3>1. 1 \in DOMAIN s
        BY <2>1, <2>2
      <3>. QED
        BY <3>1 DEF Range
    <2>. QED
      BY <2>1, <2>2, <1>2 DEF Range
  <1>. QED
    BY <1>1, <1>2, <1>3

\* A new instance may be appended to a ledger.
LEMMA AppendLedger ==
    ASSUME NEW s \in Ledgers, NEW r \in Resolvers, r \notin Range(s)
    PROVE  Append(s, r) \in Ledgers /\ Range(Append(s, r)) = Range(s) \cup {r}
PROOF
  <1>1. s \in Seq(Resolvers) /\ IsInjective(s)
    BY LedgerShape
  <1>2. /\ Append(s, r) \in Seq(Resolvers)
        /\ DOMAIN Append(s, r) = 1..(Len(s) + 1)
        /\ \A i \in 1..Len(s) : Append(s, r)[i] = s[i]
        /\ Append(s, r)[Len(s) + 1] = r
        /\ Len(s) \in Nat /\ DOMAIN s = 1..Len(s)
    BY <1>1
  <1>3. \A i \in 1..(Len(s) + 1) : i \in 1..Len(s) \/ i = Len(s) + 1
    BY <1>2
  <1>4. \A i \in 1..Len(s) : s[i] # r
    BY <1>2 DEF Range
  <1>5. IsInjective(Append(s, r))
    BY <1>1, <1>2, <1>3, <1>4 DEF IsInjective
  <1>6. 1..Len(s) \subseteq 1..(Len(s) + 1) /\ Len(s) + 1 \in 1..(Len(s) + 1)
    BY <1>2
  <1>7. Range(Append(s, r)) = Range(s) \cup {r}
    BY <1>2, <1>3, <1>6 DEF Range
  <1>. QED
    BY <1>2, <1>5, <1>7, LedgerShape

\* The first instance of a ledger may be taken off.
LEMMA TailLedger ==
    ASSUME NEW s \in Ledgers, s # <<>>
    PROVE  /\ Tail(s) \in Ledgers
           /\ Head(s) \in Range(s)
           /\ Range(Tail(s)) = Range(s) \ {Head(s)}
PROOF
  <1>1. s \in Seq(Resolvers) /\ IsInjective(s)
    BY LedgerShape
  <1>2. /\ Len(s) \in Nat \ {0} /\ DOMAIN s = 1..Len(s)
        /\ Head(s) = s[1] /\ 1 \in 1..Len(s)
        /\ Tail(s) \in Seq(Resolvers)
        /\ DOMAIN Tail(s) = 1..(Len(s) - 1)
        /\ \A i \in 1..(Len(s) - 1) : Tail(s)[i] = s[i + 1]
    BY <1>1
  <1>3. /\ \A i \in 1..(Len(s) - 1) : i + 1 \in 1..Len(s) /\ i + 1 # 1
        /\ \A i \in 1..Len(s) : i = 1 \/ (i - 1 \in 1..(Len(s) - 1) /\ (i - 1) + 1 = i)
        /\ \A i, j \in 1..(Len(s) - 1) : i + 1 = j + 1 => i = j
    BY <1>2
  <1>4. IsInjective(Tail(s))
    BY <1>1, <1>2, <1>3 DEF IsInjective
  <1>5. Range(Tail(s)) \subseteq Range(s) \ {Head(s)}
    BY <1>1, <1>2, <1>3 DEF Range, IsInjective
  <1>6. ASSUME NEW x \in Range(s), x # Head(s)
        PROVE  x \in Range(Tail(s))
    <2>1. PICK i \in 1..Len(s) : x = s[i]
      BY <1>2, <1>6 DEF Range
    <2>2. i - 1 \in 1..(Len(s) - 1) /\ Tail(s)[i - 1] = x
      BY <2>1, <1>2, <1>3, <1>6
    <2>. QED
      BY <2>2, <1>2 DEF Range
  <1>7. Head(s) \in Range(s)
    BY <1>2 DEF Range
  <1>. QED
    BY <1>2, <1>4, <1>5, <1>6, <1>7, LedgerShape

\* A ledger is disposed of from its end.
LEMMA ReverseLedger ==
    ASSUME NEW s \in Ledgers
    PROVE  Reverse(s) \in Ledgers /\ Range(Reverse(s)) = Range(s)
PROOF
  <1>1. s \in Seq(Resolvers) /\ IsInjective(s)
    BY LedgerShape
  <1>2. Len(s) \in Nat /\ DOMAIN s = 1..Len(s) /\ \A i \in 1..Len(s) : s[i] \in Resolvers
    BY <1>1
  <1>3. Reverse(s) = [i \in 1..Len(s) |-> s[(Len(s) - i) + 1]]
    BY DEF Reverse
  <1>4. \A i \in 1..Len(s) :
            (Len(s) - i) + 1 \in 1..Len(s) /\ (Len(s) - ((Len(s) - i) + 1)) + 1 = i
    BY <1>2
  <1>5. /\ DOMAIN Reverse(s) = 1..Len(s)
        /\ \A i \in 1..Len(s) : Reverse(s)[i] = s[(Len(s) - i) + 1]
    BY <1>3
  <1>6. \A i \in 1..Len(s) : s[i] = Reverse(s)[(Len(s) - i) + 1]
    BY <1>4, <1>5
  <1>7. Reverse(s) \in [1..Len(s) -> Resolvers]
    BY <1>2, <1>3, <1>4
  <1>8. Reverse(s) \in Seq(Resolvers)
    BY <1>2, <1>7
  <1>9. \A i, j \in 1..Len(s) : (Len(s) - i) + 1 = (Len(s) - j) + 1 => i = j
    BY <1>2
  <1>10. IsInjective(Reverse(s))
    BY <1>1, <1>2, <1>4, <1>5, <1>9 DEF IsInjective
  <1>11. Range(Reverse(s)) = Range(s)
    BY <1>2, <1>4, <1>5, <1>6 DEF Range
  <1>. QED
    BY <1>8, <1>10, <1>11, LedgerShape

-----------------------------------------------------------------------------
(* Counters                                                                *)

\* The guards of a generation and the admitted resolutions are sets of
\* resolvers, so their numbers are within the type of the counters.
LEMMA GuardCounts ==
    ASSUME NEW G \in SUBSET Resolvers
    PROVE  /\ IsFiniteSet(G)
           /\ Cardinality(G) \in 0..Cardinality(Resolvers)
           /\ Cardinality(G) = 0 <=> G = {}
           /\ \A r \in G : /\ Cardinality(G \ {r}) = Cardinality(G) - 1
                           /\ Cardinality(G) = 1 => G = {r}
           /\ \A r \in Resolvers \ G :
                 /\ Cardinality(G \cup {r}) = Cardinality(G) + 1
                 /\ Cardinality(G) + 1 \in 0..Cardinality(Resolvers)
PROOF
  <1>1. IsFiniteSet(Resolvers) /\ Cardinality(Resolvers) \in Nat
    BY ScopeAssumption, FS_CardinalityType
  <1>2. /\ \A T \in SUBSET Resolvers :
             IsFiniteSet(T) /\ Cardinality(T) \in Nat /\ Cardinality(T) <= Cardinality(Resolvers)
    BY <1>1, FS_Subset, FS_CardinalityType
  <1>3. Cardinality(G) = 0 <=> G = {}
    BY <1>2, FS_EmptySet
  <1>4. ASSUME NEW r \in G
        PROVE  /\ Cardinality(G \ {r}) = Cardinality(G) - 1
               /\ Cardinality(G) = 1 => G = {r}
    <2>1. Cardinality(G \ {r}) = Cardinality(G) - 1
      BY <1>2, FS_RemoveElement
    <2>2. ASSUME Cardinality(G) = 1 PROVE G = {r}
      BY <2>2, <1>2, FS_Singleton
    <2>. QED
      BY <2>1, <2>2
  <1>5. ASSUME NEW r \in Resolvers \ G
        PROVE  /\ Cardinality(G \cup {r}) = Cardinality(G) + 1
               /\ Cardinality(G) + 1 \in 0..Cardinality(Resolvers)
    <2>1. Cardinality(G \cup {r}) = Cardinality(G) + 1
      BY <1>2, FS_AddElement
    <2>2. G \cup {r} \in SUBSET Resolvers
      OBVIOUS
    <2>. QED
      BY <2>1, <2>2, <1>1, <1>2
  <1>. QED
    BY <1>1, <1>2, <1>3, <1>4, <1>5

\* A generation that has no guard left in the counter has none.
LEMMA NoGuards ==
    ASSUME CountInv, NEW g \in Gens
    PROVE  /\ ctx[g].inFlight = 0 <=> Guards(g) = {}
           /\ ctx[g].inFlight > 0 <=> Guards(g) # {}
PROOF
  <1>1. Guards(g) \in SUBSET Resolvers
    BY DEF Guards
  <1>2. Cardinality(Guards(g)) \in Nat /\ (Cardinality(Guards(g)) = 0 <=> Guards(g) = {})
    <2>1. Cardinality(Resolvers) \in Nat
      BY ScopeAssumption, FS_CardinalityType
    <2>. QED
      BY <1>1, <2>1, GuardCounts
  <1>. QED
    BY <1>2 DEF CountInv

-----------------------------------------------------------------------------
(* What the invariant means                                                *)

\* A generation that a deadline cannot claim, that reserves nothing and is not
\* open, is quiet.
LEMMA Quiet ==
    ASSUME IInv, NEW g \in Gens, g \in Used, ctx[g].state # "Open", ~job[g].control
    PROVE  ctx[g].state = "Closed" /\ ctx[g].inFlight = 0 /\ job[g].held = <<>> /\ ~Active(g)
PROOF
  <1>1. CleanupOk(g) /\ ctx[g] \in Contexts
    BY DEF IInv, CleanupInv, TypeOK
  <1>2. ctx[g].state = "Closed"
    BY <1>1 DEF CleanupOk, Contexts, Used
  <1>3. ctx[g].inFlight = 0 /\ job[g].held = <<>>
    BY <1>1, <1>2 DEF CleanupOk
  <1>. QED
    BY <1>2, <1>3 DEF Active

\* While an ID is free, the generations that had it are quiet.
LEMMA FreeIdIsQuiet == IInv => IdIsReservedUntilQuiet
PROOF
  <1>. SUFFICES ASSUME IInv, NEW g \in Used, ~ActiveOrClosing(g)
                PROVE  ~Active(g)
    BY DEF IdIsReservedUntilQuiet
  <1>1. g \in Gens
    BY DEF Used
  <1>2. ctx[g].state # "Open" /\ ~job[g].control
    BY <1>1 DEF IInv, MapInv, ActiveOrClosing
  <1>. QED
    BY <1>1, <1>2, Quiet

\* When the root is disposed of, nothing else is left.
LEMMA RootIsLast == IInv => RootDisposalIsLast
PROOF
  <1>. SUFFICES ASSUME IInv, shutdown = "disposing" \/ provider.state = "Closed"
                PROVE  /\ \A r \in Resolvers :
                            res[r].pc \notin {"lookup", "enter", "lock", "create",
                                              "overtaken", "leave", "handoff"}
                       /\ \A g \in Used : ~ActiveOrClosing(g) /\ ~Active(g)
                       /\ \A g \in Gens : job[g].pc \in {"none", "joined"}
    BY DEF RootDisposalIsLast
  <1>1. \A r \in Resolvers : res[r].pc \in {"idle", "recheck", "done"}
    BY DEF IInv, ShutdownInv
  <1>2. TasksGone /\ ScopesGone
    BY DEF IInv, ShutdownInv, TypeOK, Providers, RootStages
  <1>3. ASSUME NEW g \in Used
        PROVE  ~ActiveOrClosing(g) /\ ~Active(g)
    <2>1. g \in Gens /\ g # None /\ ctx[g].id \in Ids
      BY ScopeAssumption DEF Used, IInv, MapInv
    <2>2. ~ActiveOrClosing(g)
      BY <1>2, <2>1 DEF ActiveOrClosing, ScopesGone, TasksGone
    <2>. QED
      BY <2>1, <2>2, FreeIdIsQuiet DEF IdIsReservedUntilQuiet
  <1>. QED
    BY <1>1, <1>2, <1>3 DEF TasksGone

\* Who is told that a cleanup is over is told the truth.
LEMMA ReturnIsQuiet == IInv => ReturnMeansQuiet
PROOF
  <1>. SUFFICES ASSUME IInv PROVE ReturnMeansQuiet
    OBVIOUS
  <1>1. ASSUME NEW g \in Gens, InTask(g, "joined"), ~job[g].control, g \in Used
        PROVE  ~Active(g) /\ job[g].held = <<>>
    <2>1. CleanupOk(g)
      BY DEF IInv, CleanupInv
    <2>2. ctx[g].state # "Open"
      BY <1>1, <2>1 DEF CleanupOk, InTask
    <2>. QED
      BY <1>1, <2>2, Quiet
  <1>2. \A g \in Gens : owner[g] \in {"ok", "error"} =>
            /\ InTask(g, "joined") /\ ~job[g].control /\ g \in Used
            /\ owner[g] = "ok" => job[g].terminal = "NORMAL"
    BY DEF IInv, WatchInv
  <1>3. observer.pc = "returned" =>
            /\ observer.gen \in Gens /\ observer.gen \in Used
            /\ InTask(observer.gen, "joined") /\ ~job[observer.gen].control
    BY DEF IInv, WatchInv, Used
  <1>4. ASSUME NEW g \in Gens, owner[g] = "ok", NEW r \in Resolvers, res[r].gen = g
        PROVE  fate[r] \in {"none", "disposed"}
    <2>1. job[g].held = <<>> /\ job[g].terminal = "NORMAL"
      BY <1>1, <1>2, <1>4
    <2>2. Settled(g)
      BY <2>1 DEF IInv, NormalInv, NormalOk
    <2>. QED
      BY <1>4, <2>1, <2>2, LedgerFacts DEF Settled
  <1>. QED
    BY <1>1, <1>2, <1>3, <1>4 DEF ReturnMeansQuiet

\* What a ledger, a cleanup task or a handoff holds was resolved in its
\* generation and is published; what the root holds was resolved in none.
LEMMA PlaceFacts ==
    ASSUME IInv, NEW r \in Resolvers
    PROVE  /\ \A g \in Gens : r \in Range(ctx[g].ledger) \cup Range(job[g].held) =>
                 res[r].gen = g /\ fate[r] = "published"
           /\ \A q \in Resolvers : r \in Range(res[q].carried) =>
                 /\ res[q].gen \in Gens /\ res[r].gen = res[q].gen
                 /\ fate[r] = "published" /\ At(q, "handoff")
           /\ r \in Range(roots.ledger) \cup Range(roots.held) =>
                 res[r].gen = None /\ fate[r] = "published"
PROOF
  <1>1. \A g \in Gens : r \in Range(ctx[g].ledger) \cup Range(job[g].held) =>
            res[r].gen = g /\ fate[r] = "published"
    BY DEF IInv, PlaceInv, InScope
  <1>2. ASSUME NEW q \in Resolvers, r \in Range(res[q].carried)
        PROVE  /\ res[q].gen \in Gens /\ res[r].gen = res[q].gen
               /\ fate[r] = "published" /\ At(q, "handoff")
    <2>1. res[q].carried # <<>>
      BY <1>2, LedgerFacts
    <2>2. At(q, "handoff")
      BY <2>1 DEF IInv, ResolutionInv, ResolutionOk, At
    <2>3. res[q].gen \in Gens
      BY <2>2 DEF IInv, ResolutionInv, ResolutionOk, At, Used
    <2>4. InScope(r, res[q].gen)
      BY <1>2 DEF InScope
    <2>. QED
      BY <2>2, <2>3, <2>4 DEF IInv, PlaceInv
  <1>. QED
    BY <1>1, <1>2 DEF IInv, PlaceInv, InRoot

\* The ledger of a scope, its cleanup task and the resolution that took its
\* handoff never hold instances at the same time.
LEMMA OnePlace ==
    ASSUME IInv, NEW g \in Gens
    PROVE  /\ job[g].held # <<>> => ctx[g].ledger = <<>>
           /\ \A q \in Resolvers : res[q].gen = g /\ At(q, "handoff") =>
                 /\ ctx[g].ledger = <<>> /\ job[g].held = <<>>
                 /\ \A p \in Resolvers : res[p].gen = g /\ At(p, "handoff") => p = q
PROOF
  <1>1. CleanupOk(g) /\ HandoffInv
    BY DEF IInv, CleanupInv
  <1>2. job[g].held # <<>> => ctx[g].ledger = <<>>
    BY <1>1 DEF CleanupOk
  <1>3. ASSUME NEW q \in Resolvers, res[q].gen = g, At(q, "handoff")
        PROVE  ctx[g].ledger = <<>> /\ job[g].held = <<>>
    BY <1>1, <1>3 DEF CleanupOk, HandoffInv
  <1>. QED
    BY <1>1, <1>2, <1>3 DEF HandoffInv

\* A published instance has one owner, any other has none.
LEMMA OwnedOnce == IInv => OwnedExactlyOnce
PROOF
  <1>. SUFFICES ASSUME IInv PROVE OwnedExactlyOnce
    OBVIOUS
  <1>1. ASSUME NEW r \in Resolvers
        PROVE  Owners(r) = IF fate[r] = "published" THEN 1 ELSE 0
    <2>. DEFINE A == {g \in Gens : r \in Range(ctx[g].ledger)}
                B == {g \in Gens : r \in Range(job[g].held)}
                C == {q \in Resolvers : r \in Range(res[q].carried)}
                D == {h \in {"ledger", "held"} : r \in Range(roots[h])}
    <2>1. Owners(r) = Cardinality(A) + Cardinality(B) + Cardinality(C) + Cardinality(D)
      BY DEF Owners
    <2>. HIDE DEF A, B, C, D
    <2>2. Cardinality({}) = 0 /\ \A x : Cardinality({x}) = 1
      BY FS_EmptySet, FS_Singleton
    <2>3. roots.ledger = roots["ledger"] /\ roots.held = roots["held"]
      OBVIOUS
    <2>4. CASE fate[r] # "published"
      <3>1. A = {} /\ B = {} /\ C = {} /\ D = {}
        BY <2>4, <2>3, PlaceFacts DEF A, B, C, D
      <3>. QED
        BY <3>1, <2>1, <2>2, <2>4
    <2>5. CASE fate[r] = "published" /\ res[r].gen = None
      <3>1. A = {} /\ B = {} /\ C = {}
        BY <2>5, PlaceFacts, ScopeAssumption DEF A, B, C, D
      <3>2. r \in Range(roots.ledger) \/ r \in Range(roots.held)
        BY <2>5 DEF IInv, PlaceInv, InRoot
      <3>3. ~(r \in Range(roots.ledger) /\ r \in Range(roots.held))
        BY LedgerFacts DEF IInv, PlaceInv
      <3>4. D = {"ledger"} \/ D = {"held"}
        BY <3>2, <3>3, <2>3 DEF A, B, C, D
      <3>9. /\ Cardinality(A) = 0 /\ Cardinality(B) = 0
             /\ Cardinality(C) = 0 /\ Cardinality(D) = 1
        BY <3>1, <3>4, <2>2
      <3>. QED
        BY <3>9, <2>1, <2>5
    <2>6. CASE fate[r] = "published" /\ res[r].gen # None
      <3>1. PICK g \in Gens : res[r].gen = g
        BY <2>6 DEF IInv, TypeOK, Resolutions
      <3>2. InScope(r, g)
        BY <2>6, <3>1 DEF IInv, PlaceInv
      <3>3. D = {} /\ A \subseteq {g} /\ B \subseteq {g}
        BY <2>6, <2>3, <3>1, PlaceFacts DEF A, B, C, D
      <3>4. \A q \in C : res[q].gen = g /\ At(q, "handoff")
        BY <3>1, PlaceFacts DEF A, B, C, D
      <3>5. CASE r \in Range(ctx[g].ledger)
        <4>1. A = {g} /\ B = {} /\ C = {}
          BY <3>3, <3>4, <3>5, OnePlace, LedgerFacts DEF A, B, C, D
        <4>9. /\ Cardinality(A) = 1 /\ Cardinality(B) = 0
               /\ Cardinality(C) = 0 /\ Cardinality(D) = 0
          BY <4>1, <3>3, <2>2
        <4>. QED
          BY <4>9, <2>1, <2>6
      <3>6. CASE r \in Range(job[g].held)
        <4>1. A = {} /\ B = {g} /\ C = {}
          BY <3>3, <3>4, <3>6, OnePlace, LedgerFacts DEF A, B, C, D
        <4>9. /\ Cardinality(A) = 0 /\ Cardinality(B) = 1
               /\ Cardinality(C) = 0 /\ Cardinality(D) = 0
          BY <4>1, <3>3, <2>2
        <4>. QED
          BY <4>9, <2>1, <2>6
      <3>7. CASE \E q \in Resolvers : res[q].gen = g /\ r \in Range(res[q].carried)
        <4>1. PICK q \in Resolvers : res[q].gen = g /\ r \in Range(res[q].carried)
          BY <3>7
        <4>2. q \in C /\ At(q, "handoff")
          BY <4>1, <3>4 DEF A, B, C, D
        <4>3. A = {} /\ B = {}
          BY <3>3, <4>1, <4>2, OnePlace, LedgerFacts DEF A, B, C, D
        <4>4. C = {q}
          BY <3>4, <4>1, <4>2, OnePlace DEF C
        <4>9. /\ Cardinality(A) = 0 /\ Cardinality(B) = 0
               /\ Cardinality(C) = 1 /\ Cardinality(D) = 0
          BY <4>3, <4>4, <3>3, <2>2
        <4>. QED
          BY <4>9, <2>1, <2>6
      <3>. QED
        BY <3>2, <3>5, <3>6, <3>7 DEF InScope
    <2>. QED
      BY <2>4, <2>5, <2>6
  <1>2. \A g \in Gens : ctx[g].state = "Closed" => ctx[g].ledger = <<>>
    BY DEF IInv, CleanupInv, CleanupOk
  <1>. QED
    BY <1>1, <1>2 DEF OwnedExactlyOnce

-----------------------------------------------------------------------------
(* What a step leaves alone                                                *)

\* The counters, if no resolution moves.
LEMMA CountFrame ==
    ASSUME CountInv, UNCHANGED res,
           \A g \in Gens : ctx'[g].inFlight = ctx[g].inFlight,
           provider'.inFlight = provider.inFlight
    PROVE  CountInv'
BY DEF CountInv, Guards, Admitted

\* The resolutions, if none of them moves: scopes keep their IDs and no
\* unpublished instance gets a fate.
LEMMA ResolutionFrame ==
    ASSUME ResolutionInv, UNCHANGED res,
           \A g \in Gens : ctx[g].state # "Unused" =>
               ctx'[g].state # "Unused" /\ ctx'[g].id = ctx[g].id,
           \A r \in Resolvers : fate[r] = "none" => fate'[r] = "none"
    PROVE  ResolutionInv'
BY DEF ResolutionInv, ResolutionOk, Used

\* The maps, if no control changes and no scope is opened or begins to close.
LEMMA MapFrame ==
    ASSUME MapInv, TypeOK, UNCHANGED <<scopes, closing>>,
           \A g \in Gens : /\ ctx'[g].id = ctx[g].id
                           /\ ctx'[g].state = "Open" <=> ctx[g].state = "Open"
                           /\ ctx'[g].state = "Unused" <=> ctx[g].state = "Unused"
                           /\ job'[g].control = job[g].control
    PROVE  MapInv'
PROOF
  <1>1. Used' = Used
    BY DEF Used
  <1>2. \A i \in Ids : /\ scopes[i] # None => scopes[i] \in Gens
                       /\ closing[i] # None => closing[i] \in Gens
    BY DEF TypeOK
  <1>3. \A g \in Used : g \in Gens
    BY DEF Used
  <1>. QED
    BY <1>1, <1>2, <1>3 DEF MapInv

\* The creation locks.
LEMMA LockFrame ==
    ASSUME LockInv, UNCHANGED res,
           \A r \in Resolvers : At(r, "create") /\ res[r].life = "scoped" => res[r].gen \in Gens,
           \A g \in Gens : ctx'[g].creating = ctx[g].creating /\ ctx'[g].cached = ctx[g].cached
    PROVE  LockInv'
BY DEF LockInv, At

\* The places of instances.
LEMMA PlaceFrame ==
    ASSUME PlaceInv, UNCHANGED <<roots, fate>>,
           shutdown' = "disposing" <=> shutdown = "disposing",
           \A r \in Resolvers : \/ res'[r].gen = res[r].gen
                                \/ fate[r] # "published" /\ res[r].carried = <<>>,
           \A r \in Resolvers : res'[r].carried = res[r].carried,
           \A r \in Resolvers : res[r].gen \in Gens \cup {None},
           \A g \in Gens : ctx'[g].ledger = ctx[g].ledger /\ job'[g].held = job[g].held
    PROVE  PlaceInv'
PROOF
  <1>1. \A r \in Resolvers : InRoot(r)' <=> InRoot(r)
    BY DEF InRoot
  <1>2. ASSUME NEW r \in Resolvers, NEW g \in Gens
        PROVE  InScope(r, g)' <=> InScope(r, g)
    BY LedgerFacts DEF InScope
  <1>. QED
    BY <1>1, <1>2 DEF PlaceInv

\* What the invariant reads of a cleanup task, but for its terminal state.
SameTask(g) ==
    /\ job'[g].pc = job[g].pc /\ job'[g].control = job[g].control
    /\ job'[g].detached = job[g].detached /\ job'[g].held = job[g].held
SameScope(g) ==
    /\ ctx'[g].state = ctx[g].state /\ ctx'[g].id = ctx[g].id
    /\ ctx'[g].inFlight = ctx[g].inFlight /\ ctx'[g].ledger = ctx[g].ledger
    /\ ctx'[g].handoff = ctx[g].handoff

\* The cleanups, if tasks and scopes do not move: an open task may be claimed.
LEMMA CleanupFrame ==
    ASSUME NEW g \in Gens, CleanupOk(g), SameTask(g), SameScope(g),
           job'[g].pc = "none" => job'[g].terminal = job[g].terminal
    PROVE  CleanupOk(g)'
BY DEF CleanupOk, SameTask, SameScope

\* Who takes a handoff, if no resolution moves.
LEMMA HandoffFrame ==
    ASSUME HandoffInv, UNCHANGED res,
           \A r \in Resolvers : At(r, "handoff") =>
               ctx'[res[r].gen].handoff = ctx[res[r].gen].handoff
    PROVE  HandoffInv'
BY DEF HandoffInv, At

\* What a cleanup promises, if no instance of its generation meets a fate.
LEMMA NormalFrame ==
    ASSUME NormalInv,
           \A g \in Gens : /\ SameTask(g)
                           /\ \/ job'[g].terminal = job[g].terminal
                              \/ job'[g].terminal \notin {"OPEN", "NORMAL"}
                           /\ ctx'[g].state # "Closed" => ctx[g].state # "Closed",
           \A r \in Resolvers : res'[r].gen = res[r].gen /\ fate'[r] = fate[r]
    PROVE  NormalInv'
BY DEF NormalInv, NormalOk, Settled, SameTask

\* What owner and observer were told, if they are told nothing new.
LEMMA WatchFrame ==
    ASSUME WatchInv, TypeOK, UNCHANGED <<owner, observer>>,
           \A g \in Gens : ctx[g].state # "Unused" => ctx'[g].state # "Unused",
           \A g \in Gens : job[g].pc = "joined" /\ ~job[g].control =>
               job'[g].pc = "joined" /\ ~job'[g].control,
           \A g \in Gens : job[g].pc = "joined" /\ job[g].terminal = "NORMAL" =>
               job'[g].terminal = "NORMAL"
    PROVE  WatchInv'
PROOF
  <1>1. \A g \in Used : g \in Gens /\ g \in Used'
    BY DEF Used
  <1>. QED
    BY <1>1 DEF WatchInv, InTask

\* The stages of the shutdown, if it does not move: what it has seen the end
\* of does not begin again.
LEMMA ShutdownFrame ==
    ASSUME ShutdownInv, UNCHANGED <<accepting, shutdown>>, provider'.state = provider.state,
           ScopesGone => ScopesGone',
           ScopesGone /\ TasksGone => TasksGone',
           ScopesGone /\ provider.state # "Running" =>
               \A r \in Resolvers : res[r].pc \in {"idle", "recheck", "done"} =>
                   res'[r].pc \in {"idle", "recheck", "done"}
    PROVE  ShutdownInv'
PROOF
  <1>1. shutdown \in RootStages \/ provider.state = "Closed" =>
            shutdown \notin {"none", "stop", "scopes"}
    BY DEF ShutdownInv, RootStages
  <1>. QED
    BY <1>1 DEF ShutdownInv, RootStages

-----------------------------------------------------------------------------
(* The shutdown                                                            *)

\* A step of the shutdown that moves no scope, task or resolution.
ShutdownOnly ==
    /\ UNCHANGED <<scopes, closing, ctx, job, owner, observer, res>>
    /\ provider'.inFlight = provider.inFlight

\* It disturbs only the places of instances and its own stages.
LEMMA ShutdownOnlyKeeps ==
    ASSUME IInv, ShutdownOnly, \A r \in Resolvers : fate[r] = "none" => fate'[r] = "none"
    PROVE  /\ CountInv' /\ ResolutionInv' /\ MapInv' /\ CleanupInv' /\ LockInv' /\ WatchInv'
           /\ UNCHANGED fate => NormalInv'
           /\ UNCHANGED <<fate, roots>> /\ (shutdown' = "disposing" <=> shutdown = "disposing")
              => PlaceInv'
PROOF
  <1>. USE DEF ShutdownOnly
  <1>1. CountInv'
    BY CountFrame DEF IInv
  <1>2. ResolutionInv'
    BY ResolutionFrame DEF IInv
  <1>3. MapInv'
    BY MapFrame DEF IInv
  <1>4. CleanupInv'
    BY DEF IInv, CleanupInv, CleanupOk, HandoffInv, At
  <1>5. LockInv'
    BY DEF IInv, LockInv, At
  <1>6. WatchInv'
    BY WatchFrame DEF IInv
  <1>7. UNCHANGED fate => NormalInv'
    BY DEF IInv, NormalInv, NormalOk, Settled
  <1>8. UNCHANGED <<fate, roots>> /\ (shutdown' = "disposing" <=> shutdown = "disposing")
        => PlaceInv'
    BY DEF IInv, PlaceInv, InScope, InRoot
  <1>. QED
    BY <1>1, <1>2, <1>3, <1>4, <1>5, <1>6, <1>7, <1>8

\* A step that moves only the shutdown and the provider's state keeps the
\* invariant if it keeps the types and the stages.
LEMMA StageKeeps ==
    ASSUME IInv, ShutdownOnly, UNCHANGED <<fate, roots>>,
           shutdown' = "disposing" <=> shutdown = "disposing",
           provider' \in Providers, accepting' \in BOOLEAN, shutdown' \in ShutSteps,
           late' \in BOOLEAN, ShutdownInv'
    PROVE  IInv'
PROOF
  <1>1. TypeOK'
    BY DEF IInv, TypeOK, ShutdownOnly
  <1>. QED
    BY <1>1, ShutdownOnlyKeeps DEF IInv

\* begin_shutdown: the provider leaves Running as the shutdown leaves "none".
LEMMA BeginShutdownStep ==
    ASSUME IInv, BeginShutdown PROVE IInv'
PROOF
  <1>1. ShutdownOnly /\ UNCHANGED <<fate, roots>> /\ provider' \in Providers
    BY DEF IInv, TypeOK, BeginShutdown, ShutdownOnly, scopeVars, watchVars, Providers
  <1>2. ShutdownInv'
    BY DEF IInv, TypeOK, Providers, BeginShutdown, ShutGoto, scopeVars, ShutdownInv,
           RootStages, ScopesGone, TasksGone
  <1>. QED
    BY <1>1, <1>2, StageKeeps
       DEF IInv, TypeOK, BeginShutdown, ShutGoto, ShutSteps, scopeVars

\* No scope is opened from here on.
LEMMA StopAcceptingStep ==
    ASSUME IInv, StopAccepting PROVE IInv'
PROOF
  <1>1. ShutdownOnly /\ UNCHANGED <<fate, roots>> /\ provider' \in Providers
    BY DEF IInv, TypeOK, StopAccepting, ShutdownOnly, watchVars
  <1>2. ShutdownInv'
    BY DEF IInv, StopAccepting, ShutGoto, ShutdownInv, RootStages, ScopesGone, TasksGone
  <1>. QED
    BY <1>1, <1>2, StageKeeps DEF IInv, TypeOK, StopAccepting, ShutGoto, ShutSteps

\* A scope in the map is a live one.
LEMMA LiveScopes ==
    ASSUME TypeOK, MapInv
    PROVE  /\ \A i \in Ids : scopes[i] # None => scopes[i] \in Live
           /\ \A g \in Live : g \in Gens /\ ctx[g].state = "Open" /\ ctx[g].id \in Ids
                              /\ scopes[ctx[g].id] = g
PROOF
  <1>1. ASSUME NEW i \in Ids, scopes[i] # None PROVE scopes[i] \in Live
    <2>1. scopes[i] \in Gens
      BY <1>1 DEF TypeOK
    <2>2. ctx[scopes[i]].state = "Open" /\ ctx[scopes[i]].id = i
      BY <1>1 DEF MapInv
    <2>. QED
      BY <2>1, <2>2 DEF Live, Used
  <1>2. ASSUME NEW g \in Live
        PROVE  g \in Gens /\ ctx[g].state = "Open" /\ ctx[g].id \in Ids /\ scopes[ctx[g].id] = g
    <2>1. g \in Gens /\ g \in Used /\ scopes[ctx[g].id] = g
      BY DEF Live, Used
    <2>2. ctx[g].id \in Ids /\ g # None
      BY <2>1, ScopeAssumption DEF MapInv
    <2>. QED
      BY <2>1, <2>2 DEF MapInv
  <1>. QED
    BY <1>1, <1>2

\* No scope is live, so no map entry is left.
LEMMA ScopesDrainedStep ==
    ASSUME IInv, ScopesDrained PROVE IInv'
PROOF
  <1>1. ShutdownOnly /\ UNCHANGED <<fate, roots>> /\ provider' \in Providers
    BY DEF IInv, TypeOK, ScopesDrained, ShutdownOnly, watchVars, scopeVars
  <1>2. ScopesGone
    BY LiveScopes DEF IInv, ScopesDrained, ScopesGone
  <1>3. ShutdownInv'
    BY <1>2 DEF IInv, ScopesDrained, ShutGoto, ShutdownInv, RootStages, ScopesGone, TasksGone,
                scopeVars
  <1>. QED
    BY <1>1, <1>3, StageKeeps DEF IInv, TypeOK, ScopesDrained, ShutGoto, ShutSteps, scopeVars

\* Without a cleanup task and a reservation, nothing is left of the scopes.
LEMMA ReconciledStep ==
    ASSUME IInv, shutdown \in {"tasks", "yield"},
           IF CleanupTasks # {} THEN Failed ELSE Reconciled,
           UNCHANGED <<scopeVars, job, watchVars, res, fate, roots, late>>
    PROVE  IInv'
PROOF
  <1>1. \/ Failed
        \/ shutdown' = "root" /\ UNCHANGED provider /\ TasksGone
    BY DEF Reconciled, ShutGoto, CleanupTasks, HoldsToken, TasksGone
  <1>2. ShutdownOnly /\ UNCHANGED <<fate, roots>> /\ provider' \in Providers
    BY <1>1 DEF IInv, TypeOK, Failed, ShutdownOnly, watchVars, scopeVars, Providers
  <1>3. shutdown' \in {"done", "root"}
    BY <1>1 DEF Failed, ShutGoto
  <1>4. CASE Failed
    <2>1. provider'.state = "Failed" /\ shutdown' = "done"
      BY <1>4 DEF Failed, ShutGoto, IInv, TypeOK, Providers
    <2>. QED
      BY <1>2, <1>3, <2>1, StageKeeps
         DEF IInv, TypeOK, ShutdownInv, RootStages, ScopesGone, scopeVars, ShutSteps
  <1>5. CASE shutdown' = "root" /\ UNCHANGED provider /\ TasksGone
    BY <1>2, <1>5, StageKeeps
       DEF IInv, TypeOK, ShutdownInv, RootStages, ScopesGone, TasksGone, scopeVars, ShutSteps
  <1>. QED
    BY <1>1, <1>4, <1>5

\* drain_cleanup_tasks, with no task and no reservation left, or a failure.
LEMMA TasksDrainedStep ==
    ASSUME IInv, TasksDrained PROVE IInv'
BY ReconciledStep DEF TasksDrained

\* The same after one more scheduler turn.
LEMMA YieldedStep ==
    ASSUME IInv, Yielded PROVE IInv'
BY ReconciledStep DEF Yielded

\* Root disposal begins when the counter says that nothing is in flight, and
\* the counter is right.
LEMMA CheckResolutionsStep ==
    ASSUME IInv, CheckResolutions PROVE IInv'
PROOF
  <1>1. ShutdownOnly /\ UNCHANGED <<fate, roots>> /\ provider' \in Providers
    BY DEF IInv, TypeOK, CheckResolutions, Failed, ShutdownOnly, watchVars, scopeVars, Providers
  <1>2. ASSUME provider.inFlight = 0
        PROVE  \A r \in Resolvers : res[r].pc \in {"idle", "recheck", "done"}
    <2>1. Admitted = {}
      BY <1>2, GuardCounts DEF IInv, CountInv, Admitted
    <2>. QED
      BY <2>1 DEF Admitted
  <1>3. \/ provider'.state = "Failed" /\ shutdown' = "done"
        \/ UNCHANGED provider /\ shutdown' = "rootWait"
        \/ UNCHANGED provider /\ shutdown' = "dispose" /\ provider.inFlight = 0
    BY DEF CheckResolutions, Failed, ShutGoto, IInv, TypeOK, Providers
  <1>4. ShutdownInv'
    BY <1>2, <1>3
       DEF IInv, CheckResolutions, ShutdownInv, RootStages, ScopesGone, TasksGone, scopeVars
  <1>. QED
    BY <1>1, <1>3, <1>4, StageKeeps
       DEF IInv, TypeOK, CheckResolutions, ShutSteps, scopeVars

\* A permit is consumed and the resolutions are counted again.
LEMMA ShutdownWakesStep ==
    ASSUME IInv, ShutdownWakes PROVE IInv'
PROOF
  <1>1. /\ ShutdownOnly /\ UNCHANGED <<fate, roots>> /\ provider' \in Providers
        /\ provider'.state = provider.state
    BY DEF IInv, TypeOK, ShutdownWakes, ShutdownOnly, watchVars, scopeVars, Providers
  <1>2. ShutdownInv'
    BY <1>1 DEF IInv, ShutdownWakes, ShutGoto, ShutdownInv, RootStages, ScopesGone, TasksGone,
                scopeVars
  <1>. QED
    BY <1>1, <1>2, StageKeeps DEF IInv, TypeOK, ShutdownWakes, ShutGoto, ShutSteps, scopeVars

\* Root disposal is skipped: the provider fails, its ledger stays owned.
LEMMA ResolutionsTimeOutStep ==
    ASSUME IInv, ResolutionsTimeOut PROVE IInv'
PROOF
  <1>1. /\ ShutdownOnly /\ UNCHANGED <<fate, roots>> /\ provider' \in Providers
        /\ provider'.state = "Failed" /\ shutdown' = "done"
    BY DEF IInv, TypeOK, ResolutionsTimeOut, Failed, ShutGoto, ShutdownOnly, watchVars,
           scopeVars, Providers
  <1>2. ShutdownInv'
    BY <1>1 DEF IInv, ResolutionsTimeOut, ShutdownInv, RootStages, ScopesGone, TasksGone,
                scopeVars
  <1>. QED
    BY <1>1, <1>2, StageKeeps DEF IInv, TypeOK, ResolutionsTimeOut, ShutSteps, scopeVars

\* The ledger of the root moves to its disposal as a whole.
LEMMA TakeRootsStep ==
    ASSUME IInv, TakeRoots PROVE IInv'
PROOF
  <1>1. /\ ShutdownOnly /\ UNCHANGED <<fate, provider, accepting, late>>
        /\ shutdown = "dispose" /\ shutdown' = "disposing"
        /\ roots' = [ledger |-> <<>>, held |-> Reverse(roots.ledger)]
    BY DEF TakeRoots, ShutGoto, ShutdownOnly, watchVars, scopeVars
  <1>2. roots.ledger \in Ledgers /\ roots.held = <<>>
    BY <1>1 DEF IInv, TypeOK, PlaceInv
  <1>3. /\ roots' \in [ledger : Ledgers, held : Ledgers]
        /\ \A r : InRoot(r)' <=> InRoot(r)
        /\ roots'.ledger = <<>>
    BY <1>1, <1>2, ReverseLedger, LedgerFacts DEF InRoot
  <1>4. TypeOK'
    BY <1>1, <1>3 DEF IInv, TypeOK, ShutdownOnly, ShutSteps
  <1>5. PlaceInv'
    BY <1>1, <1>3 DEF IInv, PlaceInv, InScope, ShutdownOnly
  <1>6. ShutdownInv'
    BY <1>1 DEF IInv, ShutdownInv, RootStages, ScopesGone, TasksGone, ShutdownOnly
  <1>. QED
    BY <1>1, <1>4, <1>5, <1>6, ShutdownOnlyKeeps DEF IInv

\* The root's instances are the ones whose fate is decided, and no others.
LEMMA RootsDisposedStep ==
    ASSUME IInv, RootsDisposed PROVE IInv'
PROOF
  <1>1. /\ ShutdownOnly /\ UNCHANGED <<accepting, late>>
        /\ shutdown = "disposing" /\ shutdown' = "done"
        /\ provider' \in Providers /\ provider'.state = "Closed"
        /\ roots' \in [ledger : Ledgers, held : Ledgers]
        /\ roots.ledger = <<>> /\ roots'.ledger = <<>> /\ roots'.held = <<>>
    BY LedgerFacts
       DEF RootsDisposed, ShutGoto, ShutdownOnly, watchVars, scopeVars, IInv, TypeOK, Providers,
           PlaceInv
  <1>2. PICK skipped \in SUBSET Range(roots.held) :
            fate' = [r \in Resolvers |->
                       IF r \in skipped THEN "forced"
                       ELSE IF r \in Range(roots.held) THEN "disposed" ELSE fate[r]]
    BY DEF RootsDisposed
  <1>3. /\ \A r \in Resolvers : IF InRoot(r) THEN fate'[r] \in {"forced", "disposed"}
                                             ELSE fate'[r] = fate[r]
        /\ \A r \in Resolvers : ~InRoot(r)'
    BY <1>1, <1>2, LedgerFacts DEF InRoot
  <1>4. \A r \in Resolvers : InRoot(r) => fate[r] = "published" /\ res[r].gen = None
    BY DEF IInv, PlaceInv
  <1>5. TypeOK'
    <2>1. fate' \in [Resolvers -> {"none", "published", "disposed", "forced"}]
      BY <1>2 DEF IInv, TypeOK
    <2>. QED
      BY <1>1, <2>1 DEF IInv, TypeOK, ShutdownOnly, ShutSteps
  <1>6. \A r \in Resolvers : fate[r] = "none" => fate'[r] = "none"
    BY <1>3, <1>4
  <1>7. \A r \in Resolvers : res[r].gen # None => fate'[r] = fate[r]
    BY <1>3, <1>4
  <1>8. NormalInv'
    BY <1>1, <1>7, ScopeAssumption DEF IInv, NormalInv, NormalOk, Settled, ShutdownOnly
  <1>9. PlaceInv'
    <2>1. \A r \in Resolvers, g \in Gens : InScope(r, g)' <=> InScope(r, g)
      BY <1>1 DEF InScope, ShutdownOnly
    <2>2. \A r \in Resolvers : res'[r] = res[r] /\ res[r].gen \in Gens \cup {None}
      BY <1>1 DEF IInv, TypeOK, Resolutions, ShutdownOnly
    <2>. QED
      BY <1>1, <1>3, <1>7, <2>1, <2>2, ScopeAssumption DEF IInv, PlaceInv
  <1>10. ShutdownInv'
    BY <1>1 DEF IInv, ShutdownInv, RootStages, ScopesGone, TasksGone, ShutdownOnly
  <1>. QED
    BY <1>1, <1>5, <1>6, <1>8, <1>9, <1>10, ShutdownOnlyKeeps DEF IInv

-----------------------------------------------------------------------------
(* Waits and deadlines                                                     *)

\* A step that moves at most the terminal states of open cleanups, who decides
\* about an abort and whether it is safe: nobody reaches a normal end by it.
ClaimOnly ==
    /\ UNCHANGED <<scopes, closing, accepting, ctx, res, fate, roots>>
    /\ job' \in [Gens -> Jobs]
    /\ \A g \in Gens :
         /\ SameTask(g)
         /\ \/ job'[g].terminal = job[g].terminal
            \/ /\ job[g].control /\ job[g].terminal = "OPEN"
               /\ job'[g].terminal \notin {"OPEN", "NORMAL"}
    /\ provider'.inFlight = provider.inFlight

\* It keeps what the invariant says of resolutions, scopes and cleanups.
LEMMA ClaimKeeps ==
    ASSUME IInv, ClaimOnly
    PROVE  /\ CountInv' /\ ResolutionInv' /\ MapInv' /\ CleanupInv' /\ LockInv' /\ NormalInv'
           /\ (shutdown' = "disposing" <=> shutdown = "disposing") => PlaceInv'
           /\ UNCHANGED <<owner, observer>> => WatchInv'
           /\ UNCHANGED shutdown /\ provider'.state = provider.state => ShutdownInv'
PROOF
  <1>. USE DEF ClaimOnly
  <1>1. CountInv'
    BY CountFrame DEF IInv
  <1>2. ResolutionInv'
    BY ResolutionFrame DEF IInv
  <1>3. MapInv'
    BY MapFrame DEF IInv, SameTask
  <1>4. CleanupInv'
    <2>1. HandoffInv'
      BY HandoffFrame DEF IInv, CleanupInv
    <2>2. ASSUME NEW g \in Gens PROVE CleanupOk(g)'
      <3>1. CleanupOk(g) /\ SameScope(g)
        BY DEF IInv, CleanupInv, SameScope
      <3>2. job'[g].pc = "none" => job'[g].terminal = job[g].terminal
        BY <3>1 DEF CleanupOk, SameTask
      <3>. QED
        BY <3>1, <3>2, CleanupFrame
    <2>. QED
      BY <2>1, <2>2 DEF CleanupInv
  <1>5. LockInv'
    BY DEF IInv, LockInv, At
  <1>6. NormalInv'
    BY NormalFrame DEF IInv
  <1>7. (shutdown' = "disposing" <=> shutdown = "disposing") => PlaceInv'
    <2>1. \A r \in Resolvers : res[r].gen \in Gens \cup {None}
      BY DEF IInv, TypeOK, Resolutions
    <2>. QED
      BY <2>1, PlaceFrame DEF IInv, SameTask
  <1>8. UNCHANGED <<owner, observer>> => WatchInv'
    BY WatchFrame DEF IInv, SameTask
  <1>9. UNCHANGED shutdown /\ provider'.state = provider.state => ShutdownInv'
    BY ShutdownFrame DEF IInv, ScopesGone, TasksGone, SameTask
  <1>. QED
    BY <1>1, <1>2, <1>3, <1>4, <1>5, <1>6, <1>7, <1>8, <1>9

\* An abort decision touches nothing the invariant reads.
LEMMA DecideAbortStep ==
    ASSUME IInv, NEW g \in Gens, DecideAbort(g) PROVE IInv'
PROOF
  <1>1. ClaimOnly
    <2>1. job \in [Gens -> Jobs] /\ IsAbortSafe(g) \in BOOLEAN
      BY DEF IInv, TypeOK, IsAbortSafe, Jobs
    <2>2. PICK safe \in BOOLEAN : safe = IsAbortSafe(g)
      BY <2>1
    <2>3. job' = [job EXCEPT ![g] = [job[g] EXCEPT !.deciding = None, !.abortSafe = safe,
                                                   !.aborted = safe]]
      BY <2>1, <2>2 DEF DecideAbort
    <2>4. job' \in [Gens -> Jobs]
      BY <2>1, <2>3 DEF Jobs
    <2>5. \A h \in Gens : SameTask(h) /\ job'[h].terminal = job[h].terminal
      BY <2>1, <2>3 DEF SameTask, Jobs
    <2>. QED
      BY <2>4, <2>5 DEF DecideAbort, ClaimOnly, scopeVars
  <1>2. TypeOK'
    BY <1>1 DEF IInv, TypeOK, DecideAbort, ClaimOnly, scopeVars, watchVars, shutVars
  <1>. QED
    BY <1>1, <1>2, ClaimKeeps DEF IInv, DecideAbort, watchVars, shutVars

\* A claim of an open cleanup by a deadline.
LEMMA ClaimedTask ==
    ASSUME TypeOK, NEW g \in Gens, Claimable(g), NEW by \in {"owner", "observer", "shutdown"}
    PROVE  /\ Claimed(g, by) \in Jobs
           /\ Claimed(g, by).pc = job[g].pc /\ Claimed(g, by).control = job[g].control
           /\ Claimed(g, by).detached = job[g].detached /\ Claimed(g, by).held = job[g].held
           /\ Claimed(g, by).terminal \notin {"OPEN", "NORMAL"}
           /\ job[g].control /\ job[g].terminal = "OPEN"
BY DEF TypeOK, Claimable, Claimed, Jobs

\* A deadline claims an open cleanup for the owner.
LEMMA OwnerExpiresStep ==
    ASSUME IInv, NEW g \in Gens, OwnerExpires(g) PROVE IInv'
PROOF
  <1>1. job \in [Gens -> Jobs] /\ job' = [job EXCEPT ![g] = Claimed(g, "owner")] /\ Claimable(g)
    BY DEF IInv, TypeOK, OwnerExpires
  <1>2. ClaimOnly
    BY <1>1, ClaimedTask DEF IInv, OwnerExpires, ClaimOnly, SameTask, scopeVars
  <1>3. owner' \in [Gens -> OwnerStates]
    BY DEF IInv, TypeOK, OwnerExpires, OwnerStates
  <1>4. TypeOK'
    BY <1>2, <1>3 DEF IInv, TypeOK, OwnerExpires, ClaimOnly, scopeVars, shutVars
  <1>5. WatchInv'
    BY <1>2 DEF IInv, TypeOK, WatchInv, OwnerExpires, ClaimOnly, SameTask, InTask, Used
  <1>. QED
    BY <1>2, <1>4, <1>5, ClaimKeeps DEF IInv, OwnerExpires, shutVars

\* A deadline claims an open cleanup for the observer, if it is still open.
LEMMA ObserverClaimsStep ==
    ASSUME IInv, ObserverClaims PROVE IInv'
PROOF
  <1>1. PICK g \in Gens : g = observer.gen
    BY DEF IInv, WatchInv, Used, ObserverClaims
  <1>2. /\ job \in [Gens -> Jobs]
        /\ job' = IF Claimable(g) THEN [job EXCEPT ![g] = Claimed(g, "observer")] ELSE job
    BY <1>1 DEF IInv, TypeOK, ObserverClaims
  <1>3. ClaimOnly
    BY <1>2, ClaimedTask DEF IInv, ObserverClaims, ClaimOnly, SameTask, scopeVars
  <1>4. observer' \in Observations /\ observer'.pc = observer.pc /\ observer'.gen = observer.gen
    BY DEF IInv, TypeOK, ObserverClaims, Observations
  <1>5. TypeOK'
    BY <1>3, <1>4 DEF IInv, TypeOK, ObserverClaims, ClaimOnly, scopeVars, shutVars
  <1>6. WatchInv'
    BY <1>3, <1>4, <1>1
       DEF IInv, TypeOK, WatchInv, ObserverClaims, ClaimOnly, SameTask, InTask, Used
  <1>. QED
    BY <1>3, <1>5, <1>6, ClaimKeeps DEF IInv, ObserverClaims, shutVars

\* abort_cleanup_tasks claims every open cleanup.
LEMMA TasksTimeOutStep ==
    ASSUME IInv, TasksTimeOut PROVE IInv'
PROOF
  <1>1. /\ job \in [Gens -> Jobs]
        /\ job' = [g \in Gens |-> IF Claimable(g) THEN Claimed(g, "shutdown") ELSE job[g]]
    BY DEF IInv, TypeOK, TasksTimeOut
  <1>2. ClaimOnly
    BY <1>1, ClaimedTask DEF IInv, TasksTimeOut, ClaimOnly, SameTask, scopeVars
  <1>3. TypeOK'
    BY <1>2 DEF IInv, TypeOK, TasksTimeOut, ShutGoto, ShutSteps, ClaimOnly, scopeVars, watchVars
  <1>4. ShutdownInv'
    BY <1>2 DEF IInv, TasksTimeOut, ShutGoto, ShutdownInv, RootStages, ScopesGone, ClaimOnly
  <1>. QED
    BY <1>2, <1>3, <1>4, ClaimKeeps DEF IInv, TasksTimeOut, ShutGoto, watchVars

\* A claimed cleanup that still waits for a factory fails the shutdown.
LEMMA CountRetainedStep ==
    ASSUME IInv, CountRetained PROVE IInv'
PROOF
  <1>1. /\ job \in [Gens -> Jobs]
        /\ job' = [g \in Gens |->
                     [job[g] EXCEPT !.abortSafe = @ \/ (job[g].control /\ IsAbortSafe(g))]]
    BY DEF IInv, TypeOK, CountRetained
  <1>2. job' \in [Gens -> Jobs] /\ \A g \in Gens : SameTask(g) /\ job'[g].terminal = job[g].terminal
    BY <1>1 DEF SameTask, Jobs
  <1>3. /\ provider' \in Providers /\ provider'.inFlight = provider.inFlight
        /\ \/ provider'.state = "Failed" /\ shutdown' = "done"
           \/ provider'.state = provider.state /\ shutdown' = "yield"
    BY DEF IInv, TypeOK, CountRetained, Failed, ShutGoto, Providers
  <1>4. ClaimOnly
    BY <1>2, <1>3 DEF CountRetained, ClaimOnly, scopeVars
  <1>5. TypeOK'
    BY <1>2, <1>3 DEF IInv, TypeOK, CountRetained, ShutSteps, scopeVars, watchVars
  <1>6. ShutdownInv'
    BY <1>3, <1>4
       DEF IInv, CountRetained, ShutdownInv, RootStages, ScopesGone, ClaimOnly
  <1>. QED
    BY <1>3, <1>4, <1>5, <1>6, ClaimKeeps DEF IInv, CountRetained, watchVars

\* A step that tells the owner or the observer something.
WatchOnly ==
    UNCHANGED <<scopes, closing, accepting, ctx, job, res, fate, provider, roots, shutdown, late>>

\* It disturbs only what they were told.
LEMMA WatchKeeps ==
    ASSUME IInv, WatchOnly, WatchInv',
           owner' \in [Gens -> OwnerStates], observer' \in Observations
    PROVE  IInv'
PROOF
  <1>1. TypeOK'
    BY DEF IInv, TypeOK, WatchOnly
  <1>2. ClaimOnly
    BY DEF IInv, TypeOK, WatchOnly, ClaimOnly, SameTask
  <1>. QED
    BY <1>1, <1>2, ClaimKeeps DEF IInv, WatchOnly

\* The owner is told of a cleanup whose task is joined and control gone.
LEMMA OwnerReturnsStep ==
    ASSUME IInv, NEW g \in Gens, OwnerReturns(g) PROVE IInv'
PROOF
  <1>1. WatchOnly /\ owner' \in [Gens -> OwnerStates] /\ observer' \in Observations
    BY DEF IInv, TypeOK, OwnerReturns, WatchOnly, OwnerStates, scopeVars, shutVars
  <1>2. WatchInv'
    BY DEF IInv, TypeOK, WatchInv, OwnerReturns, InTask, Used, scopeVars
  <1>. QED
    BY <1>1, <1>2, WatchKeeps

\* The observer watches a generation that has been used.
LEMMA ObserveStep ==
    ASSUME IInv, NEW g \in Gens, Observe(g) PROVE IInv'
PROOF
  <1>1. WatchOnly /\ owner' \in [Gens -> OwnerStates] /\ observer' \in Observations
    BY DEF IInv, TypeOK, Observe, WatchOnly, Observations, scopeVars, shutVars
  <1>2. WatchInv'
    BY DEF IInv, TypeOK, Observations, WatchInv, Observe, InTask, Used, scopeVars
  <1>. QED
    BY <1>1, <1>2, WatchKeeps

\* The reservation and the control of a cleanup go together, so a generation
\* in neither map has no control.
LEMMA ObserverReturnsStep ==
    ASSUME IInv, ObserverReturns PROVE IInv'
PROOF
  <1>1. PICK g \in Gens : g = observer.gen /\ g \in Used
    BY DEF IInv, WatchInv, Used, ObserverReturns
  <1>2. WatchOnly /\ owner' \in [Gens -> OwnerStates] /\ observer' \in Observations
    BY DEF IInv, TypeOK, ObserverReturns, WatchOnly, Observations, scopeVars, shutVars
  <1>3. InTask(g, "joined") /\ ~job[g].control
    BY <1>1 DEF IInv, MapInv, ObserverReturns, ActiveOrClosing
  <1>4. observer'.gen = g
    BY <1>1 DEF IInv, TypeOK, Observations, ObserverReturns
  <1>5. WatchInv'
    BY <1>1, <1>3, <1>4 DEF IInv, WatchInv, ObserverReturns, InTask, Used, scopeVars
  <1>. QED
    BY <1>2, <1>5, WatchKeeps

-----------------------------------------------------------------------------
(* Resolutions                                                             *)

\* A step of one resolution that moves no scope and makes no instance.
ResolverOnly(r) ==
    /\ UNCHANGED <<scopes, closing, accepting, ctx, job, owner, observer, fate, roots, shutdown,
                   late>>
    /\ provider'.state = provider.state
    /\ \A q \in Resolvers : q # r => res'[q] = res[q]
    /\ res'[r].carried = res[r].carried

\* It keeps the invariant if it is counted, and if after root disposal it
\* leads no further than to the second check.
LEMMA ResolverKeeps ==
    ASSUME IInv, NEW r \in Resolvers, ResolverOnly(r),
           res' \in [Resolvers -> Resolutions], provider' \in Providers,
           CountInv', ResolutionOk(r)',
           res'[r].pc # "handoff", ~(res'[r].pc = "create" /\ res'[r].life = "scoped"),
           res'[r].gen = res[r].gen \/ (fate[r] = "none" /\ res[r].carried = <<>>),
           provider.state # "Running" /\ ScopesGone /\ res[r].pc \in {"idle", "recheck", "done"}
               => res'[r].pc \in {"idle", "recheck", "done"}
    PROVE  IInv'
PROOF
  <1>. USE DEF ResolverOnly
  <1>1. TypeOK'
    BY DEF IInv, TypeOK
  <1>2. ResolutionInv'
    <2>1. ASSUME NEW q \in Resolvers, q # r PROVE ResolutionOk(q)'
      BY <2>1 DEF IInv, ResolutionInv, ResolutionOk, Used
    <2>. QED
      BY <2>1 DEF ResolutionInv
  <1>3. MapInv'
    BY MapFrame DEF IInv
  <1>4. CleanupInv'
    <2>1. HandoffInv'
      BY DEF IInv, CleanupInv, HandoffInv, At
    <2>2. ASSUME NEW g \in Gens PROVE CleanupOk(g)'
      BY CleanupFrame DEF IInv, CleanupInv, SameTask, SameScope
    <2>. QED
      BY <2>1, <2>2 DEF CleanupInv
  <1>5. LockInv'
    BY DEF IInv, LockInv, At
  <1>6. PlaceInv'
    <2>1. \A q \in Resolvers : res[q].gen \in Gens \cup {None}
      BY DEF IInv, TypeOK, Resolutions
    <2>2. \A q \in Resolvers : \/ res'[q].gen = res[q].gen
                               \/ fate[q] # "published" /\ res[q].carried = <<>>
      OBVIOUS
    <2>3. \A q \in Resolvers : res'[q].carried = res[q].carried
      OBVIOUS
    <2>. QED
      BY <2>1, <2>2, <2>3, PlaceFrame DEF IInv
  <1>7. NormalInv'
    BY DEF IInv, NormalInv, NormalOk, Settled
  <1>8. WatchInv'
    BY WatchFrame DEF IInv
  <1>9. ShutdownInv'
    BY ShutdownFrame DEF IInv, ScopesGone, TasksGone
  <1>. QED
    BY <1>1, <1>2, <1>3, <1>4, <1>5, <1>6, <1>7, <1>8, <1>9 DEF IInv

\* How the counters follow the step of a resolution that neither takes nor
\* gives up a guard.
LEMMA AdmissionCount ==
    ASSUME IInv, NEW r \in Resolvers,
           \A g \in Gens : ctx'[g].inFlight = ctx[g].inFlight,
           \A q \in Resolvers : q # r => res'[q] = res[q],
           \A g \in Gens : r \in Guards(g)' <=> r \in Guards(g),
           \/ /\ res[r].pc \in {"idle", "done"} <=> res'[r].pc \in {"idle", "done"}
              /\ provider'.inFlight = provider.inFlight
           \/ /\ res[r].pc \in {"idle", "done"} /\ res'[r].pc \notin {"idle", "done"}
              /\ provider'.inFlight = provider.inFlight + 1
           \/ /\ res[r].pc \notin {"idle", "done"} /\ res'[r].pc \in {"idle", "done"}
              /\ provider'.inFlight = provider.inFlight - 1
    PROVE  CountInv' /\ provider'.inFlight \in 0..Cardinality(Resolvers)
PROOF
  <1>1. \A g \in Gens : Guards(g)' = Guards(g)
    BY DEF Guards
  <1>2. Admitted \in SUBSET Resolvers /\ Admitted' \in SUBSET Resolvers
    BY DEF Admitted
  <1>3. provider'.inFlight = Cardinality(Admitted')
    <2>1. provider.inFlight = Cardinality(Admitted)
      BY DEF IInv, CountInv
    <2>2. CASE res[r].pc \in {"idle", "done"} <=> res'[r].pc \in {"idle", "done"}
      <3>1. Admitted' = Admitted
        BY <2>2 DEF Admitted
      <3>. QED
        BY <2>1, <2>2, <3>1
    <2>3. CASE res[r].pc \in {"idle", "done"} /\ res'[r].pc \notin {"idle", "done"}
      <3>1. Admitted' = Admitted \cup {r} /\ r \in Resolvers \ Admitted
        BY <2>3 DEF Admitted
      <3>. QED
        BY <2>1, <2>3, <3>1, <1>2, GuardCounts
    <2>4. CASE res[r].pc \notin {"idle", "done"} /\ res'[r].pc \in {"idle", "done"}
      <3>1. Admitted' = Admitted \ {r} /\ r \in Admitted
        BY <2>4 DEF Admitted
      <3>. QED
        BY <2>1, <2>4, <3>1, <1>2, GuardCounts
    <2>. QED
      BY <2>2, <2>3, <2>4
  <1>4. provider'.inFlight \in 0..Cardinality(Resolvers)
    BY <1>2, <1>3, GuardCounts
  <1>. QED
    BY <1>1, <1>3, <1>4 DEF IInv, CountInv

\* The counter goes up with the resolution that it admits.
LEMMA AskStep ==
    ASSUME IInv, NEW r \in Resolvers, NEW i \in Ids, NEW life \in LifeOf[r], Ask(r, life, i)
    PROVE  IInv'
PROOF
  <1>1. life \in Lifetimes
    BY ScopeAssumption
  <1>2. /\ res \in [Resolvers -> Resolutions] /\ provider \in Providers
        /\ res' = [res EXCEPT ![r] = [res[r] EXCEPT !.pc = "recheck", !.life = life, !.id = i]]
        /\ provider' = [provider EXCEPT !.inFlight = @ + 1]
        /\ res[r].pc = "idle"
    BY DEF IInv, TypeOK, Ask, At
  <1>3. /\ res' \in [Resolvers -> Resolutions]
        /\ res'[r].pc = "recheck" /\ res'[r].life = life /\ res'[r].id = i
        /\ res'[r].gen = res[r].gen /\ res'[r].carried = res[r].carried
        /\ \A q \in Resolvers : q # r => res'[q] = res[q]
    BY <1>1, <1>2 DEF Resolutions, ResSteps
  <1>4. ResolverOnly(r)
    BY <1>2, <1>3 DEF Ask, ResolverOnly, Providers, scopeVars, watchVars, shutVars
  <1>5. provider'.inFlight = provider.inFlight + 1
    BY <1>2 DEF Providers
  <1>6. CountInv' /\ provider'.inFlight \in 0..Cardinality(Resolvers)
    BY <1>2, <1>3, <1>4, <1>5, AdmissionCount DEF ResolverOnly, Guards
  <1>7. provider' \in Providers
    BY <1>2, <1>6 DEF Providers
  <1>8. ResolutionOk(r)'
    BY <1>1, <1>2, <1>3, <1>4 DEF IInv, ResolutionInv, ResolutionOk, ResolverOnly
  <1>. QED
    BY <1>3, <1>4, <1>6, <1>7, <1>8, ResolverKeeps

\* The second check turns away what root disposal may not meet.
LEMMA RecheckStep ==
    ASSUME IInv, NEW r \in Resolvers, Recheck(r) PROVE IInv'
PROOF
  <1>1. /\ res \in [Resolvers -> Resolutions] /\ provider \in Providers
        /\ res[r].pc = "recheck" /\ res[r].id \in Ids /\ res[r].life \in Lifetimes
        /\ res[r].gen = None
    BY DEF IInv, TypeOK, Recheck, At, ResolutionInv, ResolutionOk
  <1>2. PICK pc \in {"create", "lookup", "done"} :
            /\ res' = [res EXCEPT ![r].pc = pc]
            /\ pc # "done" => Allowed(res[r].life, res[r].id) /\ UNCHANGED provider
            /\ pc = "done" => CounterReleased
            /\ pc = "create" <=> res[r].life = "root" /\ pc # "done"
    BY DEF Recheck, ResGoto
  <1>3. /\ res' \in [Resolvers -> Resolutions]
        /\ res'[r].pc = pc /\ res'[r].life = res[r].life /\ res'[r].id = res[r].id
        /\ res'[r].gen = None /\ res'[r].carried = res[r].carried
        /\ \A q \in Resolvers : q # r => res'[q] = res[q]
    BY <1>1, <1>2 DEF Resolutions, ResSteps
  <1>4. /\ provider'.state = provider.state
        /\ pc # "done" => provider'.inFlight = provider.inFlight
        /\ pc = "done" => provider'.inFlight = provider.inFlight - 1
    BY <1>1, <1>2 DEF CounterReleased, Providers
  <1>5. ResolverOnly(r)
    BY <1>3, <1>4 DEF Recheck, ResolverOnly, scopeVars, watchVars, shutVars
  <1>6. CountInv' /\ provider'.inFlight \in 0..Cardinality(Resolvers)
    <2>1. \A g \in Gens : r \in Guards(g)' <=> r \in Guards(g)
      BY <1>1, <1>3, ScopeAssumption DEF Guards
    <2>. QED
      BY <1>1, <1>3, <1>4, <1>5, <2>1, AdmissionCount DEF ResolverOnly
  <1>7. provider' \in Providers
    BY <1>1, <1>2, <1>6 DEF Providers, CounterReleased
  <1>8. ResolutionOk(r)'
    BY <1>1, <1>2, <1>3, <1>5 DEF IInv, ResolutionInv, ResolutionOk, ResolverOnly
  <1>9. provider.state # "Running" /\ ScopesGone => pc = "done"
    BY <1>1, <1>2 DEF Allowed, ScopesGone
  <1>. QED
    BY <1>2, <1>3, <1>5, <1>6, <1>7, <1>8, <1>9, ResolverKeeps

\* A scope found under its ID is open, and its cleanup has promised nothing.
LEMMA LookupStep ==
    ASSUME IInv, NEW r \in Resolvers, Lookup(r) PROVE IInv'
PROOF
  <1>1. /\ res \in [Resolvers -> Resolutions] /\ provider \in Providers
        /\ res[r].pc = "lookup" /\ res[r].id \in Ids /\ res[r].life \in Lifetimes \ {"root"}
        /\ res[r].gen = None /\ fate[r] = "none" /\ res[r].carried = <<>>
    BY DEF IInv, TypeOK, Lookup, At, ResolutionInv, ResolutionOk
  <1>2. PICK g \in Gens \cup {None} : g = scopes[res[r].id]
    BY <1>1 DEF IInv, TypeOK
  <1>3. g # None => g \in Used /\ ctx[g].id = res[r].id
    BY <1>1, <1>2, LiveScopes DEF IInv, MapInv, Live
  <1>4. res' = [res EXCEPT ![r] = [res[r] EXCEPT !.pc = IF g = None THEN "release" ELSE "enter",
                                                 !.gen = g]]
    BY <1>1, <1>2 DEF Lookup
  <1>5. /\ res' \in [Resolvers -> Resolutions]
        /\ res'[r].pc = IF g = None THEN "release" ELSE "enter"
        /\ res'[r].life = res[r].life /\ res'[r].id = res[r].id
        /\ res'[r].gen = g /\ res'[r].carried = res[r].carried
        /\ \A q \in Resolvers : q # r => res'[q] = res[q]
    BY <1>1, <1>4 DEF Resolutions, ResSteps
  <1>6. ResolverOnly(r) /\ UNCHANGED provider
    BY <1>5 DEF Lookup, ResolverOnly, scopeVars, watchVars, shutVars
  <1>7. CountInv'
    BY <1>1, <1>5, <1>6, AdmissionCount DEF ResolverOnly, Guards
  <1>8. ResolutionOk(r)'
    BY <1>1, <1>3, <1>5, <1>6 DEF IInv, ResolutionInv, ResolutionOk, ResolverOnly, Used
  <1>. QED
    BY <1>1, <1>5, <1>6, <1>7, <1>8, ResolverKeeps

\* The counter goes down as the resolution ends.
LEMMA ReleaseStep ==
    ASSUME IInv, NEW r \in Resolvers, Release(r) PROVE IInv'
PROOF
  <1>1. /\ res \in [Resolvers -> Resolutions] /\ provider \in Providers
        /\ res[r].pc = "release" /\ ResolutionOk(r)
        /\ res' = [res EXCEPT ![r].pc = "done"]
    BY DEF IInv, TypeOK, Release, At, ResGoto, ResolutionInv
  <1>2. /\ res' \in [Resolvers -> Resolutions]
        /\ res'[r].pc = "done" /\ res'[r].life = res[r].life /\ res'[r].id = res[r].id
        /\ res'[r].gen = res[r].gen /\ res'[r].carried = res[r].carried
        /\ \A q \in Resolvers : q # r => res'[q] = res[q]
    BY <1>1 DEF Resolutions, ResSteps
  <1>3. provider'.state = provider.state /\ provider'.inFlight = provider.inFlight - 1
    BY <1>1 DEF Release, CounterReleased, Providers
  <1>4. ResolverOnly(r)
    BY <1>2, <1>3 DEF Release, ResolverOnly, scopeVars, watchVars, shutVars
  <1>5. CountInv' /\ provider'.inFlight \in 0..Cardinality(Resolvers)
    BY <1>1, <1>2, <1>3, <1>4, AdmissionCount DEF ResolverOnly, Guards
  <1>6. provider' \in Providers
    BY <1>1, <1>5 DEF Release, Providers, CounterReleased
  <1>7. ResolutionOk(r)'
    BY <1>1, <1>2, <1>4 DEF ResolutionOk, ResolverOnly, Used
  <1>. QED
    BY <1>2, <1>4, <1>5, <1>6, <1>7, ResolverKeeps

-----------------------------------------------------------------------------
(* Resolutions inside a scope                                              *)

\* The generation a resolution is in.
LEMMA GenFacts ==
    ASSUME IInv, NEW q \in Resolvers
    PROVE  /\ res[q].gen \in Gens \cup {None}
           /\ At(q, "handoff") => res[q].gen \in Gens
           /\ At(q, "create") /\ res[q].life = "scoped" => res[q].gen \in Gens
BY DEF IInv, TypeOK, Resolutions, ResolutionInv, ResolutionOk, At

\* A resolution that holds a guard keeps its generation from being drained.
LEMMA GuardHeld ==
    ASSUME IInv, NEW r \in Resolvers, res[r].pc \in {"lock", "create", "leave"},
           res[r].gen # None
    PROVE  LET g == res[r].gen
           IN  /\ g \in Gens /\ r \in Guards(g) /\ ctx[g].inFlight > 0
               /\ ctx[g].state \in {"Open", "Closing"}
               /\ ctx[g].id = res[r].id /\ res[r].id \in Ids
               /\ job[g].pc # "detach" /\ ~job[g].detached
               /\ \A q \in Resolvers : ~(res[q].gen = g /\ At(q, "handoff"))
PROOF
  <1>1. PICK g \in Gens : g = res[r].gen
    BY DEF IInv, TypeOK, Resolutions
  <1>2. r \in Guards(g)
    BY <1>1 DEF Guards
  <1>3. ctx[g].inFlight # 0 /\ ctx[g].inFlight > 0
    BY <1>2, NoGuards DEF IInv
  <1>4. CleanupOk(g) /\ ctx[g].state \in {"Unused", "Open", "Closing", "Closed"} /\ HandoffInv
    BY DEF IInv, CleanupInv, TypeOK, Contexts
  <1>5. ctx[g].state \in {"Open", "Closing"} /\ job[g].pc # "detach" /\ ~job[g].detached
    BY <1>3, <1>4 DEF CleanupOk
  <1>6. \A q \in Resolvers : ~(res[q].gen = g /\ At(q, "handoff"))
    BY <1>4, <1>5 DEF CleanupOk, HandoffInv
  <1>7. ctx[g].id = res[r].id /\ res[r].id \in Ids
    BY <1>1 DEF IInv, ResolutionInv, ResolutionOk
  <1>. QED
    BY <1>1, <1>2, <1>3, <1>5, <1>6, <1>7

\* A step of resolution r inside generation g: it may change the counter, the
\* cache, the ledger and the creation lock of that generation, and the fate of
\* its own instance.
ScopedOnly(r, g) ==
    /\ UNCHANGED <<scopes, closing, accepting, job, owner, observer, provider, roots, shutdown,
                   late>>
    /\ ctx' \in [Gens -> Contexts]
    /\ \A h \in Gens : h # g => ctx'[h] = ctx[h]
    /\ ctx'[g].id = ctx[g].id /\ ctx'[g].state = ctx[g].state
    /\ ctx'[g].handoff = ctx[g].handoff
    /\ res' \in [Resolvers -> Resolutions]
    /\ \A q \in Resolvers : q # r => res'[q] = res[q]
    /\ res'[r].gen = res[r].gen /\ res'[r].id = res[r].id /\ res'[r].life = res[r].life
    /\ res'[r].carried = res[r].carried
    /\ fate' \in [Resolvers -> {"none", "published", "disposed", "forced"}]
    /\ \A q \in Resolvers : q # r => fate'[q] = fate[q]

\* It keeps the invariant if it is counted and keeps the lock and the places.
LEMMA ScopedKeeps ==
    ASSUME IInv, NEW r \in Resolvers, NEW g \in Gens, res[r].gen = g, ScopedOnly(r, g),
           ctx[g].state \in {"Open", "Closing"}, job[g].pc # "detach",
           res[r].pc \notin {"idle", "recheck", "done"}, res'[r].pc # "handoff",
           fate'[r] = fate[r] \/ fate'[r] = "published",
           CountInv', ResolutionOk(r)', LockInv', PlaceInv'
    PROVE  IInv'
PROOF
  <1>. USE DEF ScopedOnly
  <1>1. TypeOK'
    BY DEF IInv, TypeOK
  <1>2. ResolutionInv'
    <2>1. \A h \in Gens : ctx'[h].id = ctx[h].id /\ ctx'[h].state = ctx[h].state
      OBVIOUS
    <2>2. ASSUME NEW q \in Resolvers, q # r PROVE ResolutionOk(q)'
      BY <2>1, <2>2 DEF IInv, ResolutionInv, ResolutionOk, Used
    <2>. QED
      BY <2>2 DEF ResolutionInv
  <1>3. MapInv'
    BY MapFrame DEF IInv
  <1>4. CleanupInv'
    <2>1. HandoffInv'
      BY GenFacts DEF IInv, CleanupInv, HandoffInv, At
    <2>2. CleanupOk(g)'
      BY DEF IInv, CleanupInv, CleanupOk
    <2>3. ASSUME NEW h \in Gens, h # g PROVE CleanupOk(h)'
      BY <2>3, CleanupFrame DEF IInv, CleanupInv, SameTask, SameScope
    <2>. QED
      BY <2>1, <2>2, <2>3 DEF CleanupInv
  <1>5. NormalInv'
    <2>1. CleanupOk(g)
      BY DEF IInv, CleanupInv
    <2>2. job[g].pc \notin {"load", "disposing", "claim"} /\ ~job[g].detached
      BY <2>1 DEF CleanupOk
    <2>. QED
      BY <2>2 DEF IInv, NormalInv, NormalOk, Settled
  <1>6. WatchInv'
    BY WatchFrame DEF IInv
  <1>7. ShutdownInv'
    BY ShutdownFrame DEF IInv, ScopesGone, TasksGone
  <1>. QED
    BY <1>1, <1>2, <1>3, <1>4, <1>5, <1>6, <1>7 DEF IInv

\* How the counter of a generation follows a guard that is taken or given up.
LEMMA GuardCount ==
    ASSUME IInv, NEW r \in Resolvers, NEW g \in Gens, UNCHANGED provider,
           \A q \in Resolvers : q # r => res'[q] = res[q],
           res[r].gen = g, res'[r].gen = g,
           res[r].pc \notin {"idle", "done"}, res'[r].pc \notin {"idle", "done"},
           \A h \in Gens : h # g => ctx'[h].inFlight = ctx[h].inFlight,
           \/ /\ r \notin Guards(g) /\ res'[r].pc \in {"lock", "create", "leave"}
              /\ ctx'[g].inFlight = ctx[g].inFlight + 1
           \/ /\ r \in Guards(g) /\ res'[r].pc \notin {"lock", "create", "leave"}
              /\ ctx'[g].inFlight = ctx[g].inFlight - 1
    PROVE  CountInv' /\ ctx'[g].inFlight \in 0..Cardinality(Resolvers)
PROOF
  <1>1. Admitted' = Admitted
    BY DEF Admitted
  <1>2. ASSUME NEW h \in Gens, h # g PROVE Guards(h)' = Guards(h)
    BY <1>2 DEF Guards
  <1>3. Guards(g) \in SUBSET Resolvers /\ Guards(g)' \in SUBSET Resolvers
    BY DEF Guards
  <1>4. ctx[g].inFlight = Cardinality(Guards(g))
    BY DEF IInv, CountInv
  <1>5. ctx'[g].inFlight = Cardinality(Guards(g)')
    <2>1. CASE r \notin Guards(g) /\ res'[r].pc \in {"lock", "create", "leave"}
      <3>1. Guards(g)' = Guards(g) \cup {r} /\ r \in Resolvers \ Guards(g)
        BY <2>1 DEF Guards
      <3>. QED
        BY <2>1, <3>1, <1>3, <1>4, GuardCounts
    <2>2. CASE r \in Guards(g) /\ res'[r].pc \notin {"lock", "create", "leave"}
      <3>1. Guards(g)' = Guards(g) \ {r}
        BY <2>2 DEF Guards
      <3>. QED
        BY <2>2, <3>1, <1>3, <1>4, GuardCounts
    <2>. QED
      BY <2>1, <2>2
  <1>6. ctx'[g].inFlight \in 0..Cardinality(Resolvers)
    BY <1>3, <1>5, GuardCounts
  <1>. QED
    BY <1>1, <1>2, <1>5, <1>6 DEF IInv, CountInv

\* A guard is given only in an open scope.
LEMMA EnterStep ==
    ASSUME IInv, NEW r \in Resolvers, Enter(r) PROVE IInv'
PROOF
  <1>1. PICK g \in Gens : g = res[r].gen /\ g \in Used
    BY DEF IInv, ResolutionInv, ResolutionOk, Enter, At, Used
  <1>2. /\ res \in [Resolvers -> Resolutions] /\ ctx \in [Gens -> Contexts]
        /\ res[r].pc = "enter" /\ ResolutionOk(r) /\ fate[r] = "none" /\ res[r].carried = <<>>
        /\ res[r].life \in {"scoped", "transient"} /\ res[r].id \in Ids
    BY DEF IInv, TypeOK, Enter, At, ResolutionInv, ResolutionOk, Lifetimes
  <1>3. UNCHANGED <<scopes, closing, accepting, job, owner, observer, fate, provider, roots,
                    shutdown, late>>
    BY DEF Enter, watchVars, shutVars
  <1>4. CASE ctx[g].state = "Open"
    <2>1. PICK pc \in {"create", "leave", "lock"} :
              /\ res' = [res EXCEPT ![r].pc = pc]
              /\ pc = "create" => res[r].life # "scoped"
              /\ pc = "lock" => res[r].life = "scoped"
      BY <1>1, <1>2, <1>4 DEF Enter, ResGoto, AfterEntry
    <2>2. /\ res' \in [Resolvers -> Resolutions]
          /\ res'[r].pc = pc /\ res'[r].life = res[r].life /\ res'[r].id = res[r].id
          /\ res'[r].gen = g /\ res'[r].carried = res[r].carried
          /\ \A q \in Resolvers : q # r => res'[q] = res[q]
      BY <1>1, <1>2, <2>1 DEF Resolutions, ResSteps
    <2>3. ctx' = [ctx EXCEPT ![g] = [ctx[g] EXCEPT !.inFlight = @ + 1]]
      BY <1>1, <1>2, <1>4 DEF Enter
    <2>4. /\ \A h \in Gens : h # g => ctx'[h] = ctx[h]
          /\ ctx'[g] = [ctx[g] EXCEPT !.inFlight = @ + 1]
          /\ ctx[g] \in Contexts
      BY <1>2, <2>3
    <2>5. /\ ctx'[g].inFlight = ctx[g].inFlight + 1
          /\ ctx'[g].id = ctx[g].id /\ ctx'[g].state = ctx[g].state
          /\ ctx'[g].handoff = ctx[g].handoff /\ ctx'[g].ledger = ctx[g].ledger
          /\ ctx'[g].creating = ctx[g].creating /\ ctx'[g].cached = ctx[g].cached
      BY <2>4 DEF Contexts
    <2>6. r \notin Guards(g)
      BY <1>2 DEF Guards
    <2>7. CountInv' /\ ctx'[g].inFlight \in 0..Cardinality(Resolvers)
      BY <1>1, <1>2, <1>3, <2>2, <2>4, <2>5, <2>6, GuardCount
    <2>8. ctx' \in [Gens -> Contexts]
      BY <1>2, <2>3, <2>5, <2>7 DEF Contexts
    <2>9. ScopedOnly(r, g)
      BY <1>1, <1>3, <2>2, <2>4, <2>5, <2>8 DEF ScopedOnly, IInv, TypeOK
    <2>10. ResolutionOk(r)'
      BY <1>1, <1>2, <1>3, <2>1, <2>2, <2>5, ScopeAssumption DEF ResolutionOk, Used
    <2>11. LockInv'
      <3>1. \A h \in Gens : ctx'[h].creating = ctx[h].creating /\ ctx'[h].cached = ctx[h].cached
        BY <2>4, <2>5
      <3>2. \A q \in Resolvers : At(q, "create")' /\ res'[q].life = "scoped" =>
                /\ At(q, "create") /\ res[q].life = "scoped"
                /\ res'[q].gen = res[q].gen /\ res[q].gen \in Gens
        BY <2>1, <2>2, GenFacts DEF At
      <3>. QED
        BY <3>1, <3>2 DEF IInv, LockInv
    <2>12. PlaceInv'
      BY <1>1, <1>3, <2>2, <2>4, <2>5, PlaceFrame DEF IInv, TypeOK, Resolutions
    <2>13. job[g].pc # "detach"
      BY <1>4 DEF IInv, CleanupInv, CleanupOk
    <2>. QED
      BY <1>1, <1>2, <1>3, <1>4, <2>2, <2>7, <2>9, <2>10, <2>11, <2>12, <2>13, ScopedKeeps
  <1>5. CASE ctx[g].state # "Open"
    <2>1. UNCHANGED ctx /\ res' = [res EXCEPT ![r].pc = "release"]
      BY <1>1, <1>5 DEF Enter, ResGoto
    <2>2. /\ res' \in [Resolvers -> Resolutions]
          /\ res'[r].pc = "release" /\ res'[r].life = res[r].life /\ res'[r].id = res[r].id
          /\ res'[r].gen = g /\ res'[r].carried = res[r].carried
          /\ \A q \in Resolvers : q # r => res'[q] = res[q]
      BY <1>1, <1>2, <2>1 DEF Resolutions, ResSteps
    <2>3. ResolverOnly(r) /\ provider' \in Providers
      BY <1>3, <2>1, <2>2 DEF ResolverOnly, IInv, TypeOK
    <2>4. CountInv'
      BY <1>2, <1>3, <2>1, <2>2, AdmissionCount DEF Guards
    <2>5. ResolutionOk(r)'
      BY <1>1, <1>2, <1>3, <2>1, <2>2 DEF ResolutionOk, Used
    <2>. QED
      BY <1>1, <1>2, <2>2, <2>3, <2>4, <2>5, ResolverKeeps
  <1>. QED
    BY <1>4, <1>5

\* Giving back the creation lock.
LEMMA LockGivenBack ==
    ASSUME IInv, NEW r \in Resolvers, NEW g \in Gens,
           \A q \in Resolvers : q # r => res'[q] = res[q],
           \A h \in Gens : h # g => ctx'[h] = ctx[h],
           res'[r].pc # "create",
           ctx'[g].creating = IF ctx[g].creating = r THEN None ELSE ctx[g].creating,
           ctx'[g].cached = ctx[g].cached \/ ctx'[g].creating = None
    PROVE  LockInv'
PROOF
  <1>1. \A q \in Resolvers : At(q, "create")' /\ res'[q].life = "scoped" =>
            /\ q # r /\ At(q, "create") /\ res[q].life = "scoped"
            /\ res'[q].gen = res[q].gen /\ res[q].gen \in Gens
    BY GenFacts DEF At
  <1>2. \A q \in Resolvers : At(q, "create")' /\ res'[q].life = "scoped" =>
            ctx'[res'[q].gen].creating = q
    BY <1>1 DEF IInv, LockInv
  <1>3. \A h \in Gens : ctx'[h].creating # None => ctx'[h].cached = None
    BY DEF IInv, LockInv
  <1>. QED
    BY <1>2, <1>3 DEF LockInv

\* Publishing an instance in the ledger of its generation.
LEMMA PublishPlace ==
    ASSUME IInv, NEW r \in Resolvers, NEW g \in Gens, res[r].gen = g, fate[r] = "none",
           UNCHANGED <<job, roots, shutdown>>,
           fate' = [fate EXCEPT ![r] = "published"],
           \A q \in Resolvers : res'[q].gen = res[q].gen /\ res'[q].carried = res[q].carried,
           \A h \in Gens : h # g => ctx'[h].ledger = ctx[h].ledger,
           ctx'[g].ledger = Append(ctx[g].ledger, r)
    PROVE  PlaceInv' /\ ctx'[g].ledger \in Ledgers
PROOF
  <1>1. ctx[g].ledger \in Ledgers /\ r \notin Range(ctx[g].ledger)
    <2>1. ~InScope(r, g)
      BY DEF IInv, PlaceInv
    <2>. QED
      BY <2>1 DEF InScope, IInv, TypeOK, Contexts
  <1>2. ctx'[g].ledger \in Ledgers /\ Range(ctx'[g].ledger) = Range(ctx[g].ledger) \cup {r}
    BY <1>1, AppendLedger
  <1>3. \A q \in Resolvers : InRoot(q)' <=> InRoot(q)
    BY DEF InRoot
  <1>4. ASSUME NEW q \in Resolvers, NEW h \in Gens
        PROVE  InScope(q, h)' <=> InScope(q, h) \/ (q = r /\ h = g)
    <2>1. (\E p \in Resolvers : res'[p].gen = h /\ q \in Range(res'[p].carried))
          <=> \E p \in Resolvers : res[p].gen = h /\ q \in Range(res[p].carried)
      OBVIOUS
    <2>2. CASE h = g
      BY <1>2, <2>1, <2>2 DEF InScope
    <2>3. CASE h # g
      BY <2>1, <2>3 DEF InScope
    <2>. QED
      BY <2>2, <2>3
  <1>5. /\ fate'[r] = "published"
        /\ \A q \in Resolvers : q # r => fate'[q] = fate[q]
    BY DEF IInv, TypeOK
  <1>6. \A q \in Resolvers : res[q].gen \in Gens \cup {None}
    BY GenFacts
  <1>7. \A q \in Resolvers, h \in Gens :
            InScope(q, h)' => res'[q].gen = h /\ fate'[q] = "published"
    BY <1>4, <1>5 DEF IInv, PlaceInv
  <1>8. \A q \in Resolvers : InRoot(q)' => res'[q].gen = None /\ fate'[q] = "published"
    BY <1>3, <1>5 DEF IInv, PlaceInv
  <1>9. \A q \in Resolvers : fate'[q] = "published" =>
            (IF res[q].gen = None THEN InRoot(q) ELSE InScope(q, res[q].gen))'
    <2>1. InScope(r, g)' /\ res'[r].gen = g /\ g # None
      BY <1>4, ScopeAssumption
    <2>2. ASSUME NEW q \in Resolvers, q # r, fate'[q] = "published"
          PROVE  (IF res[q].gen = None THEN InRoot(q) ELSE InScope(q, res[q].gen))'
      <3>1. IF res[q].gen = None THEN InRoot(q) ELSE InScope(q, res[q].gen)
        BY <2>2, <1>5 DEF IInv, PlaceInv
      <3>2. CASE res[q].gen = None
        BY <3>1, <3>2, <1>3
      <3>3. CASE res[q].gen # None
        <4>1. PICK h \in Gens : h = res[q].gen /\ h = res'[q].gen
          BY <3>3, <1>6
        <4>2. InScope(q, h)'
          BY <3>1, <3>3, <4>1, <1>4
        <4>. QED
          BY <3>3, <4>1, <4>2 DEF InScope
      <3>. QED
        BY <3>2, <3>3
    <2>3. (IF res[r].gen = None THEN InRoot(r) ELSE InScope(r, res[r].gen))'
      BY <2>1 DEF InScope
    <2>. QED
      BY <2>2, <2>3
  <1>. QED
    BY <1>2, <1>7, <1>8, <1>9 DEF IInv, PlaceInv

\* The creation lock is taken once, and only while nothing is cached.
LEMMA LockStep ==
    ASSUME IInv, NEW r \in Resolvers, Lock(r) PROVE IInv'
PROOF
  <1>1. /\ res[r].pc = "lock" /\ res[r].gen # None /\ ResolutionOk(r)
        /\ res \in [Resolvers -> Resolutions] /\ ctx \in [Gens -> Contexts]
    BY DEF IInv, TypeOK, Lock, At, ResolutionInv, ResolutionOk
  <1>2. PICK g \in Gens : /\ g = res[r].gen /\ g \in Used /\ r \in Guards(g)
                          /\ ctx[g].state \in {"Open", "Closing"} /\ job[g].pc # "detach"
    BY <1>1, GuardHeld DEF ResolutionOk
  <1>3. UNCHANGED <<scopes, closing, accepting, job, owner, observer, fate, provider, roots,
                    shutdown, late>>
    BY DEF Lock, watchVars, shutVars
  <1>4. PICK pc \in {"leave", "create"} :
            /\ res' = [res EXCEPT ![r].pc = pc]
            /\ ctx[g].creating = None
            /\ pc = "leave" => UNCHANGED ctx
            /\ pc = "create" => ctx[g].cached = None /\ ctx' = [ctx EXCEPT ![g].creating = r]
    BY <1>2 DEF Lock, ResGoto
  <1>5. /\ res' \in [Resolvers -> Resolutions]
        /\ res'[r].pc = pc /\ res'[r].life = res[r].life /\ res'[r].id = res[r].id
        /\ res'[r].gen = g /\ res'[r].carried = res[r].carried
        /\ \A q \in Resolvers : q # r => res'[q] = res[q]
    BY <1>1, <1>2, <1>4 DEF Resolutions, ResSteps
  <1>6. /\ ctx' \in [Gens -> Contexts]
        /\ \A h \in Gens : h # g => ctx'[h] = ctx[h]
        /\ ctx'[g].id = ctx[g].id /\ ctx'[g].state = ctx[g].state
        /\ ctx'[g].handoff = ctx[g].handoff /\ ctx'[g].ledger = ctx[g].ledger
        /\ ctx'[g].inFlight = ctx[g].inFlight /\ ctx'[g].cached = ctx[g].cached
        /\ ctx'[g].creating = IF pc = "create" THEN r ELSE ctx[g].creating
    BY <1>1, <1>4 DEF Contexts
  <1>7. ScopedOnly(r, g)
    BY <1>2, <1>3, <1>5, <1>6 DEF ScopedOnly, IInv, TypeOK
  <1>8. CountInv'
    <2>1. \A h \in Gens : r \in Guards(h)' <=> r \in Guards(h)
      BY <1>1, <1>2, <1>5 DEF Guards
    <2>. QED
      BY <1>1, <1>3, <1>5, <1>6, <2>1, AdmissionCount
  <1>9. ResolutionOk(r)'
    BY <1>1, <1>2, <1>3, <1>5, <1>6, ScopeAssumption DEF ResolutionOk, Used
  <1>10. LockInv'
    <2>1. ASSUME NEW q \in Resolvers, q # r, At(q, "create")', res'[q].life = "scoped"
          PROVE  ctx'[res'[q].gen].creating = q
      <3>1. At(q, "create") /\ res'[q] = res[q] /\ res[q].gen \in Gens
        BY <2>1, <1>5, GenFacts DEF At
      <3>2. ctx[res[q].gen].creating = q
        BY <3>1, <2>1 DEF IInv, LockInv
      <3>3. res[q].gen # g
        BY <3>2, <1>4, ScopeAssumption
      <3>. QED
        BY <3>1, <3>2, <3>3, <1>6
    <2>2. At(r, "create")' => ctx'[res'[r].gen].creating = r
      BY <1>5, <1>6 DEF At
    <2>3. \A h \in Gens : ctx'[h].creating # None => ctx'[h].cached = None
      BY <1>4, <1>6 DEF IInv, LockInv
    <2>. QED
      BY <2>1, <2>2, <2>3 DEF LockInv
  <1>11. PlaceInv'
    BY <1>2, <1>3, <1>5, <1>6, GenFacts, PlaceFrame DEF IInv
  <1>. QED
    BY <1>1, <1>2, <1>3, <1>5, <1>7, <1>8, <1>9, <1>10, <1>11, ScopedKeeps

\* A factory in a scope ends: its resolution goes on to give up the guard, the
\* lock is free, and an instance that was made is in the ledger.
LEMMA FactoryKeeps ==
    ASSUME IInv, NEW r \in Resolvers, NEW g \in Gens, res[r].gen = g,
           res[r].pc \in {"lock", "create"}, res' = [res EXCEPT ![r].pc = "leave"],
           UNCHANGED <<scopes, closing, accepting, job, owner, observer, provider, roots,
                       shutdown, late>>,
           NEW c \in Resolvers \cup {None}, NEW l,
           ctx' = [ctx EXCEPT ![g] = [ctx[g] EXCEPT !.cached = c, !.ledger = l,
                                                    !.creating = IF @ = r THEN None ELSE @]],
           c = ctx[g].cached \/ ctx[g].creating = r,
           \/ UNCHANGED fate /\ l = ctx[g].ledger
           \/ fate' = [fate EXCEPT ![r] = "published"] /\ l = Append(ctx[g].ledger, r)
    PROVE  IInv'
PROOF
  <1>1. /\ ResolutionOk(r) /\ fate[r] = "none" /\ g # None
        /\ res \in [Resolvers -> Resolutions] /\ ctx \in [Gens -> Contexts]
    BY ScopeAssumption DEF IInv, TypeOK, ResolutionInv, ResolutionOk
  <1>2. r \in Guards(g) /\ ctx[g].state \in {"Open", "Closing"} /\ job[g].pc # "detach"
    BY <1>1, GuardHeld
  <1>3. /\ res' \in [Resolvers -> Resolutions]
        /\ res'[r].pc = "leave" /\ res'[r].life = res[r].life /\ res'[r].id = res[r].id
        /\ res'[r].gen = g /\ res'[r].carried = res[r].carried
        /\ \A q \in Resolvers : q # r => res'[q] = res[q]
    BY <1>1 DEF Resolutions, ResSteps
  <1>4. /\ \A h \in Gens : h # g => ctx'[h] = ctx[h]
        /\ ctx'[g].id = ctx[g].id /\ ctx'[g].state = ctx[g].state
        /\ ctx'[g].handoff = ctx[g].handoff /\ ctx'[g].inFlight = ctx[g].inFlight
        /\ ctx'[g].creating = IF ctx[g].creating = r THEN None ELSE ctx[g].creating
        /\ ctx'[g].cached = c /\ ctx'[g].ledger = l
    BY <1>1 DEF Contexts
  <1>11. ASSUME l \in Ledgers PROVE ctx' \in [Gens -> Contexts]
    <2>1. PICK by \in Resolvers \cup {None} : by = IF ctx[g].creating = r THEN None
                                                   ELSE ctx[g].creating
      BY <1>1 DEF Contexts
    <2>2. ctx' = [ctx EXCEPT ![g] = [ctx[g] EXCEPT !.cached = c, !.ledger = l, !.creating = by]]
      BY <1>1, <2>1
    <2>3. [ctx[g] EXCEPT !.cached = c, !.ledger = l, !.creating = by] \in Contexts
      <3>1. ctx[g] \in Contexts
        BY <1>1
      <3>. QED
        BY <3>1, <1>11 DEF Contexts
    <2>. QED
      BY <2>2, <2>3, <1>1
  <1>5. PlaceInv' /\ ctx' \in [Gens -> Contexts]
    <2>1. CASE UNCHANGED fate /\ l = ctx[g].ledger
      <3>1. l \in Ledgers
        BY <1>1, <2>1 DEF Contexts
      <3>2. \A h \in Gens : ctx'[h].ledger = ctx[h].ledger /\ job'[h].held = job[h].held
        BY <2>1, <1>4
      <3>3. PlaceInv'
        BY <2>1, <3>2, <1>3, GenFacts, PlaceFrame DEF IInv
      <3>. QED
        BY <3>1, <3>3, <1>11
    <2>2. CASE fate' = [fate EXCEPT ![r] = "published"] /\ l = Append(ctx[g].ledger, r)
      <3>1. \A q \in Resolvers : res'[q].gen = res[q].gen /\ res'[q].carried = res[q].carried
        BY <1>3
      <3>2. PlaceInv' /\ l \in Ledgers
        <4>1. UNCHANGED <<job, roots, shutdown>>
          OBVIOUS
        <4>2. \A h \in Gens : h # g => ctx'[h].ledger = ctx[h].ledger
          BY <1>4
        <4>3. PlaceInv' /\ ctx'[g].ledger \in Ledgers
          <5>1. ctx'[g].ledger = Append(ctx[g].ledger, r) /\ fate[r] = "none"
            BY <2>2, <1>1, <1>4
          <5>. QED
            BY ONLY IInv, r \in Resolvers, g \in Gens, res[r].gen = g, <2>2, <3>1, <4>1, <4>2,
                    <5>1, PublishPlace
        <4>. QED
          BY <4>3, <1>4
      <3>. QED
        BY <3>2, <1>11
    <2>. QED
      BY <2>1, <2>2
  <1>6. /\ fate' \in [Resolvers -> {"none", "published", "disposed", "forced"}]
        /\ \A q \in Resolvers : q # r => fate'[q] = fate[q]
        /\ fate'[r] = fate[r] \/ fate'[r] = "published"
    BY DEF IInv, TypeOK
  <1>7. ScopedOnly(r, g)
    BY <1>3, <1>4, <1>5, <1>6 DEF ScopedOnly
  <1>8. CountInv'
    <2>1. \A h \in Gens : r \in Guards(h)' <=> r \in Guards(h)
      BY <1>2, <1>3 DEF Guards
    <2>. QED
      BY <1>3, <1>4, <2>1, AdmissionCount
  <1>9. ResolutionOk(r)'
    BY <1>1, <1>3, <1>4 DEF ResolutionOk, Used
  <1>10. LockInv'
    BY <1>3, <1>4, LockGivenBack
  <1>. QED
    BY <1>2, <1>3, <1>5, <1>6, <1>7, <1>8, <1>9, <1>10, ScopedKeeps

\* A root service is made in no scope: what it made is in the root's ledger when
\* its resolution ends, or has been disposed of by it.
LEMMA RootFactoryKeeps ==
    ASSUME IInv, NEW r \in Resolvers, res[r].pc \in {"create", "overtaken"},
           res[r].life = "root",
           NEW pc \in {"release", "overtaken"}, res' = [res EXCEPT ![r].pc = pc],
           UNCHANGED <<scopes, closing, accepting, ctx, job, owner, observer, provider,
                       shutdown, late>>,
           NEW f \in {"none", "published", "disposed", "forced"},
           fate' = [fate EXCEPT ![r] = f], pc = "overtaken" => f = "none",
           IF f = "published" THEN roots' = [roots EXCEPT !.ledger = Append(@, r)]
                              ELSE UNCHANGED roots
    PROVE  IInv'
PROOF
  <1>1. /\ ResolutionOk(r) /\ fate[r] = "none" /\ res[r].gen = None
        /\ res \in [Resolvers -> Resolutions] /\ ctx \in [Gens -> Contexts]
        /\ roots \in [ledger : Ledgers, held : Ledgers]
        /\ fate \in [Resolvers -> {"none", "published", "disposed", "forced"}]
    BY DEF IInv, TypeOK, ResolutionInv, ResolutionOk
  <1>2. /\ res' \in [Resolvers -> Resolutions]
        /\ res'[r].pc = pc /\ res'[r].life = res[r].life /\ res'[r].id = res[r].id
        /\ res'[r].gen = None /\ res'[r].carried = res[r].carried
        /\ \A q \in Resolvers : q # r => res'[q] = res[q]
    BY <1>1 DEF Resolutions, ResSteps
  <1>3. /\ fate'[r] = f
        /\ \A q \in Resolvers : q # r => fate'[q] = fate[q]
        /\ fate' \in [Resolvers -> {"none", "published", "disposed", "forced"}]
    BY <1>1
  <1>4. shutdown # "disposing"
    BY DEF IInv, ShutdownInv
  <1>5. /\ roots' \in [ledger : Ledgers, held : Ledgers] /\ roots'.held = roots.held
        /\ \A q \in Resolvers : InRoot(q)' <=> InRoot(q) \/ (q = r /\ f = "published")
    <2>1. r \notin Range(roots.ledger)
      BY <1>1 DEF IInv, PlaceInv, InRoot
    <2>2. CASE f = "published"
      <3>1. /\ Append(roots.ledger, r) \in Ledgers
            /\ Range(Append(roots.ledger, r)) = Range(roots.ledger) \cup {r}
        BY <1>1, <2>1, AppendLedger
      <3>2. roots'.ledger = Append(roots.ledger, r) /\ roots'.held = roots.held
        BY <1>1, <2>2
      <3>3. roots' \in [ledger : Ledgers, held : Ledgers]
        BY <1>1, <2>2, <3>1
      <3>. QED
        BY <2>2, <3>1, <3>2, <3>3 DEF InRoot
    <2>3. CASE f # "published"
      BY <1>1, <2>3 DEF InRoot
    <2>. QED
      BY <2>2, <2>3
  <1>6. TypeOK'
    BY <1>2, <1>3, <1>5 DEF IInv, TypeOK
  <1>7. CountInv'
    <2>1. \A h \in Gens : r \in Guards(h)' <=> r \in Guards(h)
      BY <1>1, <1>2, ScopeAssumption DEF Guards
    <2>. QED
      BY <1>2, <2>1, AdmissionCount
  <1>8. ResolutionInv'
    <2>1. ResolutionOk(r)'
      BY <1>1, <1>2, <1>3 DEF ResolutionOk
    <2>2. ASSUME NEW q \in Resolvers, q # r PROVE ResolutionOk(q)'
      BY <2>2, <1>2, <1>3 DEF IInv, ResolutionInv, ResolutionOk, Used
    <2>. QED
      BY <2>1, <2>2 DEF ResolutionInv
  <1>9. MapInv'
    BY MapFrame DEF IInv
  <1>10. CleanupInv'
    <2>1. HandoffInv'
      BY <1>2, GenFacts DEF IInv, CleanupInv, HandoffInv, At
    <2>2. ASSUME NEW g \in Gens PROVE CleanupOk(g)'
      BY CleanupFrame DEF IInv, CleanupInv, SameTask, SameScope
    <2>. QED
      BY <2>1, <2>2 DEF CleanupInv
  <1>11. LockInv'
    BY <1>2 DEF IInv, LockInv, At
  <1>12. PlaceInv'
    <2>1. \A q \in Resolvers, g \in Gens : InScope(q, g)' <=> InScope(q, g)
      <3>1. \A q \in Resolvers : res'[q].gen = res[q].gen /\ res'[q].carried = res[q].carried
        BY <1>1, <1>2
      <3>. QED
        BY <3>1 DEF InScope
    <2>2. \A q \in Resolvers, g \in Gens :
              InScope(q, g)' => res'[q].gen = g /\ fate'[q] = "published"
      BY <1>1, <1>2, <1>3, <2>1 DEF IInv, PlaceInv
    <2>3. \A q \in Resolvers : InRoot(q)' => res'[q].gen = None /\ fate'[q] = "published"
      BY <1>1, <1>2, <1>3, <1>5 DEF IInv, PlaceInv
    <2>4. ASSUME NEW q \in Resolvers, fate'[q] = "published"
          PROVE  (IF res[q].gen = None THEN InRoot(q) ELSE InScope(q, res[q].gen))'
      <3>1. CASE q = r
        BY <3>1, <2>4, <1>2, <1>3, <1>5 DEF InRoot
      <3>2. CASE q # r
        <4>1. res'[q] = res[q] /\ fate[q] = "published" /\ res[q].gen \in Gens \cup {None}
          BY <3>2, <2>4, <1>2, <1>3, GenFacts
        <4>2. IF res[q].gen = None THEN InRoot(q) ELSE InScope(q, res[q].gen)
          BY <4>1 DEF IInv, PlaceInv
        <4>3. CASE res[q].gen = None
          BY <4>1, <4>2, <4>3, <1>5 DEF InRoot
        <4>4. CASE res[q].gen # None
          <5>1. PICK h \in Gens : h = res[q].gen
            BY <4>1, <4>4
          <5>2. InScope(q, h)'
            BY <4>2, <4>4, <5>1, <2>1
          <5>. QED
            BY <4>1, <4>4, <5>1, <5>2 DEF InScope
        <4>. QED
          BY <4>3, <4>4
      <3>. QED
        BY <3>1, <3>2
    <2>. QED
      BY <1>4, <1>5, <2>2, <2>3, <2>4 DEF IInv, PlaceInv
  <1>13. NormalInv'
    BY <1>1, <1>2, <1>3, ScopeAssumption DEF IInv, NormalInv, NormalOk, Settled
  <1>14. WatchInv'
    BY WatchFrame DEF IInv
  <1>15. ShutdownInv'
    <2>1. \A q \in Resolvers : res[q].pc \in {"idle", "recheck", "done"} =>
              res'[q].pc \in {"idle", "recheck", "done"}
      BY <1>2
    <2>. QED
      BY <2>1, ShutdownFrame DEF IInv, ScopesGone, TasksGone
  <1>. QED
    BY <1>6, <1>7, <1>8, <1>9, <1>10, <1>11, <1>12, <1>13, <1>14, <1>15 DEF IInv

\* A root instance is owned by the root, or by its resolution when shutdown has
\* overtaken it.
LEMMA PublishRootStep ==
    ASSUME IInv, NEW r \in Resolvers, PublishRoot(r) PROVE IInv'
PROOF
  <1>1. /\ res[r].pc = "create" /\ res[r].life = "root"
        /\ fate = [fate EXCEPT ![r] = "none"]
        /\ UNCHANGED <<scopes, closing, accepting, ctx, job, owner, observer, provider,
                       shutdown, late>>
    BY DEF PublishRoot, At, scopeVars, watchVars, shutVars, IInv, TypeOK,
           ResolutionInv, ResolutionOk
  <1>2. CASE provider.state = "Running"
    <2>1. /\ res' = [res EXCEPT ![r].pc = "release"]
          /\ fate' = [fate EXCEPT ![r] = "published"]
          /\ roots' = [roots EXCEPT !.ledger = Append(@, r)]
      BY <1>2 DEF PublishRoot, ResGoto
    <2>. QED
      BY <1>1, <2>1, RootFactoryKeeps
  <1>3. CASE provider.state # "Running"
    <2>1. /\ res' = [res EXCEPT ![r].pc = "overtaken"]
          /\ fate' = [fate EXCEPT ![r] = "none"] /\ UNCHANGED roots
      BY <1>1, <1>3 DEF PublishRoot, ResGoto
    <2>. QED
      BY <1>1, <2>1, RootFactoryKeeps
  <1>. QED
    BY <1>2, <1>3

\* The resolution ends with the disposer of its overtaken instance.
LEMMA DisposeOvertakenStep ==
    ASSUME IInv, NEW r \in Resolvers, DisposeOvertaken(r) PROVE IInv'
PROOF
  <1>1. /\ res[r].pc = "overtaken" /\ res[r].life = "root"
        /\ res' = [res EXCEPT ![r].pc = "release"]
        /\ UNCHANGED <<scopes, closing, accepting, ctx, job, owner, observer, provider,
                       roots, shutdown, late>>
    BY DEF DisposeOvertaken, At, ResGoto, scopeVars, watchVars, shutVars, IInv,
           ResolutionInv, ResolutionOk
  <1>2. PICK f \in {"disposed", "forced"} : fate' = [fate EXCEPT ![r] = f]
    BY DEF DisposeOvertaken
  <1>. QED
    BY <1>1, <1>2, RootFactoryKeeps

\* A resolution that waits for the lock or runs its factory in a scope.
LEMMA FactoryFacts ==
    ASSUME IInv, NEW r \in Resolvers, res[r].pc \in {"lock", "create"}, res[r].life # "root"
    PROVE  /\ res[r].gen \in Gens /\ res[r].life \in {"scoped", "transient"}
           /\ ctx[res[r].gen] \in Contexts
BY DEF IInv, TypeOK, Resolutions, ResolutionInv, ResolutionOk, Lifetimes

\* A factory that fails publishes nothing and gives its lock back.
LEMMA ResolutionFailsStep ==
    ASSUME IInv, NEW r \in Resolvers, ResolutionFails(r) PROVE IInv'
PROOF
  <1>1. /\ res[r].pc \in {"lock", "create"}
        /\ UNCHANGED <<scopes, closing, accepting, job, owner, observer, provider, roots,
                       shutdown, late>>
        /\ UNCHANGED fate
    BY DEF ResolutionFails, At, watchVars, shutVars
  <1>2. CASE res[r].life = "root"
    <2>1. res[r].pc = "create" /\ res' = [res EXCEPT ![r].pc = "release"] /\ UNCHANGED ctx
      BY <1>1, <1>2
         DEF ResolutionFails, ResGoto, AfterFactory, UnlockedBy, IInv, ResolutionInv, ResolutionOk
    <2>2. fate' = [fate EXCEPT ![r] = "none"]
      BY <1>1 DEF IInv, TypeOK, ResolutionInv, ResolutionOk
    <2>. QED
      BY <1>1, <1>2, <2>1, <2>2, RootFactoryKeeps
  <1>3. CASE res[r].life # "root"
    <2>1. PICK g \in Gens : g = res[r].gen /\ ctx[g] \in Contexts
      BY <1>1, <1>3, FactoryFacts
    <2>2. PICK c \in Resolvers \cup {None} : c = ctx[g].cached
      BY <2>1 DEF Contexts
    <2>3. PICK l : l = ctx[g].ledger
      OBVIOUS
    <2>4. res' = [res EXCEPT ![r].pc = "leave"]
      BY <1>3 DEF ResolutionFails, ResGoto, AfterFactory
    <2>5. ctx' = [ctx EXCEPT ![g] = [ctx[g] EXCEPT !.creating = IF @ = r THEN None ELSE @]]
      BY <1>3, <2>1 DEF ResolutionFails, UnlockedBy, Unlocked, IInv, TypeOK
    <2>6. [ctx[g] EXCEPT !.creating = IF @ = r THEN None ELSE @]
          = [ctx[g] EXCEPT !.cached = c, !.ledger = l, !.creating = IF @ = r THEN None ELSE @]
      BY <2>1, <2>2, <2>3 DEF Contexts
    <2>7. ctx' = [ctx EXCEPT ![g] = [ctx[g] EXCEPT !.cached = c, !.ledger = l,
                                                   !.creating = IF @ = r THEN None ELSE @]]
      BY <2>5, <2>6
    <2>. QED
      BY <1>1, <2>1, <2>2, <2>3, <2>4, <2>7, FactoryKeeps
  <1>. QED
    BY <1>2, <1>3

\* Who makes a scoped service finds nothing cached, so the ledger grows.
LEMMA PublishScopedStep ==
    ASSUME IInv, NEW r \in Resolvers, PublishScoped(r) PROVE IInv'
PROOF
  <1>1. /\ res[r].pc = "create" /\ res[r].life # "root"
        /\ res' = [res EXCEPT ![r].pc = "leave"]
        /\ fate' = [fate EXCEPT ![r] = "published"]
        /\ UNCHANGED <<scopes, closing, accepting, job, owner, observer, provider, roots,
                       shutdown, late>>
    BY DEF PublishScoped, At, ResGoto, watchVars, shutVars
  <1>2. PICK g \in Gens : g = res[r].gen /\ ctx[g] \in Contexts
    BY <1>1, FactoryFacts
  <1>3. PICK l : l = Append(ctx[g].ledger, r)
    OBVIOUS
  <1>4. PICK c \in Resolvers \cup {None} : c = IF res[r].life = "scoped" THEN r ELSE ctx[g].cached
    BY <1>2 DEF Contexts
  <1>5. res[r].life = "scoped" => ctx[g].creating = r /\ ctx[g].cached = None
    BY <1>1, <1>2, ScopeAssumption DEF IInv, LockInv, At
  <1>6. ctx' = [ctx EXCEPT ![g] = [ctx[g] EXCEPT !.cached = c, !.ledger = l,
                                                 !.creating = IF @ = r THEN None ELSE @]]
    <2>1. CASE res[r].life = "scoped"
      BY <1>2, <1>3, <1>4, <1>5, <2>1 DEF PublishScoped, CacheAny, Unlocked, IInv, TypeOK, Contexts
    <2>2. CASE res[r].life # "scoped"
      <3>1. ctx' = [ctx EXCEPT ![g] = [[ctx[g] EXCEPT !.ledger = l]
                                           EXCEPT !.creating = IF @ = r THEN None ELSE @]]
        BY <1>2, <1>3, <2>2 DEF PublishScoped, TrackTransient, Unlocked, IInv, TypeOK, Contexts
      <3>2. [[ctx[g] EXCEPT !.ledger = l] EXCEPT !.creating = IF @ = r THEN None ELSE @]
            = [ctx[g] EXCEPT !.cached = c, !.ledger = l, !.creating = IF @ = r THEN None ELSE @]
        BY <1>2, <1>4, <2>2 DEF Contexts
      <3>. QED
        BY <3>1, <3>2
    <2>. QED
      BY <2>1, <2>2
  <1>. QED
    BY <1>1, <1>2, <1>3, <1>4, <1>5, <1>6, FactoryKeeps

\* A resolution with a guard keeps its generation registered under its ID, so
\* an initialization that is cancelled finds its own scope.
LEMMA RegistrationIsOwn ==
    ASSUME IInv, NEW r \in Resolvers, res[r].pc = "create", res[r].life # "root"
    PROVE  RegistrationScope(res[r].id) = res[r].gen
PROOF
  <1>1. PICK g \in Gens : g = res[r].gen /\ g # None
    BY FactoryFacts, ScopeAssumption
  <1>2. ctx[g].state \in {"Open", "Closing"} /\ ctx[g].id = res[r].id /\ res[r].id \in Ids
    BY <1>1, GuardHeld
  <1>3. CASE ctx[g].state = "Open"
    BY <1>1, <1>2, <1>3 DEF IInv, MapInv, RegistrationScope
  <1>4. CASE ctx[g].state = "Closing"
    <2>1. job[g].control
      BY <1>4 DEF IInv, CleanupInv, CleanupOk
    <2>2. closing[res[r].id] = g
      BY <1>1, <1>2, <2>1 DEF IInv, MapInv
    <2>3. scopes[res[r].id] = None
      BY <1>1, <1>2, <2>2 DEF IInv, MapInv
    <2>. QED
      BY <1>1, <2>2, <2>3 DEF RegistrationScope
  <1>. QED
    BY <1>2, <1>3, <1>4

\* A half-made value finds its own generation under its ID: the guard it holds
\* keeps the ID from being used again.
LEMMA InitializationCancelledStep ==
    ASSUME IInv, NEW r \in Resolvers, InitializationCancelled(r) PROVE IInv'
PROOF
  <1>1. /\ res[r].pc = "create"
        /\ fate' = [fate EXCEPT ![r] = "published"]
        /\ UNCHANGED <<scopes, closing, accepting, job, owner, observer, provider,
                       shutdown, late>>
    BY DEF InitializationCancelled, At, watchVars, shutVars
  <1>2. CASE res[r].life = "root"
    BY <1>1, <1>2, RootFactoryKeeps
       DEF InitializationCancelled, ResGoto, AfterFactory, UnlockedBy
  <1>3. CASE res[r].life # "root"
    <2>1. PICK g \in Gens : g = res[r].gen /\ ctx[g] \in Contexts /\ g # None
      BY <1>1, <1>3, FactoryFacts, ScopeAssumption
    <2>2. RegistrationScope(res[r].id) = g
      BY <1>1, <1>3, <2>1, RegistrationIsOwn
    <2>3. PICK c \in Resolvers \cup {None} : c = ctx[g].cached
      BY <2>1 DEF Contexts
    <2>4. PICK l : l = Append(ctx[g].ledger, r)
      OBVIOUS
    <2>5. res' = [res EXCEPT ![r].pc = "leave"] /\ UNCHANGED roots
      BY <1>3, <2>1, <2>2 DEF InitializationCancelled, ResGoto, AfterFactory
    <2>6. ctx' = [[ctx EXCEPT ![g] = Unlocked(r, @)] EXCEPT ![g].ledger = Append(@, r)]
      BY <1>3, <2>1, <2>2 DEF InitializationCancelled, UnlockedBy
    <2>7. ctx' = [ctx EXCEPT ![g] = [ctx[g] EXCEPT !.cached = c, !.ledger = l,
                                                   !.creating = IF @ = r THEN None ELSE @]]
      BY <2>1, <2>3, <2>4, <2>6 DEF Unlocked, IInv, TypeOK, Contexts
    <2>. QED
      BY <1>1, <2>1, <2>3, <2>4, <2>5, <2>7, FactoryKeeps
  <1>. QED
    BY <1>2, <1>3

\* Every instance of G, all of generation g, meets its end and is in no place
\* any more.
LEMMA PlaceGone ==
    ASSUME IInv, NEW G \in SUBSET Resolvers, NEW g \in Gens, \A q \in G : res[q].gen = g,
           \A q \in G : fate'[q] \in {"disposed", "forced"},
           \A q \in Resolvers : q \notin G => fate'[q] = fate[q],
           \A q \in Resolvers : res'[q].gen = res[q].gen,
           UNCHANGED <<roots, shutdown>>,
           \A q \in Resolvers, h \in Gens : InScope(q, h)' <=> InScope(q, h) /\ q \notin G
    PROVE  PlaceInv'
PROOF
  <1>1. g # None
    BY ScopeAssumption
  <1>2. \A q \in Resolvers : InRoot(q)' <=> InRoot(q)
    BY DEF InRoot
  <1>3. \A q \in Resolvers, h \in Gens :
            InScope(q, h)' => res'[q].gen = h /\ fate'[q] = "published"
    BY DEF IInv, PlaceInv
  <1>4. \A q \in Resolvers : InRoot(q)' => res'[q].gen = None /\ fate'[q] = "published"
    BY <1>1, <1>2 DEF IInv, PlaceInv
  <1>5. ASSUME NEW q \in Resolvers, fate'[q] = "published"
        PROVE  (IF res[q].gen = None THEN InRoot(q) ELSE InScope(q, res[q].gen))'
    <2>1. q \notin G /\ fate[q] = "published" /\ res'[q].gen = res[q].gen
      BY <1>5
    <2>2. IF res[q].gen = None THEN InRoot(q) ELSE InScope(q, res[q].gen)
      BY <2>1 DEF IInv, PlaceInv
    <2>3. CASE res[q].gen = None
      BY <2>1, <2>2, <2>3, <1>2
    <2>4. CASE res[q].gen # None
      <3>1. PICK h \in Gens : h = res[q].gen
        BY <2>4, GenFacts
      <3>2. InScope(q, h)'
        BY <2>1, <2>2, <2>4, <3>1
      <3>. QED
        BY <2>1, <2>4, <3>1, <3>2 DEF InScope
    <2>. QED
      BY <2>3, <2>4
  <1>. QED
    BY <1>3, <1>4, <1>5 DEF IInv, PlaceInv

\* A registration that ends frees the ID and its control together.
LEMMA UnregisterMap ==
    ASSUME IInv, NEW g \in Gens, Unregister(g), UNCHANGED scopes,
           \A h \in Gens : /\ ctx'[h].id = ctx[h].id
                           /\ ctx'[h].state = "Open" <=> ctx[h].state = "Open"
                           /\ ctx'[h].state = "Unused" <=> ctx[h].state = "Unused"
                           /\ h # g => job'[h].control = job[h].control,
           ~job'[g].control
    PROVE  /\ MapInv' /\ closing' \in [Ids -> Gens \cup {None}]
           /\ \A i \in Ids : closing[i] = None => closing'[i] = None
PROOF
  <1>1. /\ g \in Used /\ ctx[g].id \in Ids /\ closing \in [Ids -> Gens \cup {None}]
        /\ closing' = [closing EXCEPT ![ctx[g].id] = None]
    BY DEF IInv, MapInv, TypeOK, Unregister
  <1>2. /\ closing' \in [Ids -> Gens \cup {None}] /\ closing'[ctx[g].id] = None
        /\ \A i \in Ids : i # ctx[g].id => closing'[i] = closing[i]
    BY <1>1
  <1>3. Used' = Used
    BY DEF Used
  <1>4. \A i \in Ids : closing'[i] # None =>
            /\ closing'[i] = closing[i] /\ closing[i] \in Gens /\ closing[i] # g
            /\ job[closing[i]].control /\ ctx[closing[i]].id = i
    BY <1>1, <1>2 DEF IInv, MapInv
  <1>5. \A i \in Ids : closing'[i] # None => job'[closing'[i]].control /\ ctx'[closing'[i]].id = i
    BY <1>4
  <1>6. \A h \in Gens : job'[h].control => h \in Used' /\ closing'[ctx'[h].id] = h
    <2>1. ASSUME NEW h \in Gens, job'[h].control
          PROVE  h \in Used /\ closing'[ctx[h].id] = h
      <3>1. h # g /\ job[h].control
        BY <2>1
      <3>2. h \in Used /\ closing[ctx[h].id] = h /\ ctx[h].id \in Ids
        BY <3>1 DEF IInv, MapInv
      <3>3. ctx[h].id # ctx[g].id
        BY <3>1, <3>2 DEF Unregister
      <3>. QED
        BY <3>2, <3>3, <1>2
    <2>. QED
      BY <2>1, <1>3
  <1>7. \A i \in Ids : scopes[i] # None => scopes[i] \in Gens
    BY DEF IInv, TypeOK
  <1>8. \A i \in Ids : scopes[i] # None =>
            ctx'[scopes[i]].state = "Open" /\ ctx'[scopes[i]].id = i /\ closing'[i] = None
    BY <1>2, <1>7 DEF IInv, MapInv
  <1>9. /\ \E n \in 0..MaxGens : Used' = 1..n
        /\ \A h \in Used' : ctx'[h].id \in Ids
        /\ \A h \in Gens : ctx'[h].state = "Open" => scopes[ctx'[h].id] = h
    BY <1>3 DEF IInv, MapInv, Used
  <1>10. MapInv'
    BY <1>5, <1>6, <1>8, <1>9 DEF MapInv
  <1>. QED
    BY <1>2, <1>10

\* The last guard of a generation whose task is gone takes the ledger with it.
LEMMA HandoffTaken ==
    ASSUME IInv, NEW r \in Resolvers, NEW g \in Gens, res[r].gen = g, res[r].pc = "leave",
           Leave(r), ctx[g].inFlight = 1, ctx[g].handoff = "installed"
    PROVE  IInv'
PROOF
  <1>1. /\ res \in [Resolvers -> Resolutions] /\ ctx \in [Gens -> Contexts] /\ g # None
        /\ ResolutionOk(r) /\ res[r].carried = <<>> /\ ctx[g].ledger \in Ledgers
    BY ScopeAssumption DEF IInv, TypeOK, ResolutionInv, ResolutionOk, Contexts
  <1>2. /\ ctx[g].state = "Closing" /\ job[g].pc \in {"ending", "joined"} /\ job[g].control
        /\ job[g].held = <<>>
    BY DEF IInv, CleanupInv, CleanupOk
  <1>3. Guards(g) = {r} /\ \A q \in Resolvers : ~(res[q].gen = g /\ At(q, "handoff"))
    <2>1. r \in Guards(g) /\ \A q \in Resolvers : ~(res[q].gen = g /\ At(q, "handoff"))
      BY <1>1, GuardHeld
    <2>2. Cardinality(Guards(g)) = 1 /\ Guards(g) \in SUBSET Resolvers
      BY DEF IInv, CountInv, Guards
    <2>. QED
      BY <2>1, <2>2, GuardCounts
  <1>4. UNCHANGED <<scopes, closing, accepting, job, owner, observer, fate, provider, roots,
                    shutdown, late>>
    BY DEF Leave, watchVars, shutVars
  <1>5. PICK l \in Ledgers : l = Reverse(ctx[g].ledger) /\ Range(l) = Range(ctx[g].ledger)
    BY <1>1, ReverseLedger
  <1>6. res' = [res EXCEPT ![r] = [res[r] EXCEPT !.pc = "handoff", !.carried = l]]
    BY <1>1, <1>5 DEF Leave
  <1>7. /\ res' \in [Resolvers -> Resolutions]
        /\ res'[r].pc = "handoff" /\ res'[r].life = res[r].life /\ res'[r].id = res[r].id
        /\ res'[r].gen = g /\ res'[r].carried = l
        /\ \A q \in Resolvers : q # r => res'[q] = res[q]
    BY <1>1, <1>6 DEF Resolutions, ResSteps
  <1>8. ctx' = [ctx EXCEPT ![g] =
                  [ctx[g] EXCEPT !.inFlight = ctx[g].inFlight - 1, !.state = "Closed",
                                 !.ledger = <<>>, !.cached = None, !.creating = None,
                                 !.permit = FALSE, !.handoff = "taken"]]
    <2>1. ctx[g] \in Contexts
      BY <1>1
    <2>2. PICK p \in BOOLEAN : p = (ctx[g].permit \/ ctx[g].inFlight = 1)
      BY <2>1 DEF Contexts
    <2>3. [Drained([ctx[g] EXCEPT !.inFlight = ctx[g].inFlight - 1, !.permit = p])
              EXCEPT !.handoff = "taken"]
          = [ctx[g] EXCEPT !.inFlight = ctx[g].inFlight - 1, !.state = "Closed",
                           !.ledger = <<>>, !.cached = None, !.creating = None,
                           !.permit = FALSE, !.handoff = "taken"]
      BY <2>1 DEF Drained, Contexts
    <2>4. ctx' = [ctx EXCEPT ![g] =
                    [Drained([ctx[g] EXCEPT !.inFlight = ctx[g].inFlight - 1, !.permit = p])
                        EXCEPT !.handoff = "taken"]]
      BY <2>2 DEF Leave
    <2>. QED
      BY <2>3, <2>4
  <1>9. /\ \A h \in Gens : h # g => ctx'[h] = ctx[h]
        /\ ctx'[g].id = ctx[g].id /\ ctx'[g].state = "Closed" /\ ctx'[g].handoff = "taken"
        /\ ctx'[g].ledger = <<>> /\ ctx'[g].inFlight = ctx[g].inFlight - 1
        /\ ctx'[g].inFlight = 0 /\ ctx'[g].creating = None /\ ctx'[g].cached = None
    BY <1>1, <1>8 DEF Contexts
  <1>10. CountInv' /\ ctx'[g].inFlight \in 0..Cardinality(Resolvers)
    BY <1>1, <1>3, <1>4, <1>7, <1>9, GuardCount
  <1>11. TypeOK'
    <2>1. ctx' \in [Gens -> Contexts]
      <3>1. ctx[g] \in Contexts /\ ctx[g].inFlight - 1 \in 0..Cardinality(Resolvers)
        BY <1>1, <1>9, <1>10
      <3>2. [ctx[g] EXCEPT !.inFlight = ctx[g].inFlight - 1, !.state = "Closed",
                           !.ledger = <<>>, !.cached = None, !.creating = None,
                           !.permit = FALSE, !.handoff = "taken"] \in Contexts
        BY <3>1, LedgerFacts DEF Contexts
      <3>. QED
        BY <3>2, <1>1, <1>8
    <2>. QED
      BY <2>1, <1>4, <1>7 DEF IInv, TypeOK
  <1>12. ResolutionInv'
    <2>1. \A h \in Gens : ctx[h].state # "Unused" => ctx'[h].state # "Unused"
      BY <1>9
    <2>2. \A h \in Gens : ctx'[h].id = ctx[h].id
      BY <1>9
    <2>3. ASSUME NEW q \in Resolvers, q # r PROVE ResolutionOk(q)'
      BY <2>1, <2>2, <2>3, <1>4, <1>7 DEF IInv, ResolutionInv, ResolutionOk, Used
    <2>4. ResolutionOk(r)'
      BY <2>1, <2>2, <1>1, <1>4, <1>7 DEF ResolutionOk, Used
    <2>. QED
      BY <2>3, <2>4 DEF ResolutionInv
  <1>13. MapInv'
    BY <1>2, <1>4, <1>9, MapFrame DEF IInv
  <1>14. CleanupInv'
    <2>1. HandoffInv'
      BY <1>3, <1>7, <1>9, GenFacts DEF IInv, CleanupInv, HandoffInv, At
    <2>2. CleanupOk(g)'
      BY <1>2, <1>4, <1>9 DEF CleanupOk
    <2>3. ASSUME NEW h \in Gens, h # g PROVE CleanupOk(h)'
      BY <2>3, <1>4, <1>9, CleanupFrame DEF IInv, CleanupInv, SameTask, SameScope
    <2>. QED
      BY <2>1, <2>2, <2>3 DEF CleanupInv
  <1>15. LockInv'
    <2>1. \A q \in Resolvers : At(q, "create")' /\ res'[q].life = "scoped" =>
              /\ q # r /\ At(q, "create") /\ res[q].life = "scoped"
              /\ res'[q].gen = res[q].gen /\ res[q].gen \in Gens
      BY <1>7, GenFacts DEF At
    <2>2. \A q \in Resolvers : At(q, "create")' /\ res'[q].life = "scoped" => res[q].gen # g
      BY <2>1, <1>3 DEF Guards, At
    <2>3. \A h \in Gens : ctx'[h].creating # None => ctx'[h].cached = None
      BY <1>9 DEF IInv, LockInv
    <2>4. \A q \in Resolvers : At(q, "create")' /\ res'[q].life = "scoped" =>
              ctx'[res'[q].gen].creating = q
      BY <2>1, <2>2, <1>9 DEF IInv, LockInv
    <2>. QED
      BY <2>3, <2>4 DEF LockInv
  <1>16. PlaceInv'
    <2>1. ASSUME NEW q \in Resolvers, NEW h \in Gens
          PROVE  InScope(q, h)' <=> InScope(q, h)
      <3>1. CASE h # g
        BY <3>1, <1>4, <1>7, <1>9, <1>1 DEF InScope
      <3>2. CASE h = g
        <4>1. InScope(q, g) <=> q \in Range(ctx[g].ledger)
          BY <1>2, PlaceFacts, LedgerFacts, <1>3 DEF InScope
        <4>2. InScope(q, g)' <=> q \in Range(l)
          <5>1. q \notin Range(<<>>)
            BY LedgerFacts
          <5>2. \A p \in Resolvers : p # r /\ res[p].gen = g => q \notin Range(res[p].carried)
            BY <1>3, PlaceFacts
          <5>. QED
            BY <5>1, <5>2, <1>2, <1>4, <1>7, <1>9 DEF InScope
        <4>. QED
          BY <3>2, <4>1, <4>2, <1>5
      <3>. QED
        BY <3>1, <3>2
    <2>2. PICK G \in SUBSET Resolvers : G = {}
      OBVIOUS
    <2>3. \A q \in Resolvers : res'[q].gen = res[q].gen /\ fate'[q] = fate[q]
      BY <1>4, <1>7
    <2>. QED
      BY <2>1, <2>2, <2>3, <1>4, PlaceGone
  <1>17. NormalInv'
    BY <1>2, <1>4, <1>7, <1>9, NormalFrame DEF IInv, SameTask
  <1>18. WatchInv'
    BY <1>4, <1>9, WatchFrame DEF IInv
  <1>19. ShutdownInv'
    <2>1. \A q \in Resolvers : res[q].pc \in {"idle", "recheck", "done"} =>
              res'[q].pc \in {"idle", "recheck", "done"}
      BY <1>7
    <2>. QED
      BY <2>1, <1>4, ShutdownFrame DEF IInv, ScopesGone, TasksGone
  <1>. QED
    BY <1>10, <1>11, <1>12, <1>13, <1>14, <1>15, <1>16, <1>17, <1>18, <1>19 DEF IInv

\* A guard is given up.
LEMMA LeaveStep ==
    ASSUME IInv, NEW r \in Resolvers, Leave(r) PROVE IInv'
PROOF
  <1>1. /\ res[r].pc = "leave" /\ res[r].gen # None /\ ResolutionOk(r) /\ res[r].carried = <<>>
        /\ res \in [Resolvers -> Resolutions] /\ ctx \in [Gens -> Contexts]
    BY DEF IInv, TypeOK, Leave, At, ResolutionInv, ResolutionOk
  <1>2. PICK g \in Gens : /\ g = res[r].gen /\ r \in Guards(g)
                          /\ ctx[g].state \in {"Open", "Closing"} /\ job[g].pc # "detach"
    BY <1>1, GuardHeld
  <1>3. CASE ctx[g].inFlight = 1 /\ ctx[g].handoff = "installed"
    BY <1>1, <1>2, <1>3, HandoffTaken
  <1>4. CASE ~(ctx[g].inFlight = 1 /\ ctx[g].handoff = "installed")
    <2>1. UNCHANGED <<scopes, closing, accepting, job, owner, observer, fate, provider, roots,
                      shutdown, late>>
      BY DEF Leave, watchVars, shutVars
    <2>2. ctx[g] \in Contexts
      BY <1>1
    <2>3. PICK p \in BOOLEAN : p = (ctx[g].permit \/ ctx[g].inFlight = 1)
      BY <2>2 DEF Contexts
    <2>4. /\ res' = [res EXCEPT ![r] = [res[r] EXCEPT !.pc = "release", !.carried = <<>>]]
          /\ ctx' = [ctx EXCEPT ![g] = [ctx[g] EXCEPT !.inFlight = ctx[g].inFlight - 1, !.permit = p]]
      BY <1>1, <1>2, <1>4, <2>3 DEF Leave
    <2>5. /\ res' \in [Resolvers -> Resolutions]
          /\ res'[r].pc = "release" /\ res'[r].life = res[r].life /\ res'[r].id = res[r].id
          /\ res'[r].gen = g /\ res'[r].carried = <<>>
          /\ \A q \in Resolvers : q # r => res'[q] = res[q]
      BY <1>1, <1>2, <2>4, LedgerFacts DEF Resolutions, ResSteps
    <2>6. /\ \A h \in Gens : h # g => ctx'[h] = ctx[h]
          /\ ctx'[g].id = ctx[g].id /\ ctx'[g].state = ctx[g].state
          /\ ctx'[g].handoff = ctx[g].handoff /\ ctx'[g].ledger = ctx[g].ledger
          /\ ctx'[g].inFlight = ctx[g].inFlight - 1
          /\ ctx'[g].creating = ctx[g].creating /\ ctx'[g].cached = ctx[g].cached
      BY <1>1, <2>4 DEF Contexts
    <2>7. CountInv' /\ ctx'[g].inFlight \in 0..Cardinality(Resolvers)
      BY <1>1, <1>2, <2>1, <2>5, <2>6, GuardCount
    <2>8. ctx' \in [Gens -> Contexts]
      BY <1>1, <2>2, <2>4, <2>6, <2>7 DEF Contexts
    <2>9. ScopedOnly(r, g)
      BY <1>1, <1>2, <2>1, <2>5, <2>6, <2>8 DEF ScopedOnly, IInv, TypeOK
    <2>10. ResolutionOk(r)'
      BY <1>1, <1>2, <2>1, <2>5, <2>6 DEF ResolutionOk, Used
    <2>11. LockInv'
      <3>1. \A h \in Gens : ctx'[h].creating = ctx[h].creating /\ ctx'[h].cached = ctx[h].cached
        BY <2>6
      <3>2. \A q \in Resolvers : At(q, "create")' /\ res'[q].life = "scoped" =>
                /\ At(q, "create") /\ res[q].life = "scoped"
                /\ res'[q].gen = res[q].gen /\ res[q].gen \in Gens
        BY <2>5, GenFacts DEF At
      <3>. QED
        BY <3>1, <3>2 DEF IInv, LockInv
    <2>12. PlaceInv'
      BY <1>1, <1>2, <2>1, <2>5, <2>6, GenFacts, PlaceFrame DEF IInv
    <2>. QED
      BY <1>1, <1>2, <2>1, <2>5, <2>7, <2>9, <2>10, <2>11, <2>12, ScopedKeeps
  <1>. QED
    BY <1>3, <1>4

-----------------------------------------------------------------------------
(* The cleanup task                                                        *)

\* Instances that leave the hands of a cleanup task are nowhere else.
LEMMA HeldGone ==
    ASSUME IInv, NEW g \in Gens, NEW G \in SUBSET Range(job[g].held),
           UNCHANGED <<res, ctx>>, \A h \in Gens : h # g => job'[h].held = job[h].held,
           Range(job'[g].held) = Range(job[g].held) \ G
    PROVE  /\ G \in SUBSET Resolvers
           /\ \A q \in G : res[q].gen = g /\ fate[q] = "published"
           /\ \A q \in Resolvers, h \in Gens : InScope(q, h)' <=> InScope(q, h) /\ q \notin G
PROOF
  <1>1. job[g].held \in Ledgers
    BY DEF IInv, TypeOK, Jobs
  <1>2. G \in SUBSET Resolvers
    BY <1>1, LedgerFacts
  <1>3. \A q \in G : res[q].gen = g /\ fate[q] = "published"
    BY <1>2, PlaceFacts
  <1>4. ASSUME NEW q \in Resolvers, NEW h \in Gens
        PROVE  InScope(q, h)' <=> InScope(q, h) /\ q \notin G
    <2>1. CASE h # g
      <3>1. InScope(q, h)' <=> InScope(q, h)
        BY <2>1 DEF InScope
      <3>2. InScope(q, h) => q \notin G
        BY <2>1, <1>3 DEF IInv, PlaceInv
      <3>. QED
        BY <3>1, <3>2
    <2>2. CASE h = g /\ q \notin G
      BY <2>2 DEF InScope
    <2>3. CASE h = g /\ q \in G
      <3>1. job[g].held # <<>>
        BY <2>3, LedgerFacts
      <3>2. q \notin Range(ctx[g].ledger)
        BY <3>1, OnePlace, LedgerFacts
      <3>3. \A p \in Resolvers : res[p].gen = g => q \notin Range(res[p].carried)
        BY <3>1, OnePlace, PlaceFacts
      <3>. QED
        BY <2>3, <3>2, <3>3 DEF InScope
    <2>. QED
      BY <2>1, <2>2, <2>3
  <1>. QED
    BY <1>2, <1>3, <1>4

\* A step of the cleanup of generation g.
TaskOnly(g) ==
    /\ UNCHANGED <<scopes, accepting, owner, observer, res, provider, roots, shutdown, late>>
    /\ job' \in [Gens -> Jobs]
    /\ \A h \in Gens : h # g => ctx'[h] = ctx[h] /\ job'[h] = job[h]
    /\ ctx'[g].id = ctx[g].id /\ ctx'[g].inFlight = ctx[g].inFlight
    /\ ctx'[g].state # "Unused"
    /\ ctx'[g].handoff = ctx[g].handoff \/ job[g].pc = "finish"
    /\ \/ ctx'[g].creating = ctx[g].creating /\ ctx'[g].cached = ctx[g].cached
       \/ ctx[g].inFlight = 0 /\ ctx'[g].creating = None
    /\ fate' \in [Resolvers -> {"none", "published", "disposed", "forced"}]
    /\ \A q \in Resolvers : fate'[q] = fate[q] \/ (res[q].gen = g /\ fate[q] = "published")

\* It keeps the invariant if it keeps the maps, the places and what is said of
\* that cleanup.
LEMMA TaskKeeps ==
    ASSUME IInv, NEW g \in Gens, TaskOnly(g), job[g].pc \notin {"none", "joined"},
           ctx' \in [Gens -> Contexts], closing' \in [Ids -> Gens \cup {None}],
           \A i \in Ids : closing[i] = None => closing'[i] = None,
           MapInv', CleanupOk(g)', PlaceInv', NormalOk(g)'
    PROVE  IInv'
PROOF
  <1>. USE DEF TaskOnly
  <1>1. TypeOK'
    BY DEF IInv, TypeOK
  <1>2. CountInv'
    BY CountFrame DEF IInv
  <1>3. ResolutionInv'
    BY ResolutionFrame DEF IInv
  <1>4. CleanupInv'
    <2>1. HandoffInv'
      <3>1. CleanupOk(g)
        BY DEF IInv, CleanupInv
      <3>2. \A r \in Resolvers : At(r, "handoff") =>
                ctx'[res[r].gen].handoff = ctx[res[r].gen].handoff
        BY <3>1, GenFacts DEF IInv, CleanupInv, HandoffInv, CleanupOk
      <3>. QED
        BY <3>2, HandoffFrame DEF IInv, CleanupInv
    <2>2. ASSUME NEW h \in Gens, h # g PROVE CleanupOk(h)'
      BY <2>2, CleanupFrame DEF IInv, CleanupInv, SameTask, SameScope
    <2>. QED
      BY <2>1, <2>2 DEF CleanupInv
  <1>5. LockInv'
    <2>1. CASE ctx'[g].creating = ctx[g].creating /\ ctx'[g].cached = ctx[g].cached
      BY <2>1, GenFacts, LockFrame DEF IInv
    <2>2. CASE ctx[g].inFlight = 0 /\ ctx'[g].creating = None
      <3>1. Guards(g) = {}
        BY <2>2, NoGuards DEF IInv
      <3>2. \A r \in Resolvers : At(r, "create") /\ res[r].life = "scoped" =>
                res[r].gen \in Gens /\ res[r].gen # g
        BY <3>1, GenFacts DEF Guards, At
      <3>3. \A r \in Resolvers : At(r, "create")' /\ res'[r].life = "scoped" =>
                ctx'[res'[r].gen].creating = r
        BY <3>2 DEF IInv, LockInv, At
      <3>4. \A h \in Gens : ctx'[h].creating # None => ctx'[h].cached = None
        BY <2>2 DEF IInv, LockInv
      <3>. QED
        BY <3>3, <3>4 DEF LockInv
    <2>. QED
      BY <2>1, <2>2
  <1>6. NormalInv'
    <2>1. ASSUME NEW h \in Gens, h # g PROVE NormalOk(h)'
      <3>1. NormalOk(h) /\ job'[h] = job[h]
        BY <2>1 DEF IInv, NormalInv
      <3>2. Settled(h) => Settled(h)'
        BY <2>1 DEF Settled
      <3>. QED
        BY <3>1, <3>2 DEF NormalOk
    <2>. QED
      BY <2>1 DEF NormalInv
  <1>7. WatchInv'
    BY WatchFrame DEF IInv
  <1>8. ShutdownInv'
    <2>1. ~TasksGone
      BY DEF TasksGone
    <2>. QED
      BY <2>1, ShutdownFrame DEF IInv, ScopesGone
  <1>. QED
    BY <1>1, <1>2, <1>3, <1>4, <1>5, <1>6, <1>7, <1>8 DEF IInv

\* The same for a task that only disposes of what it holds: G are the instances
\* that meet their end.
LEMMA HolderKeeps ==
    ASSUME IInv, NEW g \in Gens, job[g].pc \notin {"none", "joined"},
           UNCHANGED <<scopes, closing, accepting, ctx, owner, observer, res, provider, roots,
                       shutdown, late>>,
           job' \in [Gens -> Jobs], \A h \in Gens : h # g => job'[h] = job[h],
           job'[g].control = job[g].control,
           NEW G \in SUBSET Range(job[g].held),
           Range(job'[g].held) = Range(job[g].held) \ G,
           \A q \in G : fate'[q] \in {"disposed", "forced"},
           fate' \in [Resolvers -> {"none", "published", "disposed", "forced"}],
           \A q \in Resolvers : q \notin G => fate'[q] = fate[q],
           CleanupOk(g)', NormalOk(g)'
    PROVE  IInv'
PROOF
  <1>1. \A h \in Gens : h # g => job'[h].held = job[h].held
    OBVIOUS
  <1>2. /\ G \in SUBSET Resolvers
        /\ \A q \in G : res[q].gen = g /\ fate[q] = "published"
        /\ \A q \in Resolvers, h \in Gens : InScope(q, h)' <=> InScope(q, h) /\ q \notin G
    BY <1>1, HeldGone
  <1>3. PlaceInv'
    BY <1>2, PlaceGone
  <1>4. ctx[g].state # "Unused"
    BY DEF IInv, CleanupInv, CleanupOk
  <1>5. TaskOnly(g)
    BY <1>2, <1>4 DEF TaskOnly
  <1>6. MapInv'
    BY MapFrame DEF IInv
  <1>7. ctx' \in [Gens -> Contexts] /\ closing' \in [Ids -> Gens \cup {None}]
    BY DEF IInv, TypeOK
  <1>. QED
    BY <1>3, <1>5, <1>6, <1>7, TaskKeeps

\* What the invariant says of one cleanup.
LEMMA TaskFacts ==
    ASSUME IInv, NEW g \in Gens
    PROVE  /\ job \in [Gens -> Jobs] /\ job[g] \in Jobs /\ job[g].held \in Ledgers
           /\ ctx \in [Gens -> Contexts] /\ ctx[g] \in Contexts /\ ctx[g].ledger \in Ledgers
           /\ fate \in [Resolvers -> {"none", "published", "disposed", "forced"}]
           /\ closing \in [Ids -> Gens \cup {None}]
           /\ CleanupOk(g) /\ NormalOk(g)
BY DEF IInv, TypeOK, Jobs, Contexts, CleanupInv, NormalInv

\* A step of the task that only moves its program counter or its terminal state.
LEMMA MoveKeeps ==
    ASSUME IInv, NEW g \in Gens, job[g].pc \notin {"none", "joined"},
           UNCHANGED <<scopes, closing, accepting, ctx, owner, observer, res, fate, provider,
                       roots, shutdown, late>>,
           job' \in [Gens -> Jobs], \A h \in Gens : h # g => job'[h] = job[h],
           job'[g].control = job[g].control, job'[g].held = job[g].held,
           CleanupOk(g)', NormalOk(g)'
    PROVE  IInv'
PROOF
  <1>1. fate' \in [Resolvers -> {"none", "published", "disposed", "forced"}]
    BY DEF IInv, TypeOK
  <1>2. PICK G \in SUBSET Range(job[g].held) : G = {}
    OBVIOUS
  <1>3. Range(job'[g].held) = Range(job[g].held) \ G
    BY <1>2
  <1>. QED
    BY <1>1, <1>2, <1>3, HolderKeeps

\* The task goes on to detach the ledger only when no guard is left.
LEMMA CountResolutionsStep ==
    ASSUME IInv, NEW g \in Gens, CountResolutions(g) PROVE IInv'
PROOF
  <1>1. PICK pc \in {"detach", "wait"} :
            job' = [job EXCEPT ![g].pc = pc] /\ (pc = "detach" => ctx[g].inFlight = 0)
    BY DEF CountResolutions, TaskGoto
  <1>2. /\ job[g].pc \in {"start", "count"}
        /\ UNCHANGED <<scopes, closing, accepting, ctx, owner, observer, res, fate, provider,
                       roots, shutdown, late>>
    BY DEF CountResolutions, scopeVars, watchVars, shutVars
  <1>3. /\ job' \in [Gens -> Jobs] /\ \A h \in Gens : h # g => job'[h] = job[h]
        /\ job'[g].pc = pc /\ job'[g].control = job[g].control /\ job'[g].held = job[g].held
        /\ job'[g].terminal = job[g].terminal /\ job'[g].detached = job[g].detached
    BY <1>1, TaskFacts DEF Jobs, TaskSteps
  <1>4. CleanupOk(g)'
    BY <1>1, <1>2, <1>3, TaskFacts DEF CleanupOk
  <1>5. NormalOk(g)'
    BY <1>2, <1>3, TaskFacts DEF NormalOk
  <1>. QED
    BY <1>2, <1>3, <1>4, <1>5, MoveKeeps

\* An open cleanup that holds nothing any more ends normally.
LEMMA ClaimNormalStep ==
    ASSUME IInv, NEW g \in Gens, ClaimNormal(g) PROVE IInv'
PROOF
  <1>1. /\ job[g].pc = "claim"
        /\ UNCHANGED <<scopes, closing, accepting, ctx, owner, observer, res, fate, provider,
                       roots, shutdown, late>>
    BY DEF ClaimNormal, InTask, scopeVars, watchVars, shutVars
  <1>2. PICK t \in {"OPEN", "NORMAL", "DEADLINE", "AGGREGATE_ABORT", "UNEXPECTED_STOP"} :
            t = IF job[g].terminal = "OPEN" THEN "NORMAL" ELSE job[g].terminal
    BY TaskFacts DEF Jobs
  <1>3. job' = [job EXCEPT ![g] = [job[g] EXCEPT !.pc = "finish", !.terminal = t]]
    BY <1>2, TaskFacts DEF ClaimNormal
  <1>4. /\ job' \in [Gens -> Jobs] /\ \A h \in Gens : h # g => job'[h] = job[h]
        /\ job'[g].pc = "finish" /\ job'[g].control = job[g].control
        /\ job'[g].held = job[g].held
        /\ job'[g].terminal = t /\ job'[g].detached = job[g].detached
    <2>1. PICK j : j = [job[g] EXCEPT !.pc = "finish", !.terminal = t]
      OBVIOUS
    <2>2. /\ j \in Jobs /\ j.pc = "finish" /\ j.control = job[g].control /\ j.held = job[g].held
          /\ j.terminal = t /\ j.detached = job[g].detached
      BY <2>1, TaskFacts DEF Jobs, TaskSteps
    <2>3. job' = [job EXCEPT ![g] = j]
      BY <1>3, <2>1
    <2>. QED
      BY <2>2, <2>3, TaskFacts
  <1>5. CleanupOk(g)'
    BY <1>1, <1>4, TaskFacts DEF CleanupOk
  <1>6. NormalOk(g)'
    <2>1. job[g].detached
      BY <1>1, TaskFacts DEF CleanupOk
    <2>2. Settled(g)' <=> Settled(g)
      BY <1>1, <1>4 DEF Settled
    <2>. QED
      BY <1>1, <1>2, <1>4, <2>1, <2>2, TaskFacts DEF NormalOk
  <1>. QED
    BY <1>1, <1>4, <1>5, <1>6, MoveKeeps

\* The future is gone.
LEMMA TaskJoinedStep ==
    ASSUME IInv, NEW g \in Gens, TaskJoined(g) PROVE IInv'
PROOF
  <1>1. /\ job[g].pc = "ending" /\ job' = [job EXCEPT ![g].pc = "joined"]
        /\ UNCHANGED <<scopes, closing, accepting, ctx, owner, observer, res, fate, provider,
                       roots, shutdown, late>>
    BY DEF TaskJoined, InTask, TaskGoto, scopeVars, watchVars, shutVars
  <1>2. /\ job' \in [Gens -> Jobs] /\ \A h \in Gens : h # g => job'[h] = job[h]
        /\ job'[g].pc = "joined" /\ job'[g].control = job[g].control
        /\ job'[g].held = job[g].held
        /\ job'[g].terminal = job[g].terminal /\ job'[g].detached = job[g].detached
    BY <1>1, TaskFacts DEF Jobs, TaskSteps
  <1>3. CleanupOk(g)'
    BY <1>1, <1>2, TaskFacts DEF CleanupOk
  <1>4. NormalOk(g)'
    BY <1>1, <1>2, TaskFacts DEF NormalOk, Settled
  <1>. QED
    BY <1>1, <1>2, <1>3, <1>4, MoveKeeps

\* A permit wakes the task, which counts again.
LEMMA TaskWakesStep ==
    ASSUME IInv, NEW g \in Gens, TaskWakes(g) PROVE IInv'
PROOF
  <1>1. /\ job[g].pc = "wait" /\ job' = [job EXCEPT ![g].pc = "count"]
        /\ ctx' = [ctx EXCEPT ![g].permit = FALSE]
        /\ UNCHANGED <<scopes, closing, accepting, owner, observer, res, fate, provider,
                       roots, shutdown, late>>
    BY DEF TaskWakes, InTask, TaskGoto, watchVars, shutVars
  <1>2. /\ job' \in [Gens -> Jobs] /\ \A h \in Gens : h # g => job'[h] = job[h]
        /\ job'[g].pc = "count" /\ job'[g].control = job[g].control
        /\ job'[g].held = job[g].held
        /\ job'[g].terminal = job[g].terminal /\ job'[g].detached = job[g].detached
    <2>1. PICK j : j = [job[g] EXCEPT !.pc = "count"]
      OBVIOUS
    <2>2. /\ j \in Jobs /\ j.pc = "count" /\ j.control = job[g].control /\ j.held = job[g].held
          /\ j.terminal = job[g].terminal /\ j.detached = job[g].detached
      BY <2>1, TaskFacts DEF Jobs, TaskSteps
    <2>3. job' = [job EXCEPT ![g] = j]
      BY <1>1, <2>1, TaskFacts
    <2>. QED
      BY <2>2, <2>3, TaskFacts
  <1>3. /\ ctx' \in [Gens -> Contexts] /\ \A h \in Gens : h # g => ctx'[h] = ctx[h]
        /\ SameScope(g)
        /\ ctx'[g].creating = ctx[g].creating /\ ctx'[g].cached = ctx[g].cached
    BY <1>1, TaskFacts DEF Contexts, SameScope
  <1>4. CleanupOk(g)'
    BY <1>1, <1>2, <1>3, TaskFacts DEF CleanupOk, SameScope
  <1>5. NormalOk(g)'
    BY <1>1, <1>2, TaskFacts DEF NormalOk, Settled
  <1>6. PlaceInv'
    BY <1>1, <1>2, <1>3, GenFacts, PlaceFrame DEF IInv, SameScope
  <1>7. MapInv'
    BY <1>1, <1>2, <1>3, MapFrame DEF IInv, SameScope
  <1>8. TaskOnly(g)
    BY <1>1, <1>2, <1>3, TaskFacts DEF TaskOnly, SameScope, CleanupOk
  <1>. QED
    BY <1>1, <1>3, <1>4, <1>5, <1>6, <1>7, <1>8, TaskFacts, TaskKeeps

\* No guard is left when the ledger moves into the task.
LEMMA DetachLedgerStep ==
    ASSUME IInv, NEW g \in Gens, DetachLedger(g) PROVE IInv'
PROOF
  <1>1. /\ job[g].pc = "detach"
        /\ UNCHANGED <<scopes, closing, accepting, owner, observer, res, fate, provider,
                       roots, shutdown, late>>
    BY DEF DetachLedger, InTask, watchVars, shutVars
  <1>2. PICK l \in Ledgers : l = Reverse(ctx[g].ledger) /\ Range(l) = Range(ctx[g].ledger)
    BY TaskFacts, ReverseLedger
  <1>3. job' = [job EXCEPT ![g] = [job[g] EXCEPT !.pc = "load", !.detached = TRUE,
                                                 !.abortSafe = TRUE, !.held = l]]
    BY <1>2, TaskFacts DEF DetachLedger
  <1>4. /\ job' \in [Gens -> Jobs] /\ \A h \in Gens : h # g => job'[h] = job[h]
        /\ job'[g].pc = "load" /\ job'[g].control = job[g].control
        /\ job'[g].held = l
        /\ job'[g].terminal = job[g].terminal /\ job'[g].detached
    <2>1. PICK j : j = [job[g] EXCEPT !.pc = "load", !.detached = TRUE, !.abortSafe = TRUE,
                                      !.held = l]
      OBVIOUS
    <2>2. /\ j \in Jobs /\ j.pc = "load" /\ j.control = job[g].control /\ j.held = l
          /\ j.terminal = job[g].terminal /\ j.detached
      BY <2>1, TaskFacts DEF Jobs, TaskSteps
    <2>3. job' = [job EXCEPT ![g] = j]
      BY <1>3, <2>1
    <2>. QED
      BY <2>2, <2>3, TaskFacts
  <1>5. /\ ctx' \in [Gens -> Contexts] /\ \A h \in Gens : h # g => ctx'[h] = ctx[h]
        /\ ctx'[g].id = ctx[g].id /\ ctx'[g].inFlight = ctx[g].inFlight
        /\ ctx'[g].state = "Closed" /\ ctx'[g].ledger = <<>>
        /\ ctx'[g].handoff = ctx[g].handoff /\ ctx'[g].creating = None
    BY TaskFacts, LedgerFacts DEF DetachLedger, Drained, Contexts
  <1>6. /\ ctx[g].state = "Closing" /\ ctx[g].inFlight = 0 /\ job[g].held = <<>>
        /\ job[g].control
    BY <1>1, TaskFacts DEF CleanupOk
  <1>7. CleanupOk(g)'
    BY <1>1, <1>4, <1>5, <1>6, TaskFacts DEF CleanupOk
  <1>8. \A q \in Resolvers, h \in Gens : InScope(q, h)' <=> InScope(q, h)
    BY <1>1, <1>2, <1>4, <1>5, <1>6, LedgerFacts DEF InScope
  <1>9. PlaceInv'
    <2>1. PICK G \in SUBSET Resolvers : G = {}
      OBVIOUS
    <2>. QED
      BY <1>1, <1>8, <2>1, PlaceGone
  <1>10. NormalOk(g)'
    <2>1. job[g].terminal # "NORMAL"
      BY <1>1, TaskFacts DEF NormalOk
    <2>2. Settled(g)'
      <3>1. \A q \in Resolvers : ~(res[q].gen = g /\ At(q, "handoff"))
        BY <1>1, TaskFacts DEF IInv, CleanupInv, HandoffInv, CleanupOk
      <3>2. ASSUME NEW q \in Resolvers, res[q].gen = g, fate[q] = "published"
            PROVE  q \in Range(ctx[g].ledger)
        <4>1. InScope(q, g)
          BY <3>2, ScopeAssumption DEF IInv, PlaceInv
        <4>. QED
          BY <4>1, <3>1, <1>6, PlaceFacts, LedgerFacts DEF InScope
      <3>3. ASSUME NEW q \in Resolvers, res[q].gen = g
            PROVE  fate[q] \in {"none", "published"}
        BY <3>3, <1>6, TaskFacts DEF NormalOk
      <3>. QED
        BY <3>2, <3>3, <1>1, <1>2, <1>4, TaskFacts DEF Settled
    <2>. QED
      BY <1>4, <1>5, <2>1, <2>2 DEF NormalOk
  <1>11. MapInv'
    BY <1>1, <1>4, <1>5, <1>6, MapFrame DEF IInv
  <1>12. TaskOnly(g)
    BY <1>1, <1>4, <1>5, <1>6, TaskFacts DEF TaskOnly
  <1>. QED
    BY <1>1, <1>5, <1>7, <1>9, <1>10, <1>11, <1>12, TaskFacts, TaskKeeps

\* The instances of a sequence share a fate, all others keep theirs.
LEMMA FatesFacts ==
    ASSUME IInv, NEW s \in Ledgers, NEW f \in {"disposed", "forced"}, fate' = Fates(s, f)
    PROVE  /\ fate' \in [Resolvers -> {"none", "published", "disposed", "forced"}]
           /\ \A q \in Range(s) : fate'[q] = f
           /\ \A q \in Resolvers : q \notin Range(s) => fate'[q] = fate[q]
PROOF
  <1>1. Range(s) \subseteq Resolvers
    BY LedgerFacts
  <1>. QED
    BY <1>1 DEF Fates, IInv, TypeOK

\* A claimed cleanup forces what it holds, an open one goes on to dispose of it.
LEMMA LoadTerminalStep ==
    ASSUME IInv, NEW g \in Gens, LoadTerminal(g) PROVE IInv'
PROOF
  <1>1. /\ job[g].pc = "load"
        /\ UNCHANGED <<scopes, closing, accepting, ctx, owner, observer, res, provider, roots,
                       shutdown, late>>
    BY DEF LoadTerminal, InTask, scopeVars, watchVars, shutVars
  <1>2. ctx[g].state = "Closed" /\ job[g].control /\ job[g].detached /\ job[g].terminal # "NORMAL"
    BY <1>1, TaskFacts DEF CleanupOk, NormalOk
  <1>3. CASE job[g].terminal # "OPEN"
    <2>1. fate' = Fates(job[g].held, "forced")
      BY <1>3 DEF LoadTerminal
    <2>2. PICK j : j = [job[g] EXCEPT !.pc = "claim", !.held = <<>>]
      OBVIOUS
    <2>3. /\ j \in Jobs /\ j.pc = "claim" /\ j.control = job[g].control /\ j.held = <<>>
          /\ j.terminal = job[g].terminal /\ j.detached = job[g].detached
      BY <2>2, TaskFacts, LedgerFacts DEF Jobs, TaskSteps
    <2>4. job' = [job EXCEPT ![g] = j]
      BY <1>3, <2>2, TaskFacts DEF LoadTerminal
    <2>5. job' \in [Gens -> Jobs] /\ job'[g] = j /\ \A h \in Gens : h # g => job'[h] = job[h]
      BY <2>3, <2>4, TaskFacts
    <2>6. CleanupOk(g)'
      BY <1>1, <1>2, <2>3, <2>5, TaskFacts DEF CleanupOk
    <2>7. NormalOk(g)'
      BY <1>1, <1>2, <1>3, <2>3, <2>5 DEF NormalOk
    <2>8. PICK G \in SUBSET Range(job[g].held) : G = Range(job[g].held)
      OBVIOUS
    <2>9. Range(job'[g].held) = Range(job[g].held) \ G
      BY <2>3, <2>5, <2>8, LedgerFacts
    <2>10. /\ fate' \in [Resolvers -> {"none", "published", "disposed", "forced"}]
           /\ \A q \in G : fate'[q] \in {"disposed", "forced"}
           /\ \A q \in Resolvers : q \notin G => fate'[q] = fate[q]
      BY <2>1, <2>8, TaskFacts, FatesFacts
    <2>. QED
      BY <1>1, <2>3, <2>5, <2>6, <2>7, <2>9, <2>10, HolderKeeps
  <1>4. CASE job[g].terminal = "OPEN"
    <2>1. PICK pc \in {"claim", "disposing"} :
              /\ job' = [job EXCEPT ![g].pc = pc] /\ UNCHANGED fate
              /\ pc = "claim" <=> job[g].held = <<>>
      BY <1>4 DEF LoadTerminal, TaskGoto, Disposing
    <2>2. PICK j : j = [job[g] EXCEPT !.pc = pc]
      OBVIOUS
    <2>3. /\ j \in Jobs /\ j.pc = pc /\ j.control = job[g].control /\ j.held = job[g].held
          /\ j.terminal = job[g].terminal /\ j.detached = job[g].detached
      BY <2>2, TaskFacts DEF Jobs, TaskSteps
    <2>4. job' = [job EXCEPT ![g] = j]
      BY <2>1, <2>2, TaskFacts
    <2>5. job' \in [Gens -> Jobs] /\ job'[g] = j /\ \A h \in Gens : h # g => job'[h] = job[h]
      BY <2>3, <2>4, TaskFacts
    <2>6. CleanupOk(g)'
      BY <1>1, <1>2, <2>1, <2>3, <2>5, TaskFacts DEF CleanupOk
    <2>7. NormalOk(g)'
      BY <1>1, <1>2, <1>4, <2>1, <2>3, <2>5, TaskFacts DEF NormalOk, Settled
    <2>. QED
      BY <1>1, <2>1, <2>3, <2>5, <2>6, <2>7, MoveKeeps
  <1>. QED
    BY <1>3, <1>4

\* A disposer has run: its instance is the one that leaves the task's hands.
LEMMA DisposerEndsStep ==
    ASSUME IInv, NEW g \in Gens, DisposerEnds(g) PROVE IInv'
PROOF
  <1>1. /\ job[g].pc = "disposing"
        /\ fate' = [fate EXCEPT ![Head(job[g].held)] = "disposed"]
        /\ UNCHANGED <<scopes, closing, accepting, ctx, owner, observer, res, provider, roots,
                       shutdown, late>>
    BY DEF DisposerEnds, InTask, scopeVars, watchVars, shutVars
  <1>2. /\ ctx[g].state = "Closed" /\ job[g].control /\ job[g].detached
        /\ job[g].terminal # "NORMAL" /\ job[g].held # <<>>
    BY <1>1, TaskFacts DEF CleanupOk, NormalOk
  <1>3. PICK t \in Ledgers : /\ t = Tail(job[g].held)
                             /\ Range(t) = Range(job[g].held) \ {Head(job[g].held)}
    BY <1>2, TaskFacts, TailLedger
  <1>4. PICK x \in Resolvers : x = Head(job[g].held) /\ x \in Range(job[g].held)
    BY <1>2, TaskFacts, TailLedger, LedgerFacts
  <1>5. PICK ok \in BOOLEAN :
            job' = [job EXCEPT ![g].pc = Disposing(Tail(job[g].held)), ![g].held = Tail(@),
                               ![g].failed = @ \/ ~ok]
    BY DEF DisposerEnds
  <1>6. PICK pc \in {"claim", "disposing"} : pc = Disposing(t) /\ (pc = "claim" <=> t = <<>>)
    BY DEF Disposing
  <1>7. PICK b \in BOOLEAN : b = (job[g].failed \/ ~ok)
    BY TaskFacts DEF Jobs
  <1>8. PICK j : j = [job[g] EXCEPT !.pc = pc, !.held = t, !.failed = b]
    OBVIOUS
  <1>9. /\ j \in Jobs /\ j.pc = pc /\ j.control = job[g].control /\ j.held = t
        /\ j.terminal = job[g].terminal /\ j.detached = job[g].detached
    BY <1>8, TaskFacts DEF Jobs, TaskSteps
  <1>10. job' = [job EXCEPT ![g] = j]
    BY <1>3, <1>5, <1>6, <1>7, <1>8, TaskFacts DEF Jobs
  <1>11. job' \in [Gens -> Jobs] /\ job'[g] = j /\ \A h \in Gens : h # g => job'[h] = job[h]
    BY <1>9, <1>10, TaskFacts
  <1>12. /\ fate' \in [Resolvers -> {"none", "published", "disposed", "forced"}]
         /\ fate'[x] = "disposed" /\ \A q \in Resolvers : q # x => fate'[q] = fate[q]
    BY <1>1, <1>4, TaskFacts
  <1>13. CleanupOk(g)'
    BY <1>1, <1>2, <1>6, <1>9, <1>11, TaskFacts DEF CleanupOk
  <1>14. NormalOk(g)'
    <2>1. ASSUME job[g].terminal = "OPEN" PROVE Settled(g)'
      <3>1. Settled(g)
        BY <1>1, <2>1, TaskFacts DEF NormalOk
      <3>. QED
        BY <3>1, <1>1, <1>3, <1>4, <1>9, <1>11, <1>12 DEF Settled
    <2>. QED
      BY <1>1, <1>2, <1>9, <1>11, <2>1 DEF NormalOk
  <1>15. PICK G \in SUBSET Range(job[g].held) : G = {x}
    BY <1>4
  <1>16. /\ Range(job'[g].held) = Range(job[g].held) \ G
         /\ \A q \in G : fate'[q] \in {"disposed", "forced"}
         /\ \A q \in Resolvers : q \notin G => fate'[q] = fate[q]
    BY <1>3, <1>4, <1>9, <1>11, <1>12, <1>15
  <1>. QED
    BY <1>1, <1>9, <1>11, <1>12, <1>13, <1>14, <1>16, HolderKeeps

\* What a dropped task held is forced.
LEMMA TaskDroppedStep ==
    ASSUME IInv, NEW g \in Gens, TaskDropped(g) PROVE IInv'
PROOF
  <1>1. /\ job[g].pc \in {"start", "wait", "disposing"}
        /\ fate' = Fates(job[g].held, "forced")
        /\ UNCHANGED <<scopes, closing, accepting, ctx, owner, observer, res, provider, roots,
                       shutdown, late>>
    BY DEF TaskDropped, AwaitPoints, scopeVars, watchVars, shutVars
  <1>2. /\ job[g].control /\ job[g].terminal # "NORMAL"
        /\ job[g].held # <<>> => ctx[g].state = "Closed"
    BY <1>1, TaskFacts DEF CleanupOk, NormalOk
  <1>3. PICK j : j = [job[g] EXCEPT !.pc = "finish", !.held = <<>>]
    OBVIOUS
  <1>4. /\ j \in Jobs /\ j.pc = "finish" /\ j.control = job[g].control /\ j.held = <<>>
        /\ j.terminal = job[g].terminal /\ j.detached = job[g].detached
    BY <1>3, TaskFacts, LedgerFacts DEF Jobs, TaskSteps
  <1>5. job' = [job EXCEPT ![g] = j]
    BY <1>3, TaskFacts DEF TaskDropped
  <1>6. job' \in [Gens -> Jobs] /\ job'[g] = j /\ \A h \in Gens : h # g => job'[h] = job[h]
    BY <1>4, <1>5, TaskFacts
  <1>7. PICK G \in SUBSET Range(job[g].held) : G = Range(job[g].held)
    OBVIOUS
  <1>8. Range(job'[g].held) = Range(job[g].held) \ G
    BY <1>4, <1>6, <1>7, LedgerFacts
  <1>9. /\ fate' \in [Resolvers -> {"none", "published", "disposed", "forced"}]
        /\ \A q \in G : fate'[q] \in {"disposed", "forced"}
        /\ \A q \in Resolvers : q \notin G => fate'[q] = fate[q]
    BY <1>1, <1>7, TaskFacts, FatesFacts
  <1>10. CleanupOk(g)'
    BY <1>1, <1>2, <1>4, <1>6, TaskFacts DEF CleanupOk
  <1>11. NormalOk(g)'
    <2>1. ctx[g].state # "Closed" => \A q \in Resolvers : fate'[q] = fate[q]
      BY <1>2, <1>7, <1>9, LedgerFacts
    <2>. QED
      BY <1>1, <1>2, <1>4, <1>6, <2>1, TaskFacts DEF NormalOk
  <1>. QED
    BY <1>1, <1>4, <1>6, <1>8, <1>9, <1>10, <1>11, HolderKeeps

\* What Ended makes of a task: a terminal state it had is kept.
LEMMA EndedFacts ==
    ASSUME IInv, NEW g \in Gens
    PROVE  /\ \E j \in Jobs :
                 /\ j = Ended(g) /\ j.pc = "ending" /\ j.held = job[g].held
                 /\ j.control = FALSE /\ j.detached = TRUE /\ j.terminal # "OPEN"
                 /\ j.terminal = "NORMAL" => job[g].terminal = "NORMAL"
           /\ \E j \in Jobs :
                 /\ j = [Ended(g) EXCEPT !.control = TRUE, !.detached = FALSE]
                 /\ j.pc = "ending" /\ j.held = job[g].held
                 /\ j.control = TRUE /\ j.detached = FALSE /\ j.terminal # "OPEN"
                 /\ j.terminal = "NORMAL" => job[g].terminal = "NORMAL"
PROOF
  <1>1. PICK t \in {"NORMAL", "DEADLINE", "AGGREGATE_ABORT", "UNEXPECTED_STOP"} :
            t = IF job[g].terminal = "OPEN" THEN "UNEXPECTED_STOP" ELSE job[g].terminal
    BY TaskFacts DEF Jobs
  <1>2. PICK j : j = [job[g] EXCEPT !.pc = "ending", !.control = FALSE, !.detached = TRUE,
                                    !.abortSafe = FALSE, !.aborted = FALSE, !.terminal = t]
    OBVIOUS
  <1>3. /\ j \in Jobs /\ j.pc = "ending" /\ j.control = FALSE /\ j.detached = TRUE
        /\ j.held = job[g].held /\ j.terminal = t
    BY <1>2, TaskFacts DEF Jobs, TaskSteps
  <1>4. j = Ended(g)
    BY <1>1, <1>2 DEF Ended
  <1>5. PICK k : k = [j EXCEPT !.control = TRUE, !.detached = FALSE]
    OBVIOUS
  <1>6. /\ k \in Jobs /\ k.pc = "ending" /\ k.control = TRUE /\ k.detached = FALSE
        /\ k.held = job[g].held /\ k.terminal = t
    BY <1>3, <1>5 DEF Jobs
  <1>. QED
    BY <1>1, <1>3, <1>4, <1>5, <1>6

\* The task hands its registration to the last guard.
LEMMA FinishHandsOff ==
    ASSUME IInv, NEW g \in Gens, Finish(g), ~job[g].detached, ctx[g].inFlight > 0
    PROVE  IInv'
PROOF
  <1>1. /\ job[g].pc = "finish" /\ ctx' = [ctx EXCEPT ![g].handoff = "installed"]
        /\ job' = [job EXCEPT ![g] = [Ended(g) EXCEPT !.control = TRUE, !.detached = FALSE]]
        /\ UNCHANGED <<scopes, closing, accepting, owner, observer, res, fate, provider,
                       roots, shutdown, late>>
    BY DEF Finish, InTask, watchVars, shutVars
  <1>2. job[g].control /\ job[g].held = <<>> /\ ctx[g].state = "Closing" /\ job[g].terminal # "NORMAL"
    BY <1>1, TaskFacts DEF CleanupOk, NormalOk, Contexts
  <1>3. PICK j \in Jobs :
            /\ j = [Ended(g) EXCEPT !.control = TRUE, !.detached = FALSE]
            /\ j.pc = "ending" /\ j.control = TRUE /\ j.detached = FALSE
            /\ j.held = job[g].held /\ j.terminal \notin {"OPEN", "NORMAL"}
    BY <1>2, EndedFacts
  <1>4. job' \in [Gens -> Jobs] /\ job'[g] = j /\ \A h \in Gens : h # g => job'[h] = job[h]
    BY <1>1, <1>3, TaskFacts
  <1>5. /\ ctx' \in [Gens -> Contexts] /\ \A h \in Gens : h # g => ctx'[h] = ctx[h]
        /\ ctx'[g].id = ctx[g].id /\ ctx'[g].inFlight = ctx[g].inFlight
        /\ ctx'[g].state = "Closing" /\ ctx'[g].ledger = ctx[g].ledger
        /\ ctx'[g].handoff = "installed"
        /\ ctx'[g].creating = ctx[g].creating /\ ctx'[g].cached = ctx[g].cached
    BY <1>1, <1>2, TaskFacts DEF Contexts
  <1>6. CleanupOk(g)'
    BY <1>2, <1>3, <1>4, <1>5, TaskFacts DEF CleanupOk
  <1>7. NormalOk(g)'
    BY <1>1, <1>2, <1>3, <1>4, <1>5, TaskFacts DEF NormalOk
  <1>8. PlaceInv'
    BY <1>1, <1>3, <1>4, <1>5, GenFacts, PlaceFrame DEF IInv
  <1>9. MapInv'
    BY <1>1, <1>2, <1>3, <1>4, <1>5, MapFrame DEF IInv
  <1>10. TaskOnly(g)
    BY <1>1, <1>4, <1>5, TaskFacts DEF TaskOnly
  <1>. QED
    BY <1>1, <1>5, <1>6, <1>7, <1>8, <1>9, <1>10, TaskFacts, TaskKeeps

\* The task had its ledger, or no guard is left to fill it: what it still finds
\* there is forced, and control and reservation go.
LEMMA FinishReleases ==
    ASSUME IInv, NEW g \in Gens, Finish(g), job[g].detached \/ ctx[g].inFlight = 0
    PROVE  IInv'
PROOF
  <1>1. ~(~job[g].detached /\ ctx[g].inFlight > 0)
    BY TaskFacts DEF Contexts
  <1>2. /\ job[g].pc = "finish" /\ Unregister(g)
        /\ job' = [job EXCEPT ![g] = Ended(g)]
        /\ fate' = IF job[g].detached THEN fate ELSE Fates(ctx[g].ledger, "forced")
        /\ ctx' = IF job[g].detached THEN ctx ELSE [ctx EXCEPT ![g] = Drained(@)]
        /\ UNCHANGED <<scopes, accepting, owner, observer, res, provider, roots, shutdown, late>>
    BY <1>1 DEF Finish, InTask, watchVars, shutVars
  <1>3. /\ job[g].control /\ job[g].held = <<>> /\ ctx[g].state \in {"Closing", "Closed"}
        /\ job[g].detached => ctx[g].state = "Closed"
        /\ job[g].terminal = "NORMAL" => job[g].detached /\ Settled(g)
        /\ ctx[g].inFlight = 0 /\ ctx[g].handoff \notin {"installed", "taken"}
    BY <1>2, TaskFacts DEF CleanupOk, NormalOk, Contexts
  <1>4. PICK j \in Jobs :
            /\ j = Ended(g) /\ j.pc = "ending" /\ j.control = FALSE /\ j.detached = TRUE
            /\ j.held = job[g].held /\ j.terminal # "OPEN"
            /\ j.terminal = "NORMAL" => job[g].terminal = "NORMAL"
    BY EndedFacts
  <1>5. job' \in [Gens -> Jobs] /\ job'[g] = j /\ \A h \in Gens : h # g => job'[h] = job[h]
    BY <1>2, <1>4, TaskFacts
  <1>6. /\ ctx' \in [Gens -> Contexts] /\ \A h \in Gens : h # g => ctx'[h] = ctx[h]
        /\ ctx'[g].id = ctx[g].id /\ ctx'[g].inFlight = ctx[g].inFlight
        /\ ctx'[g].state = "Closed" /\ ctx'[g].ledger = <<>>
        /\ ctx'[g].handoff = ctx[g].handoff
        /\ \/ ctx'[g].creating = ctx[g].creating /\ ctx'[g].cached = ctx[g].cached
           \/ ctx'[g].creating = None
    <2>1. CASE job[g].detached
      BY <2>1, <1>2, <1>3, TaskFacts DEF CleanupOk
    <2>2. CASE ~job[g].detached
      BY <2>2, <1>2, TaskFacts, LedgerFacts DEF Drained, Contexts
    <2>. QED
      BY <2>1, <2>2
  <1>7. CleanupOk(g)'
    BY <1>3, <1>4, <1>5, <1>6, TaskFacts DEF CleanupOk
  <1>8. PICK G \in SUBSET Resolvers : G = Range(ctx[g].ledger)
    BY TaskFacts, LedgerFacts
  <1>9. /\ \A q \in G : res[q].gen = g /\ fate[q] = "published"
        /\ job[g].detached => G = {}
    BY <1>3, <1>8, PlaceFacts, TaskFacts, LedgerFacts DEF CleanupOk
  <1>10. /\ fate' \in [Resolvers -> {"none", "published", "disposed", "forced"}]
         /\ \A q \in G : fate'[q] \in {"disposed", "forced"}
         /\ \A q \in Resolvers : q \notin G => fate'[q] = fate[q]
    <2>1. CASE job[g].detached
      BY <2>1, <1>2, <1>9, TaskFacts
    <2>2. CASE ~job[g].detached
      BY <2>2, <1>2, <1>8, TaskFacts, FatesFacts
    <2>. QED
      BY <2>1, <2>2
  <1>11. ASSUME NEW q \in Resolvers, NEW h \in Gens
         PROVE  InScope(q, h)' <=> InScope(q, h) /\ q \notin G
    <2>1. CASE h # g
      BY <2>1, <1>2, <1>5, <1>6, <1>9, ScopeAssumption DEF InScope, IInv, PlaceInv
    <2>2. CASE h = g
      <3>1. \A p \in Resolvers : res[p].gen = g => res[p].carried = <<>>
        BY <1>3 DEF IInv, CleanupInv, HandoffInv, ResolutionInv, ResolutionOk, At
      <3>2. InScope(q, g) <=> q \in G
        BY <3>1, <1>3, <1>8, LedgerFacts DEF InScope
      <3>3. ~InScope(q, g)'
        BY <3>1, <1>2, <1>3, <1>4, <1>5, <1>6, LedgerFacts DEF InScope
      <3>. QED
        BY <2>2, <3>2, <3>3
    <2>. QED
      BY <2>1, <2>2
  <1>12. PlaceInv'
    BY <1>2, <1>9, <1>10, <1>11, PlaceGone
  <1>13. NormalOk(g)'
    <2>1. ASSUME job[g].terminal = "NORMAL" PROVE Settled(g)'
      BY <2>1, <1>2, <1>3, <1>4, <1>5 DEF Settled
    <2>. QED
      BY <2>1, <1>4, <1>5, <1>6 DEF NormalOk
  <1>14. /\ MapInv' /\ closing' \in [Ids -> Gens \cup {None}]
         /\ \A i \in Ids : closing[i] = None => closing'[i] = None
    BY <1>2, <1>3, <1>4, <1>5, <1>6, UnregisterMap
  <1>15. TaskOnly(g)
    BY <1>2, <1>3, <1>5, <1>6, <1>9, <1>10, TaskFacts DEF TaskOnly
  <1>. QED
    BY <1>2, <1>6, <1>7, <1>12, <1>13, <1>14, <1>15, TaskKeeps

\* The registration ends with the task or is handed to the last guard.
LEMMA FinishStep ==
    ASSUME IInv, NEW g \in Gens, Finish(g) PROVE IInv'
PROOF
  <1>1. ctx[g].inFlight \in Nat
    <2>1. Cardinality(Resolvers) \in Nat
      BY ScopeAssumption, FS_CardinalityType
    <2>. QED
      BY <2>1, TaskFacts DEF Contexts
  <1>2. (~job[g].detached /\ ctx[g].inFlight > 0) \/ job[g].detached \/ ctx[g].inFlight = 0
    BY <1>1
  <1>. QED
    BY <1>2, FinishHandsOff, FinishReleases

-----------------------------------------------------------------------------
(* The handoff ends                                                        *)

\* The last guard ends what the task has left to it.
LEMMA CompleteHandoffStep ==
    ASSUME IInv, NEW r \in Resolvers, CompleteHandoff(r) PROVE IInv'
PROOF
  <1>1. PICK g \in Gens : g = res[r].gen
    BY GenFacts DEF CompleteHandoff
  <1>2. /\ res[r].pc = "handoff" /\ Unregister(g)
        /\ job' = [job EXCEPT ![g].detached = TRUE, ![g].control = FALSE, ![g].abortSafe = FALSE]
        /\ ctx' = [ctx EXCEPT ![g].handoff = "done"]
        /\ fate' = Fates(res[r].carried, "forced")
        /\ res' = [res EXCEPT ![r].pc = "release", ![r].carried = <<>>]
        /\ UNCHANGED <<scopes, accepting, owner, observer, provider, roots, shutdown, late>>
    BY <1>1 DEF CompleteHandoff, At, watchVars, shutVars
  <1>3. /\ ctx[g].handoff = "taken" /\ ctx[g].state = "Closed" /\ job[g].control
        /\ job[g].pc \in {"ending", "joined"} /\ job[g].held = <<>> /\ ctx[g].ledger = <<>>
        /\ ctx[g].inFlight = 0
    BY <1>1, <1>2, TaskFacts DEF IInv, CleanupInv, HandoffInv, CleanupOk, At
  <1>4. /\ res \in [Resolvers -> Resolutions] /\ res[r] \in Resolutions /\ ResolutionOk(r)
        /\ res[r].carried \in Ledgers
    BY DEF IInv, TypeOK, Resolutions, ResolutionInv
  <1>5. PICK x : x = [res[r] EXCEPT !.pc = "release", !.carried = <<>>]
    OBVIOUS
  <1>6. /\ x \in Resolutions /\ x.pc = "release" /\ x.life = res[r].life /\ x.id = res[r].id
        /\ x.gen = res[r].gen /\ x.carried = <<>>
    BY <1>4, <1>5, LedgerFacts DEF Resolutions, ResSteps
  <1>7. res' = [res EXCEPT ![r] = x]
    BY <1>2, <1>4, <1>5
  <1>8. res' \in [Resolvers -> Resolutions] /\ res'[r] = x
        /\ \A q \in Resolvers : q # r => res'[q] = res[q]
    BY <1>4, <1>6, <1>7
  <1>9. PICK j : j = [job[g] EXCEPT !.detached = TRUE, !.control = FALSE, !.abortSafe = FALSE]
    OBVIOUS
  <1>10. /\ j \in Jobs /\ j.pc = job[g].pc /\ j.control = FALSE /\ j.held = <<>>
         /\ j.terminal = job[g].terminal /\ j.detached = TRUE
    BY <1>3, <1>9, TaskFacts DEF Jobs
  <1>11. job' = [job EXCEPT ![g] = j]
    BY <1>2, <1>9, TaskFacts
  <1>12. job' \in [Gens -> Jobs] /\ job'[g] = j /\ \A h \in Gens : h # g => job'[h] = job[h]
    BY <1>10, <1>11, TaskFacts
  <1>13. /\ ctx' \in [Gens -> Contexts] /\ \A h \in Gens : h # g => ctx'[h] = ctx[h]
         /\ ctx'[g].id = ctx[g].id /\ ctx'[g].inFlight = ctx[g].inFlight
         /\ ctx'[g].state = ctx[g].state /\ ctx'[g].ledger = ctx[g].ledger
         /\ ctx'[g].handoff = "done"
         /\ ctx'[g].creating = ctx[g].creating /\ ctx'[g].cached = ctx[g].cached
    BY <1>2, TaskFacts DEF Contexts
  <1>14. PICK G \in SUBSET Resolvers : G = Range(res[r].carried)
    BY <1>4, LedgerFacts
  <1>15. \A q \in G : res[q].gen = g /\ fate[q] = "published"
    BY <1>1, <1>14, PlaceFacts
  <1>16. /\ fate' \in [Resolvers -> {"none", "published", "disposed", "forced"}]
         /\ \A q \in G : fate'[q] \in {"disposed", "forced"}
         /\ \A q \in Resolvers : q \notin G => fate'[q] = fate[q]
    BY <1>2, <1>4, <1>14, FatesFacts
  <1>17. ASSUME NEW q \in Resolvers, NEW h \in Gens
         PROVE  InScope(q, h)' <=> InScope(q, h) /\ q \notin G
    <2>1. CASE h # g
      BY <2>1, <1>1, <1>6, <1>8, <1>12, <1>13, <1>15, ScopeAssumption DEF InScope, IInv, PlaceInv
    <2>2. CASE h = g
      <3>1. \A p \in Resolvers : p # r /\ res[p].gen = g => res[p].carried = <<>>
        BY <1>1, <1>2, OnePlace DEF IInv, ResolutionInv, ResolutionOk, At
      <3>2. InScope(q, g) <=> q \in G
        BY <3>1, <1>1, <1>3, <1>14, LedgerFacts DEF InScope
      <3>3. ~InScope(q, g)'
        BY <3>1, <1>3, <1>6, <1>8, <1>10, <1>12, <1>13, LedgerFacts DEF InScope
      <3>. QED
        BY <2>2, <3>2, <3>3
    <2>. QED
      BY <2>1, <2>2
  <1>18. \A q \in Resolvers : res'[q].gen = res[q].gen
    BY <1>6, <1>8
  <1>19. PlaceInv'
    BY <1>2, <1>15, <1>16, <1>17, <1>18, PlaceGone
  <1>20. TypeOK'
    <2>1. closing' \in [Ids -> Gens \cup {None}]
      BY <1>2, TaskFacts DEF Unregister
    <2>. QED
      BY <2>1, <1>2, <1>8, <1>12, <1>13, <1>16 DEF IInv, TypeOK
  <1>21. CountInv'
    BY <1>2, <1>6, <1>8, <1>13, AdmissionCount DEF Guards
  <1>22. ResolutionInv'
    <2>1. \A h \in Gens : /\ ctx[h].state # "Unused" => ctx'[h].state # "Unused"
                          /\ ctx'[h].id = ctx[h].id
      BY <1>13
    <2>2. \A q \in Resolvers : fate[q] = "none" => fate'[q] = "none"
      BY <1>15, <1>16
    <2>3. ASSUME NEW q \in Resolvers, q # r PROVE ResolutionOk(q)'
      BY <2>1, <2>2, <2>3, <1>8 DEF IInv, ResolutionInv, ResolutionOk, Used
    <2>4. ResolutionOk(r)'
      BY <2>1, <1>2, <1>4, <1>6, <1>8 DEF ResolutionOk, Used
    <2>. QED
      BY <2>3, <2>4 DEF ResolutionInv
  <1>23. /\ MapInv' /\ \A i \in Ids : closing[i] = None => closing'[i] = None
    <2>1. \A h \in Gens : /\ ctx'[h].id = ctx[h].id /\ ctx'[h].state = ctx[h].state
                          /\ h # g => job'[h].control = job[h].control
      BY <1>12, <1>13
    <2>2. ~job'[g].control /\ Unregister(g) /\ UNCHANGED scopes
      BY <1>2, <1>10, <1>12
    <2>. QED
      BY <2>1, <2>2, UnregisterMap
  <1>24. CleanupInv'
    <2>1. HandoffInv'
      <3>1. \A q \in Resolvers : At(q, "handoff")' =>
                /\ q # r /\ At(q, "handoff") /\ res'[q] = res[q]
                /\ res[q].gen \in Gens /\ res[q].gen # g
        BY <1>1, <1>2, <1>6, <1>8, GenFacts, OnePlace DEF At
      <3>. QED
        BY <3>1, <1>13 DEF IInv, CleanupInv, HandoffInv, At
    <2>2. CleanupOk(g)'
      BY <1>3, <1>10, <1>12, <1>13, TaskFacts DEF CleanupOk
    <2>3. ASSUME NEW h \in Gens, h # g PROVE CleanupOk(h)'
      BY <2>3, <1>12, <1>13, CleanupFrame DEF IInv, CleanupInv, SameTask, SameScope
    <2>. QED
      BY <2>1, <2>2, <2>3 DEF CleanupInv
  <1>25. LockInv'
    <2>1. \A q \in Resolvers : At(q, "create")' /\ res'[q].life = "scoped" =>
              /\ At(q, "create") /\ res[q].life = "scoped"
              /\ res'[q].gen = res[q].gen /\ res[q].gen \in Gens
      BY <1>6, <1>8, GenFacts DEF At
    <2>2. \A h \in Gens : ctx'[h].creating = ctx[h].creating /\ ctx'[h].cached = ctx[h].cached
      BY <1>13
    <2>. QED
      BY <2>1, <2>2 DEF IInv, LockInv
  <1>26. NormalInv'
    <2>1. ASSUME NEW h \in Gens, h # g PROVE NormalOk(h)'
      <3>1. NormalOk(h) /\ job'[h] = job[h] /\ ctx'[h] = ctx[h]
        BY <2>1, <1>12, <1>13 DEF IInv, NormalInv
      <3>2. \A q \in Resolvers : res[q].gen = h => fate'[q] = fate[q]
        BY <2>1, <1>15, <1>16
      <3>3. Settled(h) => Settled(h)'
        BY <3>1, <3>2, <1>18 DEF Settled
      <3>. QED
        BY <3>1, <3>2, <3>3, <1>18 DEF NormalOk
    <2>2. NormalOk(g)'
      <3>1. ASSUME job[g].terminal = "NORMAL" PROVE Settled(g)' /\ job[g].detached
        <4>1. Settled(g) /\ job[g].detached
          BY <3>1, TaskFacts DEF NormalOk
        <4>2. \A q \in Resolvers : res[q].gen = g => fate[q] \in {"none", "disposed"} /\ q \notin G
          BY <4>1, <1>3, <1>15, LedgerFacts DEF Settled
        <4>. QED
          BY <4>1, <4>2, <1>16, <1>18 DEF Settled
      <3>. QED
        BY <3>1, <1>3, <1>10, <1>12, <1>13 DEF NormalOk
    <2>. QED
      BY <2>1, <2>2 DEF NormalInv
  <1>27. WatchInv'
    BY <1>2, <1>10, <1>12, <1>13, WatchFrame DEF IInv
  <1>28. ShutdownInv'
    <2>1. ScopesGone => ScopesGone'
      BY <1>2 DEF ScopesGone
    <2>2. TasksGone => TasksGone'
      BY <1>10, <1>12, <1>23 DEF TasksGone
    <2>3. \A q \in Resolvers : res[q].pc \in {"idle", "recheck", "done"} =>
              res'[q].pc \in {"idle", "recheck", "done"}
      BY <1>2, <1>8
    <2>. QED
      BY <2>1, <2>2, <2>3, <1>2, ShutdownFrame DEF IInv
  <1>. QED
    BY <1>19, <1>20, <1>21, <1>22, <1>23, <1>24, <1>25, <1>26, <1>27, <1>28 DEF IInv

-----------------------------------------------------------------------------
(* Scopes begin and end                                                    *)

\* The next generation has not been used and nothing refers to it.
LEMMA NextGeneration ==
    ASSUME IInv, Cardinality(Used) < MaxGens
    PROVE  \E g \in Gens : /\ g = Cardinality(Used) + 1
                           /\ ctx[g].state = "Unused"
                           /\ \A r \in Resolvers : res[r].gen # g
                           /\ Used \cup {g} = 1..g
PROOF
  <1>1. PICK n \in 0..MaxGens : Used = 1..n
    BY DEF IInv, MapInv
  <1>2. MaxGens \in Nat /\ n \in Nat /\ n \in Int /\ 1 \in Int
    BY <1>1, ScopeAssumption
  <1>3. Cardinality(1..n) = IF 1 > n THEN 0 ELSE n - 1 + 1
    BY <1>2, FS_Interval
  <1>4. Cardinality(Used) = n /\ n < MaxGens
    BY <1>1, <1>2, <1>3
  <1>5. PICK g \in Gens : g = n + 1 /\ g \notin 1..n /\ (1..n) \cup {g} = 1..g
    <2>1. n + 1 \in Gens /\ n + 1 \notin 1..n /\ (1..n) \cup {n + 1} = 1..(n + 1)
      BY <1>2, <1>4 DEF Gens
    <2>. QED
      BY <2>1
  <1>6. g \notin Used /\ g # None
    BY <1>1, <1>5, ScopeAssumption
  <1>7. ctx[g].state = "Unused"
    BY <1>6 DEF Used
  <1>8. \A r \in Resolvers : res[r].gen # g
    BY <1>6 DEF IInv, ResolutionInv, ResolutionOk
  <1>. QED
    BY <1>1, <1>4, <1>5, <1>7, <1>8

\* A scope is opened as the next generation.
LEMMA CreateScopeStep ==
    ASSUME IInv, NEW i \in Ids, CreateScope(i) PROVE IInv'
PROOF
  <1>1. PICK g \in Gens : /\ g = Cardinality(Used) + 1
                          /\ ctx[g].state = "Unused"
                          /\ \A r \in Resolvers : res[r].gen # g
                          /\ Used \cup {g} = 1..g
    BY NextGeneration DEF CreateScope
  <1>2. /\ accepting /\ scopes[i] = None /\ closing[i] = None
        /\ scopes' = [scopes EXCEPT ![i] = g]
        /\ ctx' = [ctx EXCEPT ![g] = [NoScope EXCEPT !.id = i, !.state = "Open"]]
        /\ owner' = [owner EXCEPT ![g] = "open"]
        /\ UNCHANGED <<closing, accepting, job, observer, res, fate, provider, roots,
                       shutdown, late>>
    BY <1>1 DEF CreateScope, shutVars
  <1>3. g # None
    BY ScopeAssumption
  <1>4. /\ job[g].pc = "none" /\ ~job[g].control /\ job[g].terminal = "OPEN"
        /\ ctx[g].ledger = <<>> /\ ctx[g].inFlight = 0 /\ ~job[g].detached
        /\ job[g].held = <<>>
    BY <1>1, TaskFacts DEF CleanupOk, Jobs
  <1>5. /\ ctx' \in [Gens -> Contexts] /\ \A h \in Gens : h # g => ctx'[h] = ctx[h]
        /\ ctx'[g].id = i /\ ctx'[g].state = "Open" /\ ctx'[g].ledger = <<>>
        /\ ctx'[g].inFlight = 0 /\ ctx'[g].handoff = "none"
        /\ ctx'[g].creating = None
    <2>1. PICK c : c = [NoScope EXCEPT !.id = i, !.state = "Open"]
      OBVIOUS
    <2>2. /\ c \in Contexts /\ c.id = i /\ c.state = "Open" /\ c.ledger = <<>>
          /\ c.inFlight = 0 /\ c.handoff = "none" /\ c.creating = None
      <3>1. Cardinality(Resolvers) \in Nat
        BY ScopeAssumption, FS_CardinalityType
      <3>2. 0 \in 0..Cardinality(Resolvers)
        BY <3>1
      <3>3. c = [id |-> i, state |-> "Open", inFlight |-> 0, cached |-> None, ledger |-> <<>>,
                 creating |-> None, permit |-> FALSE, handoff |-> "none"]
        BY <2>1 DEF NoScope
      <3>. QED
        BY <3>2, <3>3, LedgerFacts DEF Contexts
    <2>3. ctx' = [ctx EXCEPT ![g] = c]
      BY <1>2, <2>1
    <2>. QED
      BY <2>2, <2>3, TaskFacts
  <1>6. /\ scopes' \in [Ids -> Gens \cup {None}] /\ scopes'[i] = g
        /\ \A k \in Ids : k # i => scopes'[k] = scopes[k]
        /\ owner' \in [Gens -> OwnerStates] /\ owner'[g] = "open"
        /\ \A h \in Gens : h # g => owner'[h] = owner[h]
    BY <1>2 DEF IInv, TypeOK, OwnerStates
  <1>7. TypeOK'
    BY <1>2, <1>5, <1>6 DEF IInv, TypeOK
  <1>8. CountInv'
    BY <1>2, <1>4, <1>5, CountFrame DEF IInv
  <1>9. ResolutionInv'
    BY <1>1, <1>2, <1>5, ResolutionFrame DEF IInv
  <1>10. Used' = Used \cup {g}
    BY <1>5 DEF Used
  <1>11. MapInv'
    <2>1. \E n \in 0..MaxGens : Used' = 1..n
      BY <1>1, <1>10, ScopeAssumption DEF Gens
    <2>2. \A h \in Used' : ctx'[h].id \in Ids
      BY <1>1, <1>5, <1>10 DEF IInv, MapInv, Used
    <2>3. \A k \in Ids : /\ scopes[k] # None => scopes[k] \in Gens /\ scopes[k] # g
                         /\ closing[k] # None => closing[k] \in Gens /\ closing[k] # g
      BY <1>1, <1>4 DEF IInv, TypeOK, MapInv
    <2>4. \A k \in Ids : scopes'[k] # None =>
              ctx'[scopes'[k]].state = "Open" /\ ctx'[scopes'[k]].id = k /\ closing'[k] = None
      BY <2>3, <1>2, <1>5, <1>6 DEF IInv, MapInv
    <2>5. \A k \in Ids : closing'[k] # None =>
              job'[closing'[k]].control /\ ctx'[closing'[k]].id = k
      BY <2>3, <1>2, <1>5 DEF IInv, MapInv
    <2>6. ASSUME NEW h \in Gens, ctx'[h].state = "Open" PROVE scopes'[ctx'[h].id] = h
      <3>1. CASE h = g
        BY <3>1, <1>5, <1>6
      <3>2. CASE h # g
        <4>1. ctx[h].state = "Open" /\ ctx[h].id \in Ids /\ scopes[ctx[h].id] = h /\ h # None
          BY <2>6, <3>2, <1>5, ScopeAssumption DEF IInv, MapInv, Used
        <4>. QED
          BY <4>1, <3>2, <1>2, <1>5, <1>6
      <3>. QED
        BY <3>1, <3>2
    <2>7. \A h \in Gens : job'[h].control => h \in Used' /\ closing'[ctx'[h].id] = h
      BY <1>2, <1>4, <1>5, <1>10 DEF IInv, MapInv
    <2>. QED
      BY <2>1, <2>2, <2>4, <2>5, <2>6, <2>7 DEF MapInv
  <1>12. CleanupInv'
    <2>1. HandoffInv'
      BY <1>1, <1>2, <1>5, GenFacts, HandoffFrame DEF IInv, CleanupInv
    <2>2. CleanupOk(g)'
      BY <1>2, <1>4, <1>5 DEF CleanupOk
    <2>3. ASSUME NEW h \in Gens, h # g PROVE CleanupOk(h)'
      BY <2>3, <1>2, <1>5, CleanupFrame DEF IInv, CleanupInv, SameTask, SameScope
    <2>. QED
      BY <2>1, <2>2, <2>3 DEF CleanupInv
  <1>13. LockInv'
    <2>1. \A r \in Resolvers : At(r, "create")' /\ res'[r].life = "scoped" =>
              ctx'[res'[r].gen].creating = r
      BY <1>1, <1>2, <1>5, GenFacts DEF IInv, LockInv, At
    <2>2. \A h \in Gens : ctx'[h].creating # None => ctx'[h].cached = None
      BY <1>5 DEF IInv, LockInv
    <2>. QED
      BY <2>1, <2>2 DEF LockInv
  <1>14. PlaceInv'
    <2>1. \A h \in Gens : ctx'[h].ledger = ctx[h].ledger /\ job'[h].held = job[h].held
      BY <1>2, <1>4, <1>5
    <2>. QED
      BY <2>1, <1>2, GenFacts, PlaceFrame DEF IInv
  <1>15. NormalInv'
    BY <1>1, <1>2, <1>5, NormalFrame DEF IInv, SameTask
  <1>16. WatchInv'
    <2>1. g \notin Used /\ \A h \in Used : h \in Gens
      BY <1>1 DEF Used
    <2>2. observer.pc # "idle" => observer.gen \in Gens
      BY <2>1 DEF IInv, WatchInv
    <2>. QED
      BY <2>1, <2>2, <1>2, <1>6, <1>10 DEF IInv, WatchInv, InTask
  <1>17. ShutdownInv'
    <2>1. shutdown \in {"none", "stop"} /\ provider.state \in {"Running", "Closing"}
      BY <1>2 DEF IInv, ShutdownInv
    <2>. QED
      BY <2>1, <1>2 DEF IInv, ShutdownInv, RootStages
  <1>. QED
    BY <1>7, <1>8, <1>9, <1>11, <1>12, <1>13, <1>14, <1>15, <1>16, <1>17 DEF IInv

\* What becomes of a generation whose cleanup begins, and of all others.
LEMMA CleanupBegun ==
    ASSUME IInv, NEW gs \in SUBSET Live, BeginCleanup(gs)
    PROVE  /\ scopes' \in [Ids -> Gens \cup {None}] /\ closing' \in [Ids -> Gens \cup {None}]
           /\ ctx' \in [Gens -> Contexts] /\ job' \in [Gens -> Jobs] /\ UNCHANGED accepting
           /\ gs \in SUBSET Gens
           /\ \A g \in Gens : g \notin gs => ctx'[g] = ctx[g] /\ job'[g] = job[g]
           /\ \A g \in gs :
                 /\ ctx[g].state = "Open" /\ ctx[g].id \in Ids /\ scopes[ctx[g].id] = g
                 /\ job[g].pc = "none" /\ ~job[g].control /\ ~job[g].detached
                 /\ job[g].held = <<>> /\ job[g].terminal = "OPEN"
                 /\ ctx[g].handoff \notin {"installed", "taken"}
                 /\ job'[g].pc = "start" /\ job'[g].control /\ job'[g].terminal = "OPEN"
                 /\ ~job'[g].detached /\ job'[g].held = <<>>
                 /\ ctx'[g].state = "Closing" /\ ctx'[g].id = ctx[g].id
                 /\ ctx'[g].inFlight = ctx[g].inFlight /\ ctx'[g].ledger = ctx[g].ledger
                 /\ ctx'[g].handoff = ctx[g].handoff /\ ctx'[g].creating = ctx[g].creating
                 /\ ctx'[g].cached = ctx[g].cached
           /\ \A i \in Ids : IF scopes[i] \in gs
                             THEN closing'[i] = scopes[i] /\ scopes'[i] = None
                             ELSE closing'[i] = closing[i] /\ scopes'[i] = scopes[i]
PROOF
  <1>1. gs \in SUBSET Gens
    BY DEF Live, Used
  <1>2. /\ ctx' = [g \in Gens |-> IF g \in gs THEN [ctx[g] EXCEPT !.state = "Closing"] ELSE ctx[g]]
        /\ closing' = [i \in Ids |-> IF scopes[i] \in gs THEN scopes[i] ELSE closing[i]]
        /\ scopes' = [i \in Ids |-> IF scopes[i] \in gs THEN None ELSE scopes[i]]
        /\ job' = [g \in Gens |-> IF g \in gs THEN Scheduled(g) ELSE job[g]]
        /\ UNCHANGED accepting
    BY DEF BeginCleanup
  <1>3. /\ scopes' \in [Ids -> Gens \cup {None}] /\ closing' \in [Ids -> Gens \cup {None}]
        /\ \A i \in Ids : IF scopes[i] \in gs
                          THEN closing'[i] = scopes[i] /\ scopes'[i] = None
                          ELSE closing'[i] = closing[i] /\ scopes'[i] = scopes[i]
    BY <1>1, <1>2 DEF IInv, TypeOK
  <1>4. ASSUME NEW g \in gs
        PROVE  /\ Scheduled(g) \in Jobs
               /\ Scheduled(g).pc = "start" /\ Scheduled(g).control
               /\ Scheduled(g).terminal = "OPEN" /\ ~Scheduled(g).detached
               /\ Scheduled(g).held = <<>>
    <2>1. PICK b \in BOOLEAN : b = (ctx[g].inFlight = 0)
      OBVIOUS
    <2>2. PICK j : j = [NoJob EXCEPT !.pc = "start", !.control = TRUE, !.abortSafe = b]
      OBVIOUS
    <2>3. /\ j \in Jobs /\ j.pc = "start" /\ j.control = TRUE /\ j.terminal = "OPEN"
          /\ j.detached = FALSE /\ j.held = <<>>
      BY <2>2, LedgerFacts DEF Jobs, NoJob, TaskSteps
    <2>4. Scheduled(g) = j
      BY <2>1, <2>2 DEF Scheduled
    <2>. QED
      BY <2>3, <2>4
  <1>5. ASSUME NEW g \in gs
        PROVE  LET c == [ctx[g] EXCEPT !.state = "Closing"]
               IN  /\ c \in Contexts /\ c.state = "Closing" /\ c.id = ctx[g].id
                   /\ c.inFlight = ctx[g].inFlight /\ c.ledger = ctx[g].ledger
                   /\ c.handoff = ctx[g].handoff /\ c.creating = ctx[g].creating
                   /\ c.cached = ctx[g].cached
    <2>1. ctx[g] \in Contexts
      BY <1>1 DEF IInv, TypeOK
    <2>. QED
      BY <2>1 DEF Contexts
  <1>6. /\ ctx' \in [Gens -> Contexts]
        /\ \A g \in gs : ctx'[g] = [ctx[g] EXCEPT !.state = "Closing"]
        /\ \A g \in Gens : g \notin gs => ctx'[g] = ctx[g]
    BY <1>1, <1>2, <1>5 DEF IInv, TypeOK
  <1>7. /\ job' \in [Gens -> Jobs]
        /\ \A g \in gs : job'[g] = Scheduled(g)
        /\ \A g \in Gens : g \notin gs => job'[g] = job[g]
    BY <1>1, <1>2, <1>4 DEF IInv, TypeOK
  <1>8. ASSUME NEW g \in gs
        PROVE  /\ ctx[g].state = "Open" /\ ctx[g].id \in Ids /\ scopes[ctx[g].id] = g
               /\ job[g].pc = "none" /\ ~job[g].control /\ ~job[g].detached
               /\ job[g].held = <<>> /\ job[g].terminal = "OPEN"
               /\ ctx[g].handoff \notin {"installed", "taken"}
    <2>1. g \in Gens /\ g \in Live
      BY <1>1
    <2>2. ctx[g].state = "Open" /\ ctx[g].id \in Ids /\ scopes[ctx[g].id] = g
      BY <2>1, LiveScopes DEF IInv
    <2>. QED
      BY <2>1, <2>2, TaskFacts DEF CleanupOk
  <1>. QED
    BY <1>1, <1>2, <1>3, <1>4, <1>5, <1>6, <1>7, <1>8

\* A cleanup that begins keeps what is said of maps, tasks and instances.
LEMMA BeginCleanupKeeps ==
    ASSUME IInv, NEW gs \in SUBSET Live, BeginCleanup(gs),
           UNCHANGED <<res, fate, provider, roots>>,
           shutdown' = "disposing" <=> shutdown = "disposing"
    PROVE  /\ CountInv' /\ ResolutionInv' /\ MapInv' /\ CleanupInv' /\ LockInv'
           /\ PlaceInv' /\ NormalInv' /\ Used' = Used
PROOF
  <1>1. \A g \in Gens : /\ ctx'[g].inFlight = ctx[g].inFlight /\ ctx'[g].id = ctx[g].id
                        /\ ctx'[g].ledger = ctx[g].ledger /\ ctx'[g].handoff = ctx[g].handoff
                        /\ ctx'[g].creating = ctx[g].creating /\ ctx'[g].cached = ctx[g].cached
                        /\ ctx'[g].state = "Unused" <=> ctx[g].state = "Unused"
                        /\ ctx'[g].state = "Closed" <=> ctx[g].state = "Closed"
                        /\ job'[g].held = job[g].held /\ job'[g].terminal = job[g].terminal
                        /\ job'[g].detached = job[g].detached
    BY CleanupBegun, TaskFacts DEF Jobs
  <1>2. Used' = Used
    BY <1>1 DEF Used
  <1>3. CountInv'
    BY <1>1, CountFrame DEF IInv
  <1>4. ResolutionInv'
    BY <1>1, ResolutionFrame DEF IInv
  <1>5. MapInv'
    <2>1. None \notin gs /\ gs \in SUBSET Gens
      BY ScopeAssumption, CleanupBegun
    <2>2. /\ \E n \in 0..MaxGens : Used' = 1..n
          /\ \A g \in Used' : ctx'[g].id \in Ids
      BY <1>1, <1>2 DEF IInv, MapInv, Used
    <2>3. \A i \in Ids : /\ scopes[i] # None => scopes[i] \in Gens
                         /\ closing[i] # None => closing[i] \in Gens /\ closing[i] \notin gs
      BY CleanupBegun DEF IInv, TypeOK, MapInv
    <2>4. ASSUME NEW i \in Ids, scopes'[i] # None
          PROVE  ctx'[scopes'[i]].state = "Open" /\ ctx'[scopes'[i]].id = i /\ closing'[i] = None
      <3>1. scopes[i] \notin gs /\ scopes'[i] = scopes[i] /\ closing'[i] = closing[i]
        BY <2>4, CleanupBegun
      <3>2. ctx[scopes[i]].state = "Open" /\ ctx[scopes[i]].id = i /\ closing[i] = None
        BY <2>4, <3>1 DEF IInv, MapInv
      <3>3. ctx'[scopes[i]] = ctx[scopes[i]]
        BY <2>3, <2>4, <3>1, CleanupBegun
      <3>. QED
        BY <3>1, <3>2, <3>3
    <2>5. ASSUME NEW i \in Ids, closing'[i] # None
          PROVE  job'[closing'[i]].control /\ ctx'[closing'[i]].id = i
      <3>1. CASE scopes[i] \in gs
        <4>1. closing'[i] = scopes[i] /\ scopes[i] # None
          BY <3>1, <2>1, CleanupBegun
        <4>2. job'[scopes[i]].control /\ ctx'[scopes[i]].id = ctx[scopes[i]].id
          BY <3>1, CleanupBegun
        <4>3. ctx[scopes[i]].id = i
          BY <4>1 DEF IInv, MapInv
        <4>. QED
          BY <4>1, <4>2, <4>3
      <3>2. CASE scopes[i] \notin gs
        <4>1. closing'[i] = closing[i]
          BY <3>2, CleanupBegun
        <4>2. closing[i] \in Gens /\ closing[i] \notin gs
          BY <4>1, <2>3, <2>5
        <4>3. job'[closing[i]] = job[closing[i]] /\ ctx'[closing[i]] = ctx[closing[i]]
          BY <4>2, CleanupBegun
        <4>4. job[closing[i]].control /\ ctx[closing[i]].id = i
          BY <4>1, <2>5 DEF IInv, MapInv
        <4>. QED
          BY <4>1, <4>3, <4>4
      <3>. QED
        BY <3>1, <3>2
    <2>6. ASSUME NEW g \in Gens, ctx'[g].state = "Open" PROVE scopes'[ctx'[g].id] = g
      <3>1. g \notin gs /\ ctx[g].state = "Open"
        BY <2>6, CleanupBegun
      <3>2. ctx[g].id \in Ids /\ scopes[ctx[g].id] = g
        BY <3>1 DEF IInv, MapInv, Used
      <3>3. scopes'[ctx[g].id] = g
        BY <3>1, <3>2, CleanupBegun
      <3>. QED
        BY <3>3, <1>1
    <2>7. ASSUME NEW g \in Gens, job'[g].control
          PROVE  g \in Used' /\ closing'[ctx'[g].id] = g
      <3>1. CASE g \in gs
        <4>1. ctx[g].state = "Open" /\ ctx[g].id \in Ids /\ scopes[ctx[g].id] = g
          BY <3>1, CleanupBegun
        <4>2. closing'[ctx[g].id] = g
          BY <3>1, <4>1, CleanupBegun
        <4>. QED
          BY <4>1, <4>2, <1>1, <1>2 DEF Used
      <3>2. CASE g \notin gs
        <4>1. job[g].control
          BY <3>2, <2>7, CleanupBegun
        <4>2. g \in Used /\ closing[ctx[g].id] = g /\ ctx[g].id \in Ids /\ g # None
          BY <4>1, ScopeAssumption DEF IInv, MapInv
        <4>3. scopes[ctx[g].id] = None
          BY <4>2 DEF IInv, MapInv
        <4>4. closing'[ctx[g].id] = g
          BY <4>2, <4>3, <2>1, CleanupBegun
        <4>. QED
          BY <4>2, <4>4, <1>1, <1>2
      <3>. QED
        BY <3>1, <3>2
    <2>. QED
      BY <2>2, <2>4, <2>5, <2>6, <2>7 DEF MapInv
  <1>6. CleanupInv'
    <2>1. HandoffInv'
      BY <1>1, GenFacts, HandoffFrame DEF IInv, CleanupInv
    <2>2. ASSUME NEW g \in Gens, g \notin gs PROVE CleanupOk(g)'
      <3>1. ctx'[g] = ctx[g] /\ job'[g] = job[g]
        BY <2>2, CleanupBegun
      <3>. QED
        BY <3>1, CleanupFrame DEF IInv, CleanupInv, SameTask, SameScope
    <2>3. ASSUME NEW g \in gs PROVE CleanupOk(g)'
      BY CleanupBegun DEF CleanupOk
    <2>. QED
      BY <2>1, <2>2, <2>3 DEF CleanupInv
  <1>7. LockInv'
    BY <1>1, GenFacts, LockFrame DEF IInv
  <1>8. PlaceInv'
    BY <1>1, GenFacts, PlaceFrame DEF IInv
  <1>9. NormalInv'
    <2>1. ASSUME NEW g \in Gens PROVE NormalOk(g)'
      <3>1. Settled(g) => Settled(g)'
        BY <1>1 DEF Settled
      <3>2. CASE g \in gs
        BY <3>2, CleanupBegun, TaskFacts DEF NormalOk
      <3>3. CASE g \notin gs
        <4>1. ctx'[g] = ctx[g] /\ job'[g] = job[g]
          BY <3>3, CleanupBegun
        <4>. QED
          BY <3>1, <4>1, TaskFacts DEF NormalOk
      <3>. QED
        BY <3>2, <3>3
    <2>. QED
      BY <2>1 DEF NormalInv
  <1>. QED
    BY <1>2, <1>3, <1>4, <1>5, <1>6, <1>7, <1>8, <1>9

\* A scope is closed or dropped by its owner.
LEMMA OwnerClosesStep ==
    ASSUME IInv, NEW g \in Gens, NEW waits \in BOOLEAN, OwnerCloses(g, waits) PROVE IInv'
PROOF
  <1>1. PICK gs \in SUBSET Live : gs = {g} \cap Live
    OBVIOUS
  <1>2. /\ owner[g] = "open" /\ BeginCleanup(gs)
        /\ UNCHANGED <<observer, res, fate, provider, roots, shutdown, late>>
    BY <1>1 DEF OwnerCloses, shutVars
  <1>3. PICK o \in {"dropped", "waiting", "forced"} : owner' = [owner EXCEPT ![g] = o]
    BY DEF OwnerCloses
  <1>4. /\ owner' \in [Gens -> OwnerStates] /\ owner'[g] \in {"dropped", "waiting", "forced"}
        /\ \A h \in Gens : h # g => owner'[h] = owner[h]
    BY <1>3 DEF IInv, TypeOK, OwnerStates
  <1>5. TypeOK'
    BY <1>2, <1>4, CleanupBegun DEF IInv, TypeOK
  <1>6. /\ CountInv' /\ ResolutionInv' /\ MapInv' /\ CleanupInv' /\ LockInv'
        /\ PlaceInv' /\ NormalInv' /\ Used' = Used
    BY <1>2, BeginCleanupKeeps
  <1>7. WatchInv'
    <2>1. \A h \in Gens : job[h].pc = "joined" => job'[h] = job[h]
      BY <1>2, CleanupBegun
    <2>2. g \in Used /\ \A h \in Used : h \in Gens
      BY <1>2 DEF IInv, WatchInv, Used
    <2>3. observer.pc # "idle" => observer.gen \in Gens
      BY <2>2 DEF IInv, WatchInv
    <2>. QED
      BY <2>1, <2>2, <2>3, <1>2, <1>4, <1>6 DEF IInv, WatchInv, InTask
  <1>8. ShutdownInv'
    <2>1. ASSUME ScopesGone PROVE gs = {}
      <3>1. \A h \in Live : FALSE
        BY <2>1, LiveScopes, ScopeAssumption DEF IInv, ScopesGone
      <3>. QED
        BY <3>1
    <2>2. ScopesGone => ScopesGone'
      BY <2>1, <1>2, CleanupBegun DEF ScopesGone
    <2>3. ScopesGone /\ TasksGone => TasksGone'
      BY <2>1, <1>2, CleanupBegun DEF TasksGone
    <2>4. UNCHANGED accepting
      BY <1>2, CleanupBegun
    <2>. QED
      BY <2>2, <2>3, <2>4, <1>2, ShutdownFrame DEF IInv
  <1>. QED
    BY <1>5, <1>6, <1>7, <1>8 DEF IInv

\* Shutdown closes every scope that is left.
LEMMA ScopesTimeOutStep ==
    ASSUME IInv, ScopesTimeOut PROVE IInv'
PROOF
  <1>1. PICK gs \in SUBSET Live : gs = Live
    OBVIOUS
  <1>2. /\ shutdown = "scopes" /\ BeginCleanup(gs) /\ late' = TRUE /\ shutdown' = "tasks"
        /\ UNCHANGED <<owner, observer, res, fate, provider, roots>>
    BY <1>1 DEF ScopesTimeOut, ShutGoto, watchVars
  <1>3. TypeOK'
    BY <1>2, CleanupBegun DEF IInv, TypeOK, ShutSteps
  <1>4. /\ CountInv' /\ ResolutionInv' /\ MapInv' /\ CleanupInv' /\ LockInv'
        /\ PlaceInv' /\ NormalInv' /\ Used' = Used
    BY <1>2, BeginCleanupKeeps
  <1>5. WatchInv'
    <2>1. \A h \in Gens : job[h].pc = "joined" => job'[h] = job[h]
      BY <1>2, CleanupBegun
    <2>2. \A h \in Gens : ctx[h].state # "Unused" => ctx'[h].state # "Unused"
      BY <1>4 DEF Used
    <2>. QED
      BY <2>1, <2>2, <1>2, WatchFrame DEF IInv
  <1>6. ScopesGone'
    BY <1>1, <1>2, LiveScopes, CleanupBegun DEF IInv, ScopesGone
  <1>7. ShutdownInv'
    <2>1. UNCHANGED accepting
      BY <1>2, CleanupBegun
    <2>. QED
      BY <2>1, <1>2, <1>6 DEF IInv, ShutdownInv, RootStages
  <1>. QED
    BY <1>3, <1>4, <1>5, <1>7 DEF IInv

-----------------------------------------------------------------------------
(* The theorems                                                            *)

\* Nothing exists at the start.
LEMMA InitStep == Init => IInv
PROOF
  <1>. SUFFICES ASSUME Init PROVE IInv
    OBVIOUS
  <1>. USE DEF Init
  <1>1. /\ \A g \in Gens : ctx[g] = NoScope /\ job[g] = NoJob /\ owner[g] = "none"
        /\ \A r \in Resolvers : /\ res[r].pc = "idle" /\ res[r].gen = None /\ res[r].life = None
                                /\ res[r].carried = <<>> /\ fate[r] = "none"
        /\ \A i \in Ids : scopes[i] = None /\ closing[i] = None
    OBVIOUS
  <1>2. /\ NoScope.state = "Unused" /\ NoScope.inFlight = 0 /\ NoScope.ledger = <<>>
        /\ NoScope.creating = None /\ NoScope.cached = None /\ NoScope.handoff = "none"
        /\ NoJob.pc = "none" /\ NoJob.control = FALSE /\ NoJob.terminal = "OPEN"
        /\ NoJob.detached = FALSE /\ NoJob.held = <<>>
    BY DEF NoScope, NoJob
  <1>3. TypeOK
    <2>1. 0 \in 0..Cardinality(Resolvers)
      <3>1. Cardinality(Resolvers) \in Nat
        BY ScopeAssumption, FS_CardinalityType
      <3>. QED
        BY <3>1
    <2>2. NoScope \in Contexts
      BY <2>1, LedgerFacts DEF NoScope, Contexts
    <2>3. NoJob \in Jobs
      BY LedgerFacts DEF NoJob, Jobs, TaskSteps
    <2>4. [pc |-> "idle", life |-> None, id |-> None, gen |-> None, carried |-> <<>>]
              \in Resolutions
      BY LedgerFacts DEF Resolutions, ResSteps
    <2>5. observer \in Observations /\ provider \in Providers
      BY <2>1 DEF Observations, Providers
    <2>6. roots \in [ledger : Ledgers, held : Ledgers]
      BY LedgerFacts
    <2>7. ctx \in [Gens -> Contexts] /\ job \in [Gens -> Jobs] /\ res \in [Resolvers -> Resolutions]
      BY <2>2, <2>3, <2>4
    <2>. QED
      BY <2>5, <2>6, <2>7 DEF TypeOK, OwnerStates, ShutSteps
  <1>4. Used = {}
    BY <1>1, <1>2 DEF Used
  <1>5. CountInv
    <2>1. \A g \in Gens : Guards(g) = {}
      BY <1>1 DEF Guards
    <2>2. Admitted = {}
      BY <1>1 DEF Admitted
    <2>3. Cardinality({}) = 0
      BY FS_EmptySet
    <2>. QED
      BY <2>1, <2>2, <2>3, <1>1, <1>2 DEF CountInv
  <1>6. ResolutionInv
    BY <1>1 DEF ResolutionInv, ResolutionOk
  <1>7. MapInv
    <2>1. \E n \in 0..MaxGens : Used = 1..n
      <3>1. 1..0 = {} /\ 0 \in 0..MaxGens
        BY ScopeAssumption
      <3>. QED
        BY <3>1, <1>4
    <2>. QED
      BY <2>1, <1>1, <1>2, <1>4 DEF MapInv
  <1>8. CleanupInv
    BY <1>1, <1>2 DEF CleanupInv, CleanupOk, HandoffInv, At
  <1>9. LockInv
    BY <1>1, <1>2 DEF LockInv, At
  <1>10. PlaceInv
    BY <1>1, <1>2, LedgerFacts DEF PlaceInv, InScope, InRoot
  <1>11. NormalInv
    BY <1>1, <1>2, ScopeAssumption DEF NormalInv, NormalOk
  <1>12. WatchInv
    BY <1>1 DEF WatchInv
  <1>13. ShutdownInv
    BY DEF ShutdownInv, RootStages
  <1>. QED
    BY <1>3, <1>5, <1>6, <1>7, <1>8, <1>9, <1>10, <1>11, <1>12, <1>13 DEF IInv

\* A resolution's steps.
LEMMA ResolverStep ==
    ASSUME IInv, NEW r \in Resolvers, ResolverRuns(r) \/ FactoryEnds(r) PROVE IInv'
BY RecheckStep, LookupStep, EnterStep, LockStep, LeaveStep, CompleteHandoffStep, ReleaseStep,
   PublishScopedStep, PublishRootStep, DisposeOvertakenStep,
   ResolutionFailsStep, InitializationCancelledStep
   DEF ResolverRuns, FactoryEnds

\* The steps of a generation's cleanup and of those who wait for it.
LEMMA GenerationStep ==
    ASSUME IInv, NEW g \in Gens,
           \/ TaskRuns(g) \/ DisposerEnds(g) \/ TaskDropped(g)
           \/ DecideAbort(g) \/ OwnerExpires(g) \/ OwnerReturns(g) \/ Observe(g)
    PROVE  IInv'
BY CountResolutionsStep, TaskWakesStep, DetachLedgerStep, LoadTerminalStep, ClaimNormalStep,
   FinishStep, TaskJoinedStep, DisposerEndsStep, TaskDroppedStep, DecideAbortStep,
   OwnerExpiresStep, OwnerReturnsStep, ObserveStep
   DEF TaskRuns

\* The steps of the shutdown and of the observer.
LEMMA ShutdownStep ==
    ASSUME IInv, ObserverClaims \/ ObserverReturns \/ BeginShutdown \/ ShutdownRuns
    PROVE  IInv'
BY ObserverClaimsStep, ObserverReturnsStep, BeginShutdownStep, StopAcceptingStep,
   ScopesDrainedStep, ScopesTimeOutStep, TasksDrainedStep, TasksTimeOutStep, CountRetainedStep,
   YieldedStep, CheckResolutionsStep, ShutdownWakesStep, ResolutionsTimeOutStep, TakeRootsStep,
   RootsDisposedStep
   DEF ShutdownRuns

\* Every step keeps the invariant.
LEMMA NextStep == IInv /\ [Next]_vars => IInv'
PROOF
  <1>. SUFFICES ASSUME IInv, [Next]_vars PROVE IInv'
    OBVIOUS
  <1>1. ASSUME NEW i \in Ids, CreateScope(i) PROVE IInv'
    BY <1>1, CreateScopeStep
  <1>2. ASSUME NEW g \in Gens, NEW waits \in BOOLEAN, OwnerCloses(g, waits) PROVE IInv'
    BY <1>2, OwnerClosesStep
  <1>3. ASSUME NEW r \in Resolvers, NEW i \in Ids, NEW life \in LifeOf[r], Ask(r, life, i)
        PROVE  IInv'
    BY <1>3, AskStep
  <1>4. CASE UNCHANGED vars
    <2>1. /\ TypeOK' /\ CountInv' /\ ResolutionInv' /\ MapInv' /\ LockInv' /\ WatchInv'
      BY <1>4 DEF vars, scopeVars, watchVars, shutVars, IInv, TypeOK, CountInv, Guards, Admitted,
                  ResolutionInv, ResolutionOk, MapInv, Used, LockInv, At, WatchInv, InTask
    <2>2. CleanupInv' /\ PlaceInv' /\ NormalInv' /\ ShutdownInv'
      BY <1>4 DEF vars, scopeVars, watchVars, shutVars, IInv, CleanupInv, CleanupOk, HandoffInv,
                  At, PlaceInv, InScope, InRoot, NormalInv, NormalOk, Settled, ShutdownInv,
                  ScopesGone, TasksGone
    <2>. QED
      BY <2>1, <2>2 DEF IInv
  <1>. QED
    BY <1>1, <1>2, <1>3, <1>4, ResolverStep, GenerationStep, ShutdownStep DEF Next

\* The invariant holds in every behaviour of the container.
THEOREM Inductive == Spec => []IInv
PROOF
  <1>. QED
    BY InitStep, NextStep, PTL DEF Spec

\* Type correctness: no resolution counter goes below zero or beyond the number
\* of resolutions, and no instance is entered twice in a ledger.
THEOREM TypeCorrect == Spec => []TypeOK
PROOF
  <1>1. IInv => TypeOK
    BY DEF IInv
  <1>. QED
    BY <1>1, Inductive, PTL

\* A published instance has exactly one owner until it is disposed of, however
\* its cleanup task, its resolution or its caller ends (cache_any,
\* track_transient, ScopeResolutionGuard::drop, dispose_removed_scope,
\* ScopeCleanupTaskRegistration::release).
THEOREM OneOwner == Spec => []OwnedExactlyOnce
PROOF
  <1>. QED
    BY OwnedOnce, Inductive, PTL

\* An ID is not used again before the generation that had it is quiet
\* (create_scope_with_context, remove_cleanup_registration).
THEOREM IdReserved == Spec => []IdIsReservedUntilQuiet
PROOF
  <1>. QED
    BY FreeIdIsQuiet, Inductive, PTL

\* Root services are disposed of when nothing can use them any more
\* (perform_shutdown, shutdown_root_lifecycle_before).
THEOREM RootLast == Spec => []RootDisposalIsLast
PROOF
  <1>. QED
    BY RootIsLast, Inductive, PTL

\* Who is told that a cleanup is over finds it over, and who is told Ok finds
\* every service disposed (wait_until, wait_for_cleanup_completion,
\* wait_for_observed_scope_cleanup_before).
THEOREM ReturnsAreQuiet == Spec => []ReturnMeansQuiet
PROOF
  <1>. QED
    BY ReturnIsQuiet, Inductive, PTL
=============================================================================
