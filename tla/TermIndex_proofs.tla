--------------------------- MODULE TermIndex_proofs ---------------------------
(***************************************************************************)
(* What the term index keeps for every directory, every set of texts and    *)
(* every number of identities: the status command never calls an index      *)
(* ready that is not the index of the files as they are.                    *)
(*                                                                         *)
(* The argument is the identity of the source.  An index carries the one it *)
(* was built under, at most the identity of now; whatever may change the    *)
(* files takes a new identity, one above, and the identities end in none.   *)
(***************************************************************************)
EXTENDS TermIndex, FiniteSetTheorems, SequenceTheorems, TLAPS

(* The index that carries the identity of now is the one of the files as    *)
(* they are, and says of their size what is true.                           *)
IndexIsTrue ==
    (cacheable /\ token_match) =>
        /\ index.state = "READY" => index = Built /\ Fits(Built)
        /\ index.state = "LIMIT" => ~Fits(Built)

TokenInv ==
    /\ token \in 0 .. TokenMax
    /\ cacheable /\ index.valid => index.token \in 1 .. token
IndexInv == TokenInv /\ IndexIsTrue

-----------------------------------------------------------------------------
(* What a step may do to the source and the index.                          *)
Kept == files' = files /\ token' = token /\ index' = index
Emptied == \E state \in {"EMPTY", "UNCACHEABLE"} : index' = Empty(state)
Remade == files' = files /\ (Publishes \/ Overflows)
Renewing == token' = Renewed(token) /\ (index' = index \/ Emptied)
Forgotten == files' = files /\ token' = token /\ Emptied
SourceStep == Kept \/ Remade \/ Renewing \/ Forgotten

(* An operation of the file system that reports neither success nor a fault *)
(* has changed nothing.                                                     *)
LEMMA RefusalChangesNothing ==
    ASSUME NEW n, NEW m, NEW d,
           NEW o \in yan_fs_create(n, d) \cup yan_fs_replace(n, d)
                        \cup yan_fs_remove(n) \cup yan_fs_rename(n, m),
           o.result \notin {"OK", "IO"}
    PROVE  o.files = files
<1>1. \A r : \A x \in Refused(r) : x.files = files
  BY DEF Refused
<1>2. \A new : \A x \in Commit(new) : x.result \in {"OK", "IO"}
  BY DEF Commit
<1>3. CASE o \in yan_fs_create(n, d)
  <2>1. (\E r : o \in Refused(r)) \/ (\E new : o \in Commit(new))
    BY <1>3 DEF yan_fs_create, Placed
  <2> QED BY <2>1, <1>1, <1>2
<1>4. CASE o \in yan_fs_replace(n, d)
  <2>1. (\E r : o \in Refused(r)) \/ (\E new : o \in Commit(new))
    BY <1>4 DEF yan_fs_replace
  <2> QED BY <2>1, <1>1, <1>2
<1>5. CASE o \in yan_fs_remove(n)
  <2>1. (\E r : o \in Refused(r)) \/ (\E new : o \in Commit(new))
    BY <1>5 DEF yan_fs_remove
  <2> QED BY <2>1, <1>1, <1>2
<1>6. CASE o \in yan_fs_rename(n, m)
  <2>1. (\E r : o \in Refused(r)) \/ (\E new : o \in Commit(new))
    BY <1>6 DEF yan_fs_rename
  <2> QED BY <2>1, <1>1, <1>2
<1> QED BY <1>3, <1>4, <1>5, <1>6

(* An operation of the file system is refused and changes nothing, or takes *)
(* a new identity.                                                          *)
LEMMA ChangedStep ==
    ASSUME NEW n, NEW m, NEW d, NEW S,
           S \in {yan_fs_create(n, d), yan_fs_replace(n, d),
                  yan_fs_remove(n), yan_fs_rename(n, m)},
           Changed(S)
    PROVE  SourceStep
<1>1. PICK o \in S : /\ files' = o.files
                     /\ token' = IF o.result \in {"OK", "IO"} THEN Renewed(token) ELSE token
  BY DEF Changed
<1>2. index' = index
  BY DEF Changed, cache
<1>3. CASE o.result \in {"OK", "IO"}
  BY <1>1, <1>2, <1>3 DEF SourceStep, Renewing
<1>4. CASE o.result \notin {"OK", "IO"}
  <2>1. o.files = files
    BY <1>4, RefusalChangesNothing
  <2> QED BY <1>1, <1>2, <1>4, <2>1 DEF SourceStep, Kept
<1> QED BY <1>3, <1>4

(* A read that fails takes a new identity.                                  *)
LEMMA ReadStep ==
    ASSUME NEW S, ReadFails(S) PROVE token' = Renewed(token)
BY DEF ReadFails, fault_io, source_identity_allocate

(* A build that meets a read error leaves no index under the identity of    *)
(* now.                                                                     *)
LEMMA BuildFailsStep == ASSUME BuildFails PROVE Renewing
<1>1. Emptied
  BY DEF BuildFails, Emptied
<1>2. token' = Renewed(token)
  BY ReadStep DEF BuildFails
<1> QED BY <1>1, <1>2 DEF Renewing

(* Every step of a query is one of the four.                                *)
LEMMA SearchingStep == ASSUME Searching PROVE SourceStep
<1> USE DEF Stored, Unread
<1>1. CASE Qualify
  <2>1. files' = files /\ index' = index
    BY <1>1 DEF Qualify
  <2>2. token' = token \/ token' = Renewed(token)
    BY <1>1, ReadStep DEF Qualify
  <2> QED BY <2>1, <2>2 DEF SourceStep, Kept, Renewing
<1>2. CASE Decide
  BY <1>2 DEF Decide, SourceStep, Kept, Forgotten, Emptied
<1>3. CASE Build
  <2>1. files' = files
    BY <1>3 DEF Build
  <2>2. Publishes \/ Overflows \/ BuildFails
    BY <1>3 DEF Build
  <2> QED BY <2>1, <2>2, BuildFailsStep DEF SourceStep, Remade
<1>4. CASE index_search_locked
  BY <1>4 DEF index_search_locked, SourceStep, Kept
<1>5. CASE linear_query_locked
  <2>1. files' = files /\ index' = index
    BY <1>5 DEF linear_query_locked
  <2>2. token' = token \/ token' = Renewed(token)
    BY <1>5, ReadStep DEF linear_query_locked
  <2> QED BY <2>1, <2>2 DEF SourceStep, Kept, Renewing
<1>6. CASE search_match
  <2>1. files' = files /\ index' = index
    BY <1>6 DEF search_match
  <2>2. token' = token \/ token' = Renewed(token)
    BY <1>6 DEF search_match, fault_io, source_identity_allocate
  <2> QED BY <2>1, <2>2 DEF SourceStep, Kept, Renewing
<1>7. CASE Stopped \/ Summary
  BY <1>7 DEF Stopped, Summary, SourceStep, Kept
<1> QED BY <1>1, <1>2, <1>3, <1>4, <1>5, <1>6, <1>7 DEF Searching

(* So is every command of the shell.                                        *)
LEMMA CommandsStep == ASSUME Commands PROVE SourceStep
<1> USE DEF Stored, Unread, Guarded, Begin
<1>1. CASE run_search_terms
  BY <1>1 DEF run_search_terms, cache, SourceStep, Kept
<1>2. CASE run_rebuild
  <2>1. files' = files
    BY <1>2 DEF run_rebuild
  <2>2. CASE disk # "mounted"
    BY <1>2, <2>2 DEF run_rebuild, SourceStep, Kept
  <2>3. CASE disk = "mounted" /\ ~cacheable
    <3>1. index' = Empty("UNCACHEABLE") /\ token' = token
      BY <1>2, <2>3 DEF run_rebuild
    <3> QED BY <2>1, <3>1 DEF SourceStep, Forgotten, Emptied
  <2>4. CASE disk = "mounted" /\ cacheable
    <3>1. Publishes \/ Overflows \/ BuildFails
      BY <1>2, <2>4 DEF run_rebuild
    <3> QED BY <2>1, <3>1, BuildFailsStep DEF SourceStep, Remade
  <2> QED BY <2>2, <2>3, <2>4
<1>3. CASE run_index_status
  BY <1>3 DEF run_index_status, SourceStep, Kept
<1>4. CASE run_index_clear
  BY <1>4 DEF run_index_clear, SourceStep, Forgotten, Emptied
<1>5. CASE run_grep
  <2>1. files' = files /\ index' = index
    BY <1>5 DEF run_grep
  <2>2. token' = token \/ token' = Renewed(token)
    BY <1>5 DEF run_grep, fault_io, source_identity_allocate
  <2> QED BY <2>1, <2>2 DEF SourceStep, Kept, Renewing
<1> QED BY <1>1, <1>2, <1>3, <1>4, <1>5 DEF Commands

(* So is every step of the storage, a detach and a mount included.          *)
LEMMA StorageStep == ASSUME Storage PROVE SourceStep
<1>1. CASE CreateFile
  BY <1>1, ChangedStep DEF CreateFile
<1>2. CASE ReplaceFile
  BY <1>2, ChangedStep DEF ReplaceFile
<1>3. CASE RemoveFile
  BY <1>3, ChangedStep DEF RemoveFile
<1>4. CASE RenameFile
  BY <1>4, ChangedStep DEF RenameFile
<1>5. CASE yan_fs_unmount \/ yan_fs_mount
  BY <1>5 DEF yan_fs_unmount, yan_fs_mount, Mounting, source_identity_allocate, cache,
              SourceStep, Renewing
<1> QED BY <1>1, <1>2, <1>3, <1>4, <1>5 DEF Storage

(* So is every step.                                                        *)
LEMMA StepIsSourceStep == ASSUME [Next]_vars PROVE SourceStep
<1>1. CASE Next
  BY <1>1, SearchingStep, CommandsStep, StorageStep DEF Next
<1>2. CASE UNCHANGED vars
  BY <1>2 DEF vars, guest, cache, SourceStep, Kept
<1> QED BY <1>1, <1>2

-----------------------------------------------------------------------------
(* The identity of now belongs to no older index.                           *)

(* A new identity is one above the old, unless the identities have run out. *)
LEMMA RenewedIsNew ==
    ASSUME TokenInv, token' = Renewed(token), token' # 0
    PROVE  token # 0 /\ token' = token + 1 /\ token' <= TokenMax
BY TermAssumption DEF TokenInv, Renewed

(* The invariant holds at the start.                                        *)
LEMMA IndexInit == ASSUME Init PROVE IndexInv
<1>1. token = 1 /\ ~index.valid
  BY DEF Init, Empty
<1>2. token \in 0 .. TokenMax
  BY <1>1, TermAssumption
<1> QED BY <1>1, <1>2 DEF IndexInv, TokenInv, IndexIsTrue, token_match

(* An empty index says nothing that could be wrong.                         *)
LEMMA EmptyIndexIsTrue ==
    ASSUME TokenInv, token' \in {token, Renewed(token)}, Emptied PROVE IndexInv'
<1>1. ~index'.valid
  BY DEF Emptied, Empty
<1>2. token' \in 0 .. TokenMax
  BY TermAssumption DEF TokenInv, Renewed
<1> QED BY <1>1, <1>2 DEF IndexInv, TokenInv, IndexIsTrue, token_match

(* Each of the four kinds of step keeps the invariant.                      *)
LEMMA SourceStepKeeps == ASSUME IndexInv, SourceStep PROVE IndexInv'
<1> USE DEF cacheable
<1>1. CASE Kept
  <2>1. Built' = Built
    BY <1>1 DEF Kept, Built, Text, Taken, PostingsOf
  <2>2. Fits(Built)' = Fits(Built)
    BY <2>1 DEF Fits
  <2> QED BY <1>1, <2>1, <2>2 DEF Kept, IndexInv, TokenInv, IndexIsTrue, token_match
<1>2. CASE Remade
  <2>1. token' = token /\ files' = files
    BY <1>2 DEF Remade, Publishes, Overflows, Unread
  <2>2. Built' = Built
    BY <2>1 DEF Built, Text, Taken, PostingsOf
  <2>3. Fits(Built)' = Fits(Built)
    BY <2>2 DEF Fits
  <2>4. token \in 0 .. TokenMax /\ (token # 0 => token \in 1 .. token)
    BY TermAssumption DEF IndexInv, TokenInv
  <2>5. CASE Publishes
    <3>1. index' = Built /\ Fits(Built) /\ Built.state = "READY" /\ Built.token = token
      BY <2>5 DEF Publishes, Built
    <3> QED BY <2>1, <2>2, <2>3, <2>4, <3>1 DEF IndexInv, TokenInv, IndexIsTrue
  <2>6. CASE Overflows
    <3>1. ~Fits(Built) /\ index'.state = "LIMIT" /\ index'.token = token
      BY <2>6 DEF Overflows, Empty
    <3> QED BY <2>1, <2>3, <2>4, <3>1 DEF IndexInv, TokenInv, IndexIsTrue
  <2> QED BY <1>2, <2>5, <2>6 DEF Remade
<1>3. CASE Renewing /\ index' = index
  <2>1. token' \in 0 .. TokenMax
    BY <1>3, TermAssumption DEF IndexInv, TokenInv, Renewing, Renewed
  <2>2. token' # 0 /\ index'.valid => index'.token \in 1 .. token' /\ index'.token # token'
    <3> SUFFICES ASSUME token' # 0, index'.valid
                 PROVE  index'.token \in 1 .. token' /\ index'.token # token'
      OBVIOUS
    <3>1. token # 0 /\ token' = token + 1 /\ token \in Nat
      BY <1>3, RenewedIsNew, TermAssumption DEF IndexInv, TokenInv, Renewing
    <3>2. index.token \in 1 .. token
      BY <1>3, <3>1 DEF IndexInv, TokenInv
    <3> QED BY <1>3, <3>1, <3>2
  <2> QED BY <2>1, <2>2 DEF IndexInv, TokenInv, IndexIsTrue, token_match
<1>4. CASE (Renewing \/ Forgotten) /\ Emptied
  BY <1>4, EmptyIndexIsTrue DEF IndexInv, Renewing, Forgotten
<1> QED BY <1>1, <1>2, <1>3, <1>4 DEF SourceStep, Renewing, Forgotten

(* An index carries an identity the source had, and the one with that of    *)
(* now is true (os/search_terms_index.c, index_build_locked;                 *)
(* os/yanfs.c, source_identity_allocate).                                   *)
THEOREM IndexInvariance == Spec => []IndexInv
<1>1. Init => IndexInv
  BY IndexInit
<1>2. IndexInv /\ [Next]_vars => IndexInv'
  BY StepIsSourceStep, SourceStepKeeps
<1> QED BY <1>1, <1>2, PTL DEF Spec

(* The status command calls an index ready only when it is the index of the *)
(* files as they are, and reports the limit only when they do not fit.      *)
THEOREM StatusIsCurrentHolds == Spec => []StatusIsCurrent
<1>1. IndexInv => StatusIsCurrent
  <2>1. index_status = "READY" => cacheable /\ token_match /\ index.state = "READY"
    BY DEF index_status
  <2>2. index_status = "LIMIT" => cacheable /\ token_match /\ index.state = "LIMIT"
    BY DEF index_status
  <2> QED BY <2>1, <2>2 DEF IndexInv, IndexIsTrue, StatusIsCurrent
<1> QED BY <1>1, IndexInvariance, PTL
-----------------------------------------------------------------------------
(* The order in which the lines found are shown.                            *)

Above(R, r) == {q \in R : Better(q, r)}
Rankable(R) ==
    /\ IsFiniteSet(R)
    /\ \A r \in R : r.score \in Nat /\ r.slot \in Nat /\ r.line \in Nat
    /\ \A r, q \in R : r.slot = q.slot /\ r.line = q.line => r = q

(* Every rank belongs to a line: no two lines have the same, and none is    *)
(* beyond their number.                                                     *)
LEMMA EveryRankIsTaken ==
    ASSUME NEW R, Rankable(R), NEW k \in 1 .. Cardinality(R)
    PROVE  \E r \in R : Cardinality(Above(R, r)) = k - 1
<1> DEFINE n == Cardinality(R)
           rank == [r \in R |-> Cardinality(Above(R, r))]
<1>1. n \in Nat
  BY FS_CardinalityType DEF Rankable
<1>2. ASSUME NEW r \in R
      PROVE  IsFiniteSet(Above(R, r)) /\ r \notin Above(R, r) /\ rank[r] \in 0 .. (n - 1)
  <2>1. Above(R, r) \in SUBSET R
    BY DEF Above
  <2>2. r \notin Above(R, r)
    BY DEF Above, Better, Rankable
  <2>3. IsFiniteSet(Above(R, r)) /\ Cardinality(Above(R, r)) <= n /\ Cardinality(Above(R, r)) # n
    BY <2>1, <2>2, FS_Subset DEF Rankable
  <2>4. Cardinality(Above(R, r)) \in Nat
    BY <2>3, FS_CardinalityType
  <2> QED BY <1>1, <2>2, <2>3, <2>4
<1>3. ASSUME NEW r \in R, NEW q \in R, Better(r, q) PROVE rank[r] < rank[q]
  <2>1. \A x \in R : Better(x, r) => Better(x, q)
    BY <1>3 DEF Better, Rankable
  <2>2. Above(R, r) \in SUBSET Above(R, q)
    BY <2>1 DEF Above
  <2>3. Above(R, r) # Above(R, q)
    BY <1>2, <1>3 DEF Above
  <2>4. Cardinality(Above(R, r)) <= Cardinality(Above(R, q))
        /\ Cardinality(Above(R, r)) # Cardinality(Above(R, q))
    BY <1>2, <2>2, <2>3, FS_Subset
  <2> QED BY <1>1, <1>2, <2>4
<1>4. ASSUME NEW r \in R, NEW q \in R, rank[r] = rank[q] PROVE r = q
  <2>1. ~Better(r, q) /\ ~Better(q, r)
    BY <1>1, <1>2, <1>3, <1>4
  <2> QED BY <2>1 DEF Better, Rankable
<1>5. rank \in [R -> 0 .. (n - 1)]
  BY <1>2
<1>6. rank \in Injection(R, 0 .. (n - 1))
  BY <1>4, <1>5 DEF Injection, IsInjective
<1>7. IsFiniteSet(0 .. (n - 1)) /\ Cardinality(0 .. (n - 1)) = n
  <2> HIDE DEF n
  <2>1. n - 1 \in Int /\ 0 \in Int
    BY <1>1
  <2>2. /\ IsFiniteSet(0 .. (n - 1))
        /\ Cardinality(0 .. (n - 1)) = IF 0 > n - 1 THEN 0 ELSE (n - 1) - 0 + 1
    BY ONLY <2>1, FS_Interval
  <2> QED BY <1>1, <2>2
<1>8. rank \in Surjection(R, 0 .. (n - 1))
  BY <1>6, <1>7, FS_Injection
<1>9. k - 1 \in 0 .. (n - 1)
  BY <1>1
<1> QED BY <1>8, <1>9 DEF Surjection

(* Every line shown is one of a posting.                                    *)
LEMMA LinesArePostings ==
    ASSUME NEW P, NEW W, IsFiniteSet(P), \A p \in P : p.slot \in Nat /\ p.line \in Nat
    PROVE  \E n \in Nat : /\ DOMAIN LinesWith(P, W) = 1 .. n
                          /\ Len(LinesWith(P, W)) = n
                          /\ \A k \in 1 .. n : \E p \in P : LinesWith(P, W)[k].slot = p.slot
<1> DEFINE hits == {p \in P : p.word \in W}
           Of(s, l) == {p \in hits : p.slot = s /\ p.line = l}
           places == {<<p.slot, p.line>> : p \in hits}
           full == {h \in places : W = {p.word : p \in Of(h[1], h[2])}}
           line(h) == [slot |-> h[1], line |-> h[2], score |-> Cardinality(Of(h[1], h[2])),
                       at |-> CHOOSE a \in {p.at : p \in Of(h[1], h[2])} :
                                   \A p \in Of(h[1], h[2]) : a <= p.at]
           ranked == {line(h) : h \in full}
           n == Cardinality(ranked)
<1>1. LinesWith(P, W) = [k \in 1 .. n |->
            CHOOSE r \in ranked : Cardinality(Above(ranked, r)) = k - 1]
  BY DEF LinesWith, Above
<1>2. IsFiniteSet(hits) /\ \A s, l : IsFiniteSet(Of(s, l)) /\ Cardinality(Of(s, l)) \in Nat
  <2>1. hits \in SUBSET P /\ \A s, l : Of(s, l) \in SUBSET P
    OBVIOUS
  <2> QED BY <2>1, FS_Subset, FS_CardinalityType
<1>3. IsFiniteSet(places)
  <2> DEFINE f == [p \in hits |-> <<p.slot, p.line>>]
  <2>1. f \in Surjection(hits, places)
    BY DEF Surjection
  <2> QED BY <1>2, <2>1, FS_Surjection
<1>4. IsFiniteSet(full)
  <2>1. full \in SUBSET places
    OBVIOUS
  <2> QED BY <1>3, <2>1, FS_Subset
<1>5. IsFiniteSet(ranked)
  <2> DEFINE f == [h \in full |-> line(h)]
  <2> HIDE DEF line
  <2>1. f \in Surjection(full, ranked)
    BY DEF Surjection
  <2> QED BY <1>4, <2>1, FS_Surjection
<1>6. \A h \in full : /\ h[1] \in Nat /\ h[2] \in Nat /\ h = <<h[1], h[2]>>
                      /\ \E p \in P : h[1] = p.slot
  OBVIOUS
<1>7. \A h : /\ line(h).slot = h[1] /\ line(h).line = h[2]
             /\ line(h).score = Cardinality(Of(h[1], h[2]))
  OBVIOUS
<1> HIDE DEF line, full, Of
<1>8. Rankable(ranked)
  BY <1>2, <1>5, <1>6, <1>7 DEF Rankable
<1>9. n \in Nat
  BY <1>5, FS_CardinalityType
<1>10. \A r \in ranked : \E p \in P : r.slot = p.slot
  BY <1>6, <1>7
<1> HIDE DEF ranked
<1>11. \A k \in 1 .. n : LinesWith(P, W)[k] \in ranked
  <2> SUFFICES ASSUME NEW k \in 1 .. n PROVE LinesWith(P, W)[k] \in ranked
    OBVIOUS
  <2>1. \E r \in ranked : Cardinality(Above(ranked, r)) = k - 1
    BY <1>8, EveryRankIsTaken
  <2> QED BY <1>1, <2>1
<1>12. DOMAIN LinesWith(P, W) = 1 .. n
  BY <1>1
<1>13. Len(LinesWith(P, W)) = n
  <2>1. LinesWith(P, W) \in [1 .. n -> ranked]
    BY <1>1, <1>11
  <2>2. LinesWith(P, W) \in Seq(ranked)
    BY <1>9, <2>1, SeqDef
  <2> QED BY <1>9, <1>12, <2>2, LenProperties
<1> QED BY <1>9, <1>10, <1>11, <1>12, <1>13

-----------------------------------------------------------------------------
(* What is true at each step of a query, so that its answer is of the files *)
(* as they are.                                                             *)

Entry == [name : Names \cup {""}, data : Seq(STRING)]
DirectorySound ==
    /\ files \in Seq(Entry)
    /\ \A s, t \in DOMAIN files : files[s].name = files[t].name /\ files[s].name # "" => s = t
    /\ \A s \in DOMAIN files : files[s].name = "" => files[s] = Free

(* The table is of this query, and no header is broken, or nobody asks.     *)
Filtered ==
    /\ armed <=> ask.filter # {}
    /\ armed => BrokenSlots = {} /\ table = QualifiedBefore(Len(files) + 1)

Fresh == cacheable /\ index = Built /\ Fits(Built)
LinesNow == LinesWith(UNION {PostingsOf(s) : s \in Eligible}, ask.words)
Found ==
    [k \in DOMAIN LinesNow |->
        [name |-> files[LinesNow[k].slot].name, line |-> LinesNow[k].line, at |-> LinesNow[k].at]]
Showing ==
    /\ rows = Found
    /\ \E k \in 0 .. Len(LinesNow) : k <= ShownMax /\ said = SubSeq(RowsNow, 1, k)
    /\ mode = "index" => Fresh

Asking == {"qualify", "decide", "build", "lookup", "scan"}
QueryInv ==
    /\ step \in Asking \cup {"idle", "show"}
    /\ armed \in BOOLEAN
    /\ step = "idle" => ~armed
    /\ step = "qualify" => ~armed /\ ask.filter # {}
    /\ step \notin {"idle", "qualify"} => Filtered
    /\ step \in Asking => said = <<>>
    /\ step = "build" => cacheable
    /\ step = "lookup" => Fresh
    /\ step = "show" => Showing

AnswerInv == IndexInv /\ DirectorySound /\ QueryInv

(* The slots of a sound directory are numbered from one and hold entries.   *)
LEMMA FilesAreEntries ==
    ASSUME DirectorySound
    PROVE  /\ Len(files) \in Nat /\ DOMAIN files = 1 .. Len(files)
           /\ \A s \in DOMAIN files : files[s] \in Entry
<1>1. files \in Seq(Entry)
  BY DEF DirectorySound
<1>2. Len(files) \in Nat /\ DOMAIN files = 1 .. Len(files)
  BY <1>1, LenProperties
<1> QED BY <1>1, <1>2, ElementOfSeq

(* The postings of some files: finitely many, each of one of these files.   *)
LEMMA PostingsAreFinite ==
    ASSUME DirectorySound, NEW S \in SUBSET Taken
    PROVE  /\ IsFiniteSet(UNION {PostingsOf(s) : s \in S})
           /\ \A p \in UNION {PostingsOf(s) : s \in S} :
                  p.slot \in S /\ p.slot \in Nat /\ p.line \in Nat
<1>1. DOMAIN files = 1 .. Len(files) /\ Len(files) \in Nat
  BY FilesAreEntries
<1>2. \A s \in DOMAIN files : files[s].data \in Seq(STRING)
  BY FilesAreEntries DEF Entry
<1>3. \A d, i : d \in Seq(STRING) /\ i \in DOMAIN d => LineAt(d, i) \in Nat
  <2> SUFFICES ASSUME NEW d \in Seq(STRING), NEW i \in DOMAIN d PROVE LineAt(d, i) \in Nat
    OBVIOUS
  <2> DEFINE B == {j \in 1 .. i - 1 : d[j] = "LF"}
  <2>1. i - 1 \in Int
    BY LenProperties
  <2>2. IsFiniteSet(1 .. i - 1)
    BY <2>1, FS_Interval
  <2>3. IsFiniteSet(B)
    BY <2>2, FS_Subset
  <2>4. Cardinality(B) \in Nat
    BY <2>3, FS_CardinalityType
  <2> QED BY <2>4 DEF LineAt
<1>4. ASSUME NEW s \in S
      PROVE  /\ IsFiniteSet(PostingsOf(s))
             /\ \A p \in PostingsOf(s) : p.slot = s /\ p.line \in Nat
  <2> DEFINE d == files[s].data
             I == {j \in DOMAIN d : d[j] \in Words}
             posting(i) == [slot |-> s, line |-> LineAt(d, i), at |-> i, word |-> d[i]]
             f == [i \in I |-> posting(i)]
  <2>1. d \in Seq(STRING)
    BY <1>2 DEF Taken
  <2>2. PostingsOf(s) = {posting(i) : i \in I}
    BY DEF PostingsOf
  <2>3. \A p \in PostingsOf(s) : p.slot = s /\ p.line \in Nat
    BY <1>3, <2>1, <2>2
  <2>4. IsFiniteSet(1 .. Len(d)) /\ DOMAIN d = 1 .. Len(d)
    <3>1. Len(d) \in Nat /\ DOMAIN d = 1 .. Len(d)
      BY <2>1, LenProperties
    <3>2. 1 \in Int /\ Len(d) \in Int
      BY <3>1
    <3> QED BY <3>1, <3>2, FS_Interval
  <2>5. IsFiniteSet(I)
    BY <2>4, FS_Subset
  <2> HIDE DEF posting, I
  <2>6. f \in Surjection(I, {posting(i) : i \in I})
    BY DEF Surjection
  <2>7. IsFiniteSet({posting(i) : i \in I})
    BY <2>5, <2>6, FS_Surjection
  <2> QED BY <2>2, <2>3, <2>7
<1>5. IsFiniteSet(S)
  <2>1. 1 \in Int /\ Len(files) \in Int
    BY <1>1
  <2>2. IsFiniteSet(1 .. Len(files))
    BY <2>1, FS_Interval
  <2>3. S \in SUBSET (1 .. Len(files))
    BY <1>1 DEF Taken
  <2> QED BY <2>2, <2>3, FS_Subset
<1>6. IsFiniteSet({PostingsOf(s) : s \in S})
  <2> DEFINE f == [s \in S |-> PostingsOf(s)]
  <2>1. f \in Surjection(S, {PostingsOf(s) : s \in S})
    BY DEF Surjection
  <2> QED BY <1>5, <2>1, FS_Surjection
<1>7. IsFiniteSet(UNION {PostingsOf(s) : s \in S})
  BY <1>4, <1>6, FS_UNION
<1>8. \A s \in S : s \in Nat
  BY <1>1 DEF Taken
<1> QED BY <1>4, <1>7, <1>8

(* The answer of now is a sequence, and its lines are of files that are     *)
(* there and text.                                                          *)
LEMMA LinesNowAreOfFiles ==
    ASSUME DirectorySound
    PROVE  /\ Len(LinesNow) \in Nat /\ DOMAIN LinesNow = 1 .. Len(LinesNow)
           /\ \A k \in DOMAIN LinesNow : LinesNow[k].slot \in Text
<1>1. Eligible \in SUBSET Text /\ Text \in SUBSET Taken
  BY DEF Eligible, Text
<1> DEFINE P == UNION {PostingsOf(s) : s \in Eligible}
<1>2. IsFiniteSet(P) /\ \A p \in P : p.slot \in Eligible /\ p.slot \in Nat /\ p.line \in Nat
  BY <1>1, PostingsAreFinite
<1> HIDE DEF P
<1>3. PICK n \in Nat : /\ DOMAIN LinesWith(P, ask.words) = 1 .. n
                       /\ Len(LinesWith(P, ask.words)) = n
                       /\ \A k \in 1 .. n : \E p \in P : LinesWith(P, ask.words)[k].slot = p.slot
  BY <1>2, LinesArePostings
<1>4. LinesNow = LinesWith(P, ask.words)
  BY DEF LinesNow, P
<1> QED BY <1>1, <1>2, <1>3, <1>4

(* What the table lets through is what the filter asks for.                 *)
LEMMA PassesIsEligible ==
    ASSUME DirectorySound, Filtered, NEW s \in Text
    PROVE  Passes(s) <=> s \in Eligible
<1>1. CASE ~armed
  BY <1>1 DEF Filtered, Passes, Eligible
<1>2. CASE armed
  <2>1. s \in DOMAIN files /\ s \in Taken /\ s < Len(files) + 1
    BY FilesAreEntries DEF Text, Taken
  <2>2. table[s] = linear_qualify_file(s)
    BY <1>2, <2>1 DEF Filtered, QualifiedBefore
  <2>3. table[s] = "ELIGIBLE" <=> ask.filter \subseteq ToSet(parse_head(files[s].data).info.tags)
    BY <2>2 DEF linear_qualify_file
  <2>4. ask.filter # {}
    BY <1>2 DEF Filtered
  <2> QED BY <1>2, <2>3, <2>4 DEF Passes, Eligible
<1> QED BY <1>1, <1>2

(* The invariant of the answers holds at the start.                         *)
LEMMA AnswerInit == ASSUME Init PROVE AnswerInv
<1>1. files \in InitialFiles /\ armed = FALSE /\ step = "idle"
  BY DEF Init
<1>2. DirectorySound
  BY <1>1, FileAssumption DEF DirectorySound, Entry
<1>3. QueryInv
  BY <1>1 DEF QueryInv, Asking
<1> QED BY <1>2, <1>3, IndexInit DEF AnswerInv

-----------------------------------------------------------------------------
(* The directory: what the file system does to it.                          *)

(* A directory that does not change stays sound.                            *)
LEMMA SameDirectory == ASSUME DirectorySound, files' = files PROVE DirectorySound'
BY DEF DirectorySound

(* An entry with one field replaced.                                        *)
LEMMA FieldWritten ==
    ASSUME NEW r \in Entry, NEW v
    PROVE  /\ [r EXCEPT !.name = v] = [name |-> v, data |-> r.data]
           /\ [r EXCEPT !.data = v] = [name |-> r.name, data |-> v]
<1>1. r = [name |-> r.name, data |-> r.data]
  BY DEF Entry
<1> QED BY <1>1

(* An entry with a name that no slot has keeps the directory sound.         *)
LEMMA EntryWritten ==
    ASSUME DirectorySound, NEW x, NEW n \in Names, NEW d \in Seq(STRING), SlotsOf(n) = {},
           files' = [files EXCEPT ![x] = [name |-> n, data |-> d]]
    PROVE  DirectorySound'
<1>1. CASE x \in DOMAIN files
  <2>1. [name |-> n, data |-> d] \in Entry
    BY DEF Entry
  <2>2. files' \in Seq(Entry)
    <3>1. files \in Seq(Entry) /\ x \in 1 .. Len(files)
      BY <1>1, FilesAreEntries DEF DirectorySound
    <3> QED BY <2>1, <3>1, ExceptSeq
  <2>3. DOMAIN files' = DOMAIN files /\ n # ""
    BY FileAssumption
  <2>4. \A s \in DOMAIN files : files[s].name # n
    BY DEF SlotsOf
  <2> QED BY <1>1, <2>2, <2>3, <2>4 DEF DirectorySound
<1>2. CASE x \notin DOMAIN files
  <2>1. files \in [1 .. Len(files) -> Entry]
    BY LenProperties DEF DirectorySound
  <2>2. files' = files
    BY <1>2, <2>1
  <2> QED BY <2>2, SameDirectory
<1> QED BY <1>1, <1>2

(* A slot that is freed keeps it sound.                                     *)
LEMMA EntryEmptied ==
    ASSUME DirectorySound, NEW x \in DOMAIN files, files' = [files EXCEPT ![x] = Free]
    PROVE  DirectorySound'
<1>1. Free \in Entry /\ Free.name = ""
  BY EmptySeq DEF Entry, Free
<1>2. files' \in Seq(Entry)
  BY <1>1, FilesAreEntries, ExceptSeq DEF DirectorySound
<1> QED BY <1>1, <1>2 DEF DirectorySound

(* New contents, or a name that no slot has, keep it sound.                 *)
LEMMA EntryChanged ==
    ASSUME DirectorySound, NEW n \in Names, NEW x \in SlotsOf(n), NEW m \in Names,
           NEW d \in Seq(STRING), m = n \/ SlotsOf(m) = {},
           files' = [files EXCEPT ![x] = [name |-> m, data |-> d]]
    PROVE  DirectorySound'
<1>1. x \in DOMAIN files /\ files[x].name = n /\ n # "" /\ m # ""
  BY FileAssumption DEF SlotsOf
<1>2. CASE m # n
  BY <1>2, EntryWritten
<1>3. CASE m = n
  <2>1. [name |-> m, data |-> d] \in Entry
    BY DEF Entry
  <2>2. files' \in Seq(Entry)
    <3>1. files \in Seq(Entry) /\ x \in 1 .. Len(files)
      BY <1>1, FilesAreEntries DEF DirectorySound
    <3> QED BY <2>1, <3>1, ExceptSeq
  <2>3. \A s \in DOMAIN files : files[s].name = n => s = x
    BY <1>1 DEF DirectorySound
  <2> QED BY <1>1, <1>3, <2>2, <2>3 DEF DirectorySound
<1> QED BY <1>2, <1>3

(* A name that exists is in the slot that the lookup finds.                 *)
LEMMA SlotOfExists == ASSUME NEW n, Exists(n) PROVE SlotOf(n) \in SlotsOf(n)
BY DEF Exists, SlotOf

(* Every operation of the file system keeps the directory sound, whether it *)
(* succeeds, fails or is refused.                                           *)
LEMMA ChangedKeepsDirectory ==
    ASSUME DirectorySound, NEW n \in Names, NEW m \in Names, NEW d \in Seq(STRING), NEW S,
           S \in {yan_fs_create(n, d), yan_fs_replace(n, d),
                  yan_fs_remove(n), yan_fs_rename(n, m)},
           Changed(S)
    PROVE  DirectorySound'
<1>1. PICK o \in S : files' = o.files
  BY DEF Changed
<1>2. d \in Seq(STRING)
  OBVIOUS
<1>3. \A r : \A x \in Refused(r) : x.files = files
  BY DEF Refused
<1>4. \A new : \A x \in Commit(new) : x.files \in {new, files}
  BY DEF Commit
<1>5. files' = files => DirectorySound'
  BY DEF DirectorySound
<1>6. CASE S = yan_fs_create(n, d)
  <2> DEFINE new == [files EXCEPT ![FirstFree] = [name |-> n, data |-> d]]
  <2>1. (\E r : o \in Refused(r)) \/ (~Exists(n) /\ o \in Commit(new))
    BY <1>6 DEF yan_fs_create, Placed
  <2>2. files' = files \/ (~Exists(n) /\ files' = new)
    BY <1>1, <1>3, <1>4, <2>1
  <2> QED BY <1>2, <1>5, <2>2, EntryWritten DEF Exists
<1>7. CASE S = yan_fs_replace(n, d)
  <2> DEFINE new == [files EXCEPT ![SlotOf(n)].data = d]
  <2>1. (\E r : o \in Refused(r)) \/ (Exists(n) /\ o \in Commit(new))
    BY <1>7 DEF yan_fs_replace, yan_fs_stat
  <2>2. files' = files \/ (Exists(n) /\ files' = new)
    BY <1>1, <1>3, <1>4, <2>1
  <2>3. ASSUME Exists(n), files' = new PROVE DirectorySound'
    <3>1. SlotOf(n) \in SlotsOf(n) /\ SlotOf(n) \in DOMAIN files /\ files[SlotOf(n)].name = n
      BY <2>3, SlotOfExists DEF SlotsOf
    <3>2. files[SlotOf(n)] \in Entry
      BY <3>1, FilesAreEntries
    <3>3. [files[SlotOf(n)] EXCEPT !.data = d] = [name |-> n, data |-> d]
      <4> DEFINE r == files[SlotOf(n)]
      <4>1. r \in Entry /\ r.name = n
        BY <3>1, <3>2
      <4> HIDE DEF r
      <4>2. [r EXCEPT !.data = d] = [name |-> r.name, data |-> d]
        BY <4>1, FieldWritten
      <4> QED BY <4>1, <4>2 DEF r
    <3>4. new = [files EXCEPT ![SlotOf(n)] = [name |-> n, data |-> d]]
      BY <3>1, <3>3
    <3> QED BY <1>2, <2>3, <3>1, <3>4, EntryChanged
  <2> QED BY <1>5, <2>2, <2>3
<1>8. CASE S = yan_fs_remove(n)
  <2> DEFINE new == [files EXCEPT ![SlotOf(n)] = Free]
  <2>1. (\E r : o \in Refused(r)) \/ (Exists(n) /\ o \in Commit(new))
    BY <1>8 DEF yan_fs_remove, yan_fs_stat
  <2>2. files' = files \/ (Exists(n) /\ files' = new)
    BY <1>1, <1>3, <1>4, <2>1
  <2> QED BY <1>5, <2>2, SlotOfExists, EntryEmptied DEF SlotsOf
<1>9. CASE S = yan_fs_rename(n, m)
  <2> DEFINE new == [files EXCEPT ![SlotOf(n)].name = m]
  <2>1. (\E r : o \in Refused(r)) \/ (Exists(n) /\ ~Exists(m) /\ o \in Commit(new))
    BY <1>9 DEF yan_fs_rename, FsGuardTwo, yan_fs_stat
  <2>2. files' = files \/ (Exists(n) /\ ~Exists(m) /\ files' = new)
    BY <1>1, <1>3, <1>4, <2>1
  <2>3. ASSUME Exists(n), ~Exists(m), files' = new PROVE DirectorySound'
    <3> DEFINE x == SlotOf(n)
    <3>1. x \in SlotsOf(n) /\ x \in DOMAIN files
      BY <2>3, SlotOfExists DEF SlotsOf
    <3>2. files[x] \in Entry
      BY <3>1, FilesAreEntries
    <3>3. [files[x] EXCEPT !.name = m] = [name |-> m, data |-> files[x].data]
      BY <3>2, FieldWritten
    <3>4. new = [files EXCEPT ![x] = [name |-> m, data |-> files[x].data]]
      BY <3>1, <3>3
    <3>5. files[x].data \in Seq(STRING)
      BY <3>2 DEF Entry
    <3> QED BY <2>3, <3>1, <3>4, <3>5, EntryChanged DEF Exists
  <2> QED BY <1>5, <2>2, <2>3
<1> QED BY <1>6, <1>7, <1>8, <1>9

(* So does every step of the storage.                                       *)
LEMMA StorageKeepsDirectory == ASSUME DirectorySound, Storage PROVE DirectorySound'
<1>1. CASE CreateFile \/ ReplaceFile
  BY <1>1, FileAssumption, ChangedKeepsDirectory DEF CreateFile, ReplaceFile
<1>2. <<>> \in Seq(STRING)
  BY EmptySeq
<1>3. CASE RemoveFile \/ RenameFile
  BY <1>2, <1>3, ChangedKeepsDirectory DEF RemoveFile, RenameFile
<1>4. CASE yan_fs_unmount \/ yan_fs_mount
  BY <1>4 DEF yan_fs_unmount, yan_fs_mount, Mounting, DirectorySound
<1> QED BY <1>1, <1>3, <1>4 DEF Storage

-----------------------------------------------------------------------------
(* The steps of a query.                                                    *)

(* A query that ends leaves nothing to keep.                                *)
LEMMA IdleEnds == ASSUME Idle PROVE QueryInv'
BY DEF Idle, QueryInv, Asking

(* A read error ends the query with FATAL.                                  *)
LEMMA ReadFailsEnds == ASSUME NEW S, ReadFails(S) PROVE QueryInv' /\ verdict' = "FATAL"
BY IdleEnds DEF ReadFails, finish_terms_error, terms_error_is_fatal

(* What a question is told depends on the files and the question only.      *)
LEMMA SameFilesSayTheSame ==
    ASSUME files' = files, token' = token
    PROVE  /\ Built' = Built /\ Fits(Built)' = Fits(Built) /\ BrokenSlots' = BrokenSlots
           /\ Text' = Text
           /\ ask' = ask =>
                /\ QualifiedBefore(Len(files) + 1)' = QualifiedBefore(Len(files) + 1)
                /\ LinesNow' = LinesNow /\ RowsNow' = RowsNow /\ Found' = Found
<1>1. Text' = Text /\ Taken' = Taken /\ BrokenSlots' = BrokenSlots
  BY DEF Text, Taken, BrokenSlots
<1>2. Built' = Built
  BY <1>1 DEF Built, PostingsOf
<1>3. Fits(Built)' = Fits(Built)
  BY <1>2 DEF Fits
<1>4. ASSUME ask' = ask
      PROVE  /\ QualifiedBefore(Len(files) + 1)' = QualifiedBefore(Len(files) + 1)
             /\ LinesNow' = LinesNow /\ RowsNow' = RowsNow /\ Found' = Found
  <2>1. QualifiedBefore(Len(files) + 1)' = QualifiedBefore(Len(files) + 1)
    BY <1>1, <1>4 DEF QualifiedBefore, linear_qualify_file
  <2>2. Eligible' = Eligible
    BY <1>1, <1>4 DEF Eligible
  <2>3. LinesNow' = LinesNow
    BY <1>4, <2>2 DEF LinesNow, PostingsOf
  <2>4. RowsNow' = RowsNow
    BY <2>3, <1>4, <2>2 DEF RowsNow, LinesNow, PostingsOf
  <2>5. Found' = Found
    BY <2>3 DEF Found
  <2> QED BY <2>1, <2>3, <2>4, <2>5
<1> QED BY <1>1, <1>2, <1>3, <1>4

(* The table stays that of the query while the files and the query do.      *)
LEMMA FilteredStays ==
    ASSUME Filtered, files' = files, token' = token, ask' = ask, armed' = armed, table' = table
    PROVE  Filtered'
BY SameFilesSayTheSame DEF Filtered

(* The walk over the headers keeps the invariant: it ends with the whole    *)
(* table, or with a broken header.                                          *)
LEMMA QualifyStep == ASSUME QueryInv, Qualify PROVE QueryInv'
<1> USE DEF Stored, Unread
<1>1. step = "qualify" /\ files' = files
  BY DEF Qualify
<1>2. CASE BrokenSlots = {} /\ table' = QualifiedBefore(Len(files) + 1) /\ armed' = TRUE
           /\ step' = "decide" /\ Unread /\ UNCHANGED <<said, verdict, ask, rows, mode>>
  <2>1. ask.filter # {} /\ said = <<>>
    BY <1>1 DEF QueryInv, Asking
  <2>2. Filtered'
    BY <1>1, <1>2, <2>1, SameFilesSayTheSame DEF Filtered
  <2> QED BY <1>2, <2>1, <2>2 DEF QueryInv, Asking
<1>3. CASE \E s \in BrokenSlots : finish_terms_error("METADATA")
  BY <1>3, IdleEnds DEF finish_terms_error
<1>4. CASE \E s \in Taken : ReadFails({s})
  BY <1>4, ReadFailsEnds
<1> QED BY <1>2, <1>3, <1>4 DEF Qualify

(* A query that goes to the index finds the one of now in it.               *)
LEMMA DecideStep == ASSUME IndexInv, QueryInv, Decide PROVE QueryInv'
<1> USE DEF Stored, Unread
<1>1. /\ step = "decide" /\ files' = files /\ token' = token /\ ask' = ask
      /\ armed' = armed /\ table' = table /\ said' = said
  BY DEF Decide
<1>2. Filtered /\ said = <<>> /\ armed \in BOOLEAN
  BY <1>1 DEF QueryInv, Asking
<1>3. Filtered'
  BY <1>1, <1>2, FilteredStays
<1>4. step' \in {"scan", "lookup", "build"}
  BY DEF Decide
<1>5. step' = "build" => cacheable'
  BY <1>1 DEF Decide, cacheable
<1>6. ASSUME step' = "lookup" PROVE Fresh'
  <2>1. cacheable /\ index.state = "READY" /\ token_match
    BY <1>6 DEF Decide
  <2>2. index' = index /\ index = Built /\ Fits(Built)
    BY <2>1 DEF Decide, IndexInv, IndexIsTrue
  <2> QED BY <1>1, <2>1, <2>2, SameFilesSayTheSame DEF Fresh, cacheable
<1> QED BY <1>1, <1>2, <1>3, <1>4, <1>5, <1>6 DEF QueryInv, Asking

(* A build that succeeds gives the index of now.                            *)
LEMMA BuildStep == ASSUME QueryInv, Build PROVE QueryInv'
<1> USE DEF Stored, Unread
<1>1. step = "build" /\ files' = files /\ table' = table /\ cacheable
  BY DEF Build, QueryInv
<1>2. Filtered /\ said = <<>> /\ armed \in BOOLEAN
  BY <1>1 DEF QueryInv, Asking
<1>3. CASE Publishes /\ step' = "lookup" /\ UNCHANGED <<said, verdict, rows, mode, armed, ask>>
  <2>1. token' = token /\ index' = Built /\ Fits(Built)
    BY <1>3 DEF Publishes
  <2>2. Filtered'
    BY <1>1, <1>2, <1>3, <2>1, FilteredStays
  <2>3. Fresh'
    BY <1>1, <2>1, SameFilesSayTheSame DEF Fresh, cacheable
  <2> QED BY <1>2, <1>3, <2>2, <2>3 DEF QueryInv, Asking
<1>4. CASE Overflows /\ step' = "scan" /\ UNCHANGED <<said, verdict, rows, mode, armed, ask>>
  <2>1. Filtered'
    BY <1>1, <1>2, <1>4, FilteredStays DEF Overflows
  <2> QED BY <1>2, <1>4, <2>1 DEF QueryInv, Asking
<1>5. CASE BuildFails
  BY <1>5, ReadFailsEnds DEF BuildFails
<1> QED BY <1>3, <1>4, <1>5 DEF Build

(* The lines either path finds are those the files say now.                 *)
LEMMA ShowStep ==
    ASSUME DirectorySound, Filtered, said = <<>>, files' = files, token' = token,
           table' = table, index' = index,
           NEW P, NEW named, NEW how, Show(P, named, how), armed \in BOOLEAN,
           P = UNION {PostingsOf(s) : s \in Eligible},
           \A s \in DOMAIN files : named[s] = files[s].name,
           how = "index" => Fresh
    PROVE  QueryInv'
<1>1. /\ step' = "show" /\ ask' = ask /\ said' = said /\ armed' = armed /\ mode' = how
  BY DEF Show
<1>2. Filtered'
  BY <1>1, FilteredStays
<1>3. LinesNow = LinesWith(P, ask.words)
  BY DEF LinesNow
<1>4. \A k \in DOMAIN LinesNow : LinesNow[k].slot \in DOMAIN files
  BY LinesNowAreOfFiles DEF Text, Taken
<1>5. rows' = [k \in DOMAIN LinesNow |-> [name |-> named[LinesNow[k].slot],
                                          line |-> LinesNow[k].line, at |-> LinesNow[k].at]]
  BY <1>3 DEF Show
<1>6. rows' = Found
  BY <1>4, <1>5 DEF Found
<1>7. Len(LinesNow) \in Nat
  BY LinesNowAreOfFiles
<1>8. said' = SubSeq(RowsNow, 1, 0)
  BY <1>1, SubSeqEmpty
<1>9. how = "index" => Fresh'
  BY SameFilesSayTheSame DEF Fresh, cacheable
<1>10. Showing'
  <2>1. 0 \in 0 .. Len(LinesNow) /\ 0 <= ShownMax
    BY <1>7, TermAssumption
  <2>2. Found' = Found /\ RowsNow' = RowsNow /\ LinesNow' = LinesNow
    BY <1>1, SameFilesSayTheSame
  <2> QED BY <1>1, <1>6, <1>8, <1>9, <2>1, <2>2 DEF Showing
<1> QED BY <1>1, <1>2, <1>10 DEF QueryInv, Asking

(* A lookup in the index of now finds the lines there are.                  *)
LEMMA LookupStep ==
    ASSUME DirectorySound, QueryInv, index_search_locked PROVE QueryInv'
<1>1. /\ step = "lookup" /\ files' = files /\ token' = token /\ table' = table /\ index' = index
      /\ Show({p \in index.postings : Passes(p.slot)}, index.names, "index")
  BY DEF index_search_locked, Stored, Unread
<1>2. Filtered /\ said = <<>> /\ Fresh /\ armed \in BOOLEAN
  BY <1>1 DEF QueryInv, Asking
<1> DEFINE P == {p \in index.postings : Passes(p.slot)}
<1>3. index.postings = UNION {PostingsOf(s) : s \in Text}
  BY <1>2 DEF Fresh, Built
<1>4. \A s \in DOMAIN files : index.names[s] = files[s].name
  BY <1>2 DEF Fresh, Built
<1>5. \A s : \A p \in PostingsOf(s) : p.slot = s
  BY DEF PostingsOf
<1>6. Eligible \in SUBSET Text
  BY DEF Eligible
<1>7. P = UNION {PostingsOf(s) : s \in Eligible}
  BY <1>2, <1>3, <1>5, <1>6, PassesIsEligible
<1> QED BY <1>1, <1>2, <1>4, <1>7, ShowStep

(* The linear search finds the same lines.                                  *)
LEMMA ScanStep ==
    ASSUME DirectorySound, QueryInv, linear_query_locked PROVE QueryInv'
<1> DEFINE read == {s \in Taken : Passes(s)}
           named == [s \in DOMAIN files |-> files[s].name]
           P == UNION {PostingsOf(s) : s \in read \cap Text}
<1>1. step = "scan" /\ files' = files /\ table' = table /\ index' = index
  BY DEF linear_query_locked, Stored
<1>2. Filtered /\ said = <<>> /\ armed \in BOOLEAN
  BY <1>1 DEF QueryInv, Asking
<1>3. CASE Show(P, named, "scan") /\ Unread
  <2>1. Eligible \in SUBSET Text /\ Text \in SUBSET Taken
    BY DEF Eligible, Text
  <2>2. read \cap Text = Eligible
    BY <1>2, <2>1, PassesIsEligible
  <2>3. P = UNION {PostingsOf(s) : s \in Eligible}
    BY <2>2
  <2>4. token' = token
    BY <1>3 DEF Unread
  <2> HIDE DEF P
  <2> QED BY <1>1, <1>2, <1>3, <2>3, <2>4, ShowStep
<1>4. CASE ReadFails(read)
  BY <1>4, ReadFailsEnds
<1> QED BY <1>3, <1>4 DEF linear_query_locked

-----------------------------------------------------------------------------
(* The rows go out.                                                         *)

(* The rows of now are a sequence as long as the lines of now.              *)
LEMMA RowsNowIsSequence ==
    ASSUME DirectorySound
    PROVE  /\ RowsNow \in Seq({RowsNow[k] : k \in DOMAIN RowsNow})
           /\ Len(RowsNow) = Len(LinesNow) /\ Len(LinesNow) \in Nat
           /\ DOMAIN LinesNow = 1 .. Len(LinesNow)
<1> DEFINE n == Len(LinesNow)
<1>1. n \in Nat /\ DOMAIN LinesNow = 1 .. n
  BY LinesNowAreOfFiles
<1>2. RowsNow = [k \in DOMAIN LinesNow |->
                    <<files[LinesNow[k].slot].name, LinesNow[k].line,
                      snippet(files[LinesNow[k].slot].data, LinesNow[k].at)>>]
  BY DEF RowsNow, LinesNow
<1>3. DOMAIN RowsNow = 1 .. n
  BY <1>1, <1>2
<1> DEFINE S == {RowsNow[k] : k \in DOMAIN RowsNow}
<1>4. RowsNow \in [1 .. n -> S]
  BY <1>2, <1>3
<1>5. RowsNow \in Seq(S)
  BY <1>1, <1>4, SeqDef
<1>6. Len(RowsNow) = n
  BY <1>1, <1>3, <1>5, LenProperties
<1> QED BY <1>1, <1>5, <1>6

(* While rows go out: how many did, and that the next is the one the files  *)
(* hold.                                                                    *)
LEMMA ShownSoFar ==
    ASSUME DirectorySound, Showing
    PROVE  /\ shown \in Nat /\ shown <= Len(LinesNow) /\ shown <= ShownMax
           /\ said = SubSeq(RowsNow, 1, shown)
           /\ Len(rows) = Len(LinesNow) /\ rows = Found
<1> DEFINE S == {RowsNow[k] : k \in DOMAIN RowsNow}
<1>1. PICK k \in 0 .. Len(LinesNow) : k <= ShownMax /\ said = SubSeq(RowsNow, 1, k)
  BY DEF Showing
<1>2. /\ RowsNow \in Seq(S) /\ Len(RowsNow) = Len(LinesNow) /\ Len(LinesNow) \in Nat
      /\ DOMAIN LinesNow = 1 .. Len(LinesNow)
  BY RowsNowIsSequence
<1> HIDE DEF S
<1>3. \A i \in 1 .. k : RowsNow[i] \in S
  BY <1>2, ElementOfSeq
<1>4. 1 \in Int /\ k \in Int /\ k \in Nat
  BY <1>2
<1>5. Len(SubSeq(RowsNow, 1, k)) = IF 1 <= k THEN k - 1 + 1 ELSE 0
  BY <1>3, <1>4, SubSeqProperties
<1>6. shown = k
  BY <1>1, <1>4, <1>5 DEF shown
<1>7. rows = Found
  BY DEF Showing
<1>8. Len(rows) = Len(LinesNow)
  <2> DEFINE T == {Found[j] : j \in DOMAIN LinesNow}
  <2>1. Found \in [1 .. Len(LinesNow) -> T]
    BY <1>2 DEF Found
  <2>2. Found \in Seq(T)
    BY <1>2, <2>1, SeqDef
  <2>3. DOMAIN Found = 1 .. Len(LinesNow)
    BY <1>2 DEF Found
  <2> QED BY <1>2, <1>7, <2>2, <2>3, LenProperties
<1> QED BY <1>1, <1>2, <1>4, <1>6, <1>7, <1>8

(* The next row to show is the next of the rows of now.                     *)
LEMMA NextRow ==
    ASSUME DirectorySound, Showing, shown < Len(rows)
    PROVE  LET row == rows[shown + 1]
           IN  /\ shown + 1 \in 1 .. Len(RowsNow)
               /\ Exists(row.name)
               /\ <<row.name, row.line, snippet(Data(row.name), row.at)>> = RowsNow[shown + 1]
<1> DEFINE k == shown + 1
           row == rows[k]
           slot == LinesNow[k].slot
<1>1. k \in DOMAIN LinesNow /\ k \in 1 .. Len(RowsNow)
  BY ShownSoFar, RowsNowIsSequence
<1>2. row = [name |-> files[slot].name, line |-> LinesNow[k].line, at |-> LinesNow[k].at]
  BY <1>1, ShownSoFar DEF Found
<1>3. slot \in DOMAIN files /\ files[slot] # Free
  BY <1>1, LinesNowAreOfFiles DEF Text, Taken
<1>4. slot \in SlotsOf(row.name)
  BY <1>2, <1>3 DEF SlotsOf
<1>5. SlotOf(row.name) = slot
  <2>1. SlotOf(row.name) \in DOMAIN files /\ files[SlotOf(row.name)].name = files[slot].name
    BY <1>2, <1>4, SlotOfExists DEF SlotsOf, Exists
  <2> QED BY <1>3, <2>1 DEF DirectorySound
<1>6. RowsNow[k] = <<files[slot].name, LinesNow[k].line, snippet(files[slot].data, LinesNow[k].at)>>
  BY <1>1 DEF RowsNow, LinesNow
<1> QED BY <1>1, <1>2, <1>4, <1>5, <1>6 DEF Exists, Data

(* Showing a row adds the next of the rows of now, or ends with FATAL.      *)
LEMMA MatchStep ==
    ASSUME DirectorySound, QueryInv, search_match
    PROVE  QueryInv' /\ (step' = "idle" => verdict' = "FATAL")
<1> DEFINE row == rows[shown + 1]
           out == <<row.name, row.line, snippet(Data(row.name), row.at)>>
<1>1. step = "show" /\ shown < Len(rows) /\ shown < ShownMax /\ files' = files
      /\ index' = index /\ table' = table
  BY DEF search_match, More, Stored
<1>2. Showing /\ Filtered /\ armed \in BOOLEAN
  BY <1>1 DEF QueryInv
<1>3. Exists(row.name) /\ out = RowsNow[shown + 1] /\ shown + 1 \in 1 .. Len(RowsNow)
  BY <1>1, <1>2, NextRow
<1>4. \/ said' = Append(said, out) /\ Unread /\ UNCHANGED <<step, verdict, rows, mode, armed, ask>>
      \/ fault_io /\ finish_terms_error("IO")
  BY <1>3 DEF search_match
<1>5. CASE fault_io /\ finish_terms_error("IO")
  BY <1>5, IdleEnds DEF finish_terms_error, terms_error_is_fatal
<1>6. CASE said' = Append(said, out) /\ Unread /\ UNCHANGED <<step, verdict, rows, mode, armed, ask>>
  <2>1. token' = token
    BY <1>6 DEF Unread
  <2>2. Found' = Found /\ RowsNow' = RowsNow /\ LinesNow' = LinesNow
    BY <1>1, <1>6, <2>1, SameFilesSayTheSame
  <2> DEFINE S == {RowsNow[k] : k \in DOMAIN RowsNow}
             k == shown + 1
  <2>3. RowsNow \in Seq(S) /\ Len(RowsNow) = Len(LinesNow) /\ Len(LinesNow) \in Nat
    BY RowsNowIsSequence
  <2>4. /\ shown \in Nat /\ said = SubSeq(RowsNow, 1, shown)
        /\ Len(rows) = Len(LinesNow) /\ rows = Found
    BY <1>2, ShownSoFar
  <2> HIDE DEF S
  <2>5. k \in 1 .. Len(RowsNow) /\ k \in k .. Len(RowsNow) /\ k - 1 = shown
        /\ 1 \in 1 .. Len(RowsNow)
    BY <1>3, <2>3, <2>4
  <2>6. SubSeq(RowsNow, 1, k) = SubSeq(RowsNow, 1, k - 1) \o <<RowsNow[k]>>
    BY <2>3, <2>5, SubSeqRecursiveSecond
  <2>7. RowsNow[k] \in S /\ said \in Seq(S)
    <3>1. \A i \in 1 .. Len(RowsNow) : RowsNow[i] \in S
      BY <2>3, ElementOfSeq
    <3>2. \A i \in 1 .. shown : RowsNow[i] \in S
      BY <2>3, <2>4, <2>5, <3>1
    <3>3. 1 \in Int /\ shown \in Int
      BY <2>4
    <3> QED BY <2>4, <2>5, <3>1, <3>2, <3>3, SubSeqProperties
  <2>8. Append(said, out) = said \o <<RowsNow[k]>>
    BY <1>3, <2>7, AppendIsConcat
  <2>9. said' = SubSeq(RowsNow, 1, k)
    BY <1>6, <2>4, <2>5, <2>6, <2>8
  <2>10. k \in 0 .. Len(LinesNow) /\ k <= ShownMax
    BY <1>1, <2>3, <2>4, <2>5, TermAssumption
  <2>11. mode' = "index" => Fresh'
    BY <1>1, <1>2, <1>6, <2>1, SameFilesSayTheSame DEF Showing, Fresh, cacheable
  <2>12. Showing'
    BY <1>6, <2>2, <2>4, <2>9, <2>10, <2>11 DEF Showing
  <2>13. Filtered'
    BY <1>1, <1>2, <1>6, <2>1, FilteredStays
  <2> QED BY <1>1, <1>2, <1>6, <2>12, <2>13 DEF QueryInv, Asking
<1> QED BY <1>4, <1>5, <1>6

(* Every step of a query keeps the directory and the query's part.          *)
LEMMA SearchingKeeps ==
    ASSUME AnswerInv, Searching PROVE DirectorySound' /\ QueryInv'
<1>1. files' = files
  BY DEF Searching, Qualify, Decide, Build, index_search_locked, linear_query_locked,
         search_match, Stopped, Summary, Stored
<1>2. DirectorySound'
  BY <1>1, SameDirectory DEF AnswerInv
<1>3. Stopped \/ Summary => QueryInv'
  BY IdleEnds DEF Stopped, Summary, Finished
<1>4. QueryInv'
  BY <1>3, QualifyStep, DecideStep, BuildStep, LookupStep, ScanStep, MatchStep
     DEF Searching, AnswerInv
<1> QED BY <1>2, <1>4

(* So does every command.                                                   *)
LEMMA CommandsKeep ==
    ASSUME AnswerInv, Commands PROVE DirectorySound' /\ QueryInv'
<1>1. files' = files /\ step = "idle"
  BY DEF Commands, run_search_terms, run_rebuild, run_index_status, run_index_clear, run_grep,
         Guarded, Begin, Stored
<1>2. DirectorySound'
  BY <1>1, SameDirectory DEF AnswerInv
<1> SUFFICES QueryInv'
  BY <1>2
<1>3. CASE run_search_terms
  <2>1. CASE disk # "mounted"
    BY <1>3, <2>1, IdleEnds DEF run_search_terms, Guarded, Finished
  <2>2. CASE disk = "mounted"
    <3>1. PICK words \in Queries, filter \in Filters :
              /\ ask' = [words |-> words, filter |-> filter]
              /\ step' = IF filter = {} THEN "decide" ELSE "qualify"
              /\ said' = <<>> /\ armed' = armed
      BY <1>3, <2>2 DEF run_search_terms, cache
    <3>2. armed = FALSE
      BY <1>1 DEF AnswerInv, QueryInv
    <3>3. ask'.filter = filter
      BY <3>1
    <3>4. step' # "qualify" => Filtered'
      BY <3>1, <3>2, <3>3 DEF Filtered
    <3> QED BY <3>1, <3>2, <3>3, <3>4 DEF QueryInv, Asking
  <2> QED BY <2>1, <2>2
<1>4. CASE run_rebuild
  <2>1. CASE BuildFails
    BY <2>1, ReadFailsEnds DEF BuildFails
  <2>2. CASE ~BuildFails
    <3>1. \E lines, how : Finished(lines, how)
      BY <1>4, <2>2 DEF run_rebuild, Guarded
    <3> QED BY <3>1, IdleEnds DEF Finished
  <2> QED BY <2>1, <2>2
<1>5. CASE run_index_status \/ run_index_clear
  BY <1>5, IdleEnds DEF run_index_status, run_index_clear, Finished
<1>6. CASE run_grep
  <2>1. \E lines, how : Finished(lines, how)
    BY <1>6 DEF run_grep, Guarded
  <2> QED BY <2>1, IdleEnds DEF Finished
<1> QED BY <1>3, <1>4, <1>5, <1>6 DEF Commands

(* So does every step of the storage.                                       *)
LEMMA StorageKeeps ==
    ASSUME AnswerInv, Storage PROVE DirectorySound' /\ QueryInv'
<1>1. DirectorySound'
  BY StorageKeepsDirectory DEF AnswerInv
<1>2. step = "idle" /\ step' = step /\ armed' = armed
  BY DEF Storage, CreateFile, ReplaceFile, RemoveFile, RenameFile, Changed,
         yan_fs_unmount, yan_fs_mount, Mounting, cache, query
<1> QED BY <1>1, <1>2 DEF AnswerInv, QueryInv, Asking

(* So does a step that changes nothing.                                     *)
LEMMA StutterKeeps ==
    ASSUME AnswerInv, UNCHANGED vars PROVE DirectorySound' /\ QueryInv'
<1>1. files' = files /\ token' = token /\ index' = index /\ table' = table /\ armed' = armed
      /\ step' = step /\ ask' = ask /\ rows' = rows /\ mode' = mode /\ said' = said
  BY DEF vars, guest, cache, query
<1>2. DirectorySound'
  BY <1>1, SameDirectory DEF AnswerInv
<1>3. Fresh => Fresh'
  BY <1>1, SameFilesSayTheSame DEF Fresh, cacheable
<1>4. Filtered => Filtered'
  BY <1>1, FilteredStays
<1>5. Showing => Showing'
  BY <1>1, <1>3, SameFilesSayTheSame DEF Showing
<1> QED BY <1>1, <1>2, <1>3, <1>4, <1>5 DEF AnswerInv, QueryInv, Asking, cacheable

(* Every step keeps the invariant of the answers.                           *)
LEMMA AnswerNext == ASSUME AnswerInv, [Next]_vars PROVE AnswerInv'
<1>1. IndexInv'
  BY StepIsSourceStep, SourceStepKeeps DEF AnswerInv
<1>2. DirectorySound' /\ QueryInv'
  BY SearchingKeeps, CommandsKeep, StorageKeeps, StutterKeeps DEF Next
<1> QED BY <1>1, <1>2 DEF AnswerInv

(* The numbers of the summary are those of the files.                       *)
LEMMA SkippedIsTrue ==
    ASSUME DirectorySound, Showing, Filtered, armed \in BOOLEAN
    PROVE  skipped = Cardinality(Taken \ Text)
<1>1. CASE armed
  <2>1. table = QualifiedBefore(Len(files) + 1)
    BY <1>1 DEF Filtered
  <2>2. \A s \in Taken : s < Len(files) + 1 /\ s \in DOMAIN files
    BY FilesAreEntries DEF Taken
  <2>3. \A s : linear_qualify_file(s) = "INVALID" <=> s \notin Text
    BY DEF linear_qualify_file
  <2>4. DOMAIN table = DOMAIN files
        /\ \A s \in DOMAIN files :
               table[s] = IF s \in Taken THEN linear_qualify_file(s) ELSE "TAG"
    BY <2>1, <2>2 DEF QualifiedBefore
  <2>5. {s \in DOMAIN table : table[s] = "INVALID"} = Taken \ Text
    BY <2>2, <2>3, <2>4
  <2> QED BY <1>1, <2>5 DEF skipped
<1>2. CASE ~armed
  BY <1>2 DEF skipped, Showing, Fresh, Built
<1> QED BY <1>1, <1>2

(* The summary comes after all the rows of now that are shown, and an       *)
(* answer by index is by the index of now.                                  *)
LEMMA SummaryIsTrue ==
    ASSUME AnswerInv, Summary
    PROVE  /\ said' = AnswerNow(mode)
           /\ mode = "index" => cacheable /\ Fits(Built)
           /\ ask.filter # {} => BrokenSlots = {}
<1> DEFINE most == IF Len(RowsNow) < ShownMax THEN Len(RowsNow) ELSE ShownMax
<1>1. /\ step = "show" /\ ~(shown < Len(rows) /\ shown < ShownMax)
      /\ said' = Append(said, <<"OK", "search", Len(rows), shown, skipped, mode>>)
  BY DEF Summary, More, Finished
<1>2. DirectorySound /\ Showing /\ Filtered /\ armed \in BOOLEAN
  BY <1>1 DEF AnswerInv, QueryInv
<1>3. Len(RowsNow) = Len(LinesNow) /\ Len(LinesNow) \in Nat
  BY <1>2, RowsNowIsSequence
<1>4. /\ shown \in Nat /\ shown <= Len(LinesNow) /\ shown <= ShownMax
      /\ said = SubSeq(RowsNow, 1, shown) /\ Len(rows) = Len(LinesNow)
  BY <1>2, ShownSoFar
<1>5. shown = most
  BY <1>1, <1>3, <1>4, TermAssumption
<1>6. skipped = Cardinality(Taken \ Text)
  BY <1>2, SkippedIsTrue
<1>7. said' = Append(SubSeq(RowsNow, 1, most),
                     <<"OK", "search", Len(RowsNow), most, Cardinality(Taken \ Text), mode>>)
  BY <1>1, <1>3, <1>4, <1>5, <1>6
<1>8. said' = AnswerNow(mode)
  BY <1>7 DEF AnswerNow
<1> QED BY <1>2, <1>8 DEF Showing, Fresh, Filtered

(* Only the summary ends a query with OK.                                   *)
LEMMA AnswerStep ==
    ASSUME AnswerInv, Next, step = "show", step' = "idle", verdict' = "OK"
    PROVE  Summary
<1>1. ~Commands /\ ~Storage
  BY DEF Commands, run_search_terms, run_rebuild, run_index_status, run_index_clear, run_grep,
         Guarded, Begin, Storage, CreateFile, ReplaceFile, RemoveFile, RenameFile, Changed,
         yan_fs_unmount, yan_fs_mount, Mounting
<1>2. search_match \/ Stopped \/ Summary
  BY <1>1 DEF Next, Searching, Qualify, Decide, Build, index_search_locked, linear_query_locked
<1>3. ~search_match
  BY MatchStep DEF AnswerInv
<1>4. ~Stopped
  BY DEF Stopped, Finished
<1> QED BY <1>2, <1>3, <1>4

(* Every step of a query keeps what its answer rests on: the table is of    *)
(* this query, the rows are those of the files as they are, and so are the  *)
(* lines already printed (os/search_terms_index.c, index_query_with_filter; *)
(* os/search_terms_linear.c, linear_query_locked).                          *)
THEOREM AnswerInvariance == Spec => []AnswerInv
<1>1. Init => AnswerInv
  BY AnswerInit
<1>2. AnswerInv /\ [Next]_vars => AnswerInv'
  BY AnswerNext
<1> QED BY <1>1, <1>2, PTL DEF Spec

(* A search that ends well printed exactly what the files say at that       *)
(* moment, by whichever path, and never over a broken header.               *)
THEOREM AnswersAreCurrentHolds == Spec => AnswersAreCurrent
<1>1. ASSUME AnswerInv, [Next]_vars
      PROVE  [(step = "show" /\ step' = "idle" /\ verdict' = "OK") =>
                /\ said' = AnswerNow(mode)
                /\ mode = "index" => cacheable /\ Fits(Built)
                /\ ask.filter # {} => BrokenSlots = {}]_vars
  BY <1>1, AnswerStep, SummaryIsTrue
<1>2. AnswerInv /\ [Next]_vars =>
          [(step = "show" /\ step' = "idle" /\ verdict' = "OK") =>
                /\ said' = AnswerNow(mode)
                /\ mode = "index" => cacheable /\ Fits(Built)
                /\ ask.filter # {} => BrokenSlots = {}]_vars
  BY <1>1
<1> QED BY <1>2, AnswerInvariance, PTL DEF Spec, AnswersAreCurrent
=============================================================================
