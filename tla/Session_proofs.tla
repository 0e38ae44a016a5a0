---------------------------- MODULE Session_proofs ----------------------------
(***************************************************************************)
(* The application asks for a line only over a mounted storage and a whole *)
(* wire, and what it tells the host at the end is so: for every directory, *)
(* every sequence of commands, every device error and every lost byte.     *)
(*                                                                         *)
(* A command meets a fatal error only with the storage given up or faulted *)
(* (the "outcomes" below), prints it only as fatal, and can otherwise be   *)
(* fatal only by losing the wire.                                          *)
(***************************************************************************)
EXTENDS Session, SequenceTheorems, TLAPS

(* Between two lines, what the verdict, the mode and the last rows promise. *)
Judged ==
    /\ verdict \in {"OK", "EXIT", "FATAL"}
    /\ IF verdict = "FATAL" THEN disk = "faulted" \/ wire = "lost"
       ELSE disk = "mounted" /\ wire = "open"
    /\ ~editing /\ asked[1] # "edit" => ~active
    /\ verdict = "EXIT" => ~active
    /\ verdict = "EXIT" /\ ~editing => said = <<Ok("exit")>>

SInv ==
    /\ active \in BOOLEAN /\ editing \in BOOLEAN
    /\ phase \in {"boot", "prompt", "line", "ran", "over"}
    /\ phase # "over" => code = ""
    /\ phase = "boot" => ~active /\ ~editing /\ wire = "open"
    /\ phase = "ran" => Judged
    /\ EndingsAreTrue

-----------------------------------------------------------------------------
(* What a command tells the application.                                    *)

(* After a command, the storage and the wire are as its verdict says.       *)
Reported(hows) ==
    /\ verdict' \in hows \cup {"FATAL"}
    /\ IF verdict' = "FATAL" THEN disk' = "faulted" \/ wire' = "lost"
       ELSE disk' = "mounted" /\ wire' = "open"

LEMMA SayOutcome ==
    ASSUME NEW out, NEW rows, NEW how, SayAfter(out, rows, how)
    PROVE  \/ said' = out \o rows /\ verdict' = how /\ wire' = wire
           \/ verdict' = "FATAL" /\ wire' = "lost"
BY DEF SayAfter

LEMMA SayReports ==
    ASSUME NEW rows, NEW how \in {"OK", "EXIT"}, Say(rows, how),
           wire = "open", disk' = "mounted"
    PROVE  Reported({how})
<1>1. \/ verdict' = how /\ wire' = wire
      \/ verdict' = "FATAL" /\ wire' = "lost"
  BY SayOutcome DEF Say
<1> QED BY <1>1 DEF Reported

LEMMA ReportedMore ==
    ASSUME NEW hows, NEW more, hows \subseteq more, Reported(hows)
    PROVE  Reported(more)
BY DEF Reported

(* A device error faults the storage before it is printed.                  *)
LEMMA BrokenReports ==
    ASSUME NEW out, NEW rows, SayAfter(out, rows, "FATAL"), disk' = "faulted"
    PROVE  Reported({"OK"})
<1>1. verdict' = "FATAL"
  BY SayOutcome
<1> QED BY <1>1 DEF Reported

LEMMA ErrorReports ==
    ASSUME NEW result, finish_fs_error(result), wire = "open",
           disk' = IF fs_error_is_fatal(result) THEN "faulted" ELSE "mounted"
    PROVE  Reported({"OK"})
<1>1. CASE fs_error_is_fatal(result)
  <2>1. Say(<<Error(result)>>, "FATAL") /\ disk' = "faulted"
    BY <1>1 DEF finish_fs_error
  <2> QED BY <2>1, BrokenReports DEF Say
<1>2. CASE ~fs_error_is_fatal(result)
  <2>1. Say(<<Error(result)>>, "OK") /\ disk' = "mounted"
    BY <1>2 DEF finish_fs_error
  <2> QED BY <2>1, SayReports
<1> QED BY <1>1, <1>2

LEMMA OwnReports ==
    ASSUME NEW token, Own(token), wire = "open", disk = "mounted"
    PROVE  Reported({"OK"})
<1>1. Say(<<Error(token)>>, "OK") /\ disk' = "mounted"
  BY DEF Own
<1> QED BY <1>1, SayReports

(* An operation that fails fatally has faulted the storage, and any other   *)
(* leaves it as it was.                                                     *)
Honest(outcomes) ==
    \A o \in outcomes :
        o.disk = IF fs_error_is_fatal(o.result) THEN "faulted" ELSE disk

LEMMA PerformedReports ==
    ASSUME NEW outcomes, NEW command, Performed(outcomes, command), Honest(outcomes),
           wire = "open", disk = "mounted"
    PROVE  Reported({"OK"})
<1>1. PICK o \in outcomes :
        /\ disk' = o.disk
        /\ IF o.result = "OK" THEN Say(<<Ok(command)>>, "OK") ELSE finish_fs_error(o.result)
  BY DEF Performed
<1>2. disk' = IF fs_error_is_fatal(o.result) THEN "faulted" ELSE "mounted"
  BY <1>1 DEF Honest
<1>3. CASE o.result = "OK"
  <2>1. Say(<<Ok(command)>>, "OK") /\ disk' = "mounted"
    BY <1>1, <1>2, <1>3 DEF fs_error_is_fatal
  <2> QED BY <2>1, SayReports
<1>4. CASE o.result # "OK"
  <2>1. finish_fs_error(o.result)
    BY <1>1, <1>4
  <2> QED BY <2>1, <1>2, ErrorReports
<1> QED BY <1>3, <1>4

(* What reading and parsing may answer; only a device error is fatal.       *)
ReadResults ==
    {"OK", "NOT_FOUND", "INVALID", "METADATA", "INVALID_TEXT", "BLOCK_FORMAT",
     "AMBIGUOUS", "LIMIT", "IO"}

LEMMA AnsweredReports ==
    ASSUME NEW results, results \subseteq ReadResults, NEW rows, Answered(results, rows),
           wire = "open", disk = "mounted"
    PROVE  Reported({"OK"})
<1>1. PICK r \in ReadResults :
        /\ disk' = IF r = "IO" THEN "faulted" ELSE disk
        /\ IF r = "OK" THEN Say(rows, "OK") ELSE finish_fs_error(r)
  BY DEF Answered
<1>2. CASE r = "OK"
  <2>1. Say(rows, "OK") /\ disk' = "mounted"
    BY <1>1, <1>2
  <2> QED BY <2>1, SayReports
<1>3. CASE r # "OK"
  <2>1. finish_fs_error(r)
    BY <1>1, <1>3
  <2>2. disk' = IF fs_error_is_fatal(r) THEN "faulted" ELSE "mounted"
    BY <1>1, <1>3 DEF fs_error_is_fatal, ReadResults
  <2> QED BY <2>1, <2>2, ErrorReports
<1> QED BY <1>2, <1>3

-----------------------------------------------------------------------------
(* The file system and the notes, over a mounted storage.                   *)

LEMMA StatResults ==
    ASSUME NEW n, disk = "mounted"
    PROVE  yan_fs_stat(n) \in {"OK", "NOT_FOUND", "INVALID"}
<1>1. FsGuard(n) \in {"OK", "INVALID"}
  BY DEF FsGuard, Health
<1> QED BY <1>1 DEF yan_fs_stat

LEMMA RefusedHonest ==
    ASSUME NEW result, ~fs_error_is_fatal(result)
    PROVE  Honest(Refused(result))
BY DEF Honest, Refused

LEMMA CommitHonest == ASSUME NEW new PROVE Honest(Commit(new))
BY DEF Honest, Commit, fs_error_is_fatal

LEMMA PlacedHonest == ASSUME NEW n, NEW bytes PROVE Honest(Placed(n, bytes))
<1>1. Honest(Refused("DIRECTORY_FULL")) /\ Honest(Refused("NOSPACE"))
  BY RefusedHonest DEF fs_error_is_fatal
<1>2. CASE SlotsOf("") = {}
  BY <1>1, <1>2 DEF Placed
<1>3. CASE SlotsOf("") # {} /\ ~Room(bytes)
  BY <1>1, <1>3 DEF Placed
<1>4. CASE SlotsOf("") # {} /\ Room(bytes)
  <2>1. PICK new : Placed(n, bytes) = Commit(new)
    BY <1>4 DEF Placed
  <2> QED BY <2>1, CommitHonest
<1> QED BY <1>2, <1>3, <1>4

LEMMA CreateHonest ==
    ASSUME NEW n, NEW bytes, disk = "mounted"
    PROVE  Honest(yan_fs_create(n, bytes))
<1>1. FsGuard(n) \in {"OK", "INVALID"}
  BY DEF FsGuard, Health
<1>2. Honest(Refused("INVALID")) /\ Honest(Refused("EXISTS"))
  BY RefusedHonest DEF fs_error_is_fatal
<1> QED BY <1>1, <1>2, PlacedHonest DEF yan_fs_create

LEMMA StatRefusalHonest ==
    ASSUME NEW n, disk = "mounted"
    PROVE  Honest(Refused(yan_fs_stat(n)))
<1>1. ~fs_error_is_fatal(yan_fs_stat(n))
  BY StatResults DEF fs_error_is_fatal
<1> QED BY <1>1, RefusedHonest

LEMMA ReplaceHonest ==
    ASSUME NEW n, NEW bytes, disk = "mounted"
    PROVE  Honest(yan_fs_replace(n, bytes))
<1>1. Honest(Refused("NOSPACE")) /\ Honest(Refused(yan_fs_stat(n)))
  BY StatRefusalHonest, RefusedHonest DEF fs_error_is_fatal
<1>2. CASE yan_fs_stat(n) # "OK"
  BY <1>1, <1>2 DEF yan_fs_replace
<1>3. CASE yan_fs_stat(n) = "OK" /\ ~Room(bytes)
  BY <1>1, <1>3 DEF yan_fs_replace
<1>4. CASE yan_fs_stat(n) = "OK" /\ Room(bytes)
  <2>1. PICK new : yan_fs_replace(n, bytes) = Commit(new)
    BY <1>4 DEF yan_fs_replace
  <2> QED BY <2>1, CommitHonest
<1> QED BY <1>2, <1>3, <1>4

LEMMA RemoveHonest ==
    ASSUME NEW n, disk = "mounted"
    PROVE  Honest(yan_fs_remove(n))
BY StatRefusalHonest, CommitHonest DEF yan_fs_remove

LEMMA GuardTwoHonest ==
    ASSUME NEW n, NEW m, disk = "mounted"
    PROVE  Honest(Refused(FsGuardTwo(n, m)))
<1>1. FsGuard(m) \in {"OK", "INVALID"}
  BY DEF FsGuard, Health
<1>2. ~fs_error_is_fatal(FsGuardTwo(n, m))
  BY <1>1, StatResults DEF FsGuardTwo, fs_error_is_fatal
<1> QED BY <1>2, RefusedHonest

LEMMA RenameHonest ==
    ASSUME NEW n, NEW m, disk = "mounted"
    PROVE  Honest(yan_fs_rename(n, m))
<1>1. /\ Honest(Refused("OK")) /\ Honest(Refused("EXISTS"))
      /\ Honest(Refused(FsGuardTwo(n, m)))
  BY GuardTwoHonest, RefusedHonest DEF fs_error_is_fatal
<1>2. CASE FsGuardTwo(n, m) # "OK"
  BY <1>1, <1>2 DEF yan_fs_rename
<1>3. CASE FsGuardTwo(n, m) = "OK" /\ n = m
  BY <1>1, <1>3 DEF yan_fs_rename
<1>4. CASE FsGuardTwo(n, m) = "OK" /\ n # m /\ Exists(m)
  BY <1>1, <1>4 DEF yan_fs_rename
<1>5. CASE FsGuardTwo(n, m) = "OK" /\ n # m /\ ~Exists(m)
  <2>1. PICK new : yan_fs_rename(n, m) = Commit(new)
    BY <1>5 DEF yan_fs_rename
  <2> QED BY <2>1, CommitHonest
<1> QED BY <1>2, <1>3, <1>4, <1>5

LEMMA CopyHonest ==
    ASSUME NEW n, NEW m, disk = "mounted"
    PROVE  Honest(yan_fs_copy(n, m))
<1>1. Honest(Refused("EXISTS")) /\ Honest(Refused(FsGuardTwo(n, m)))
  BY GuardTwoHonest, RefusedHonest DEF fs_error_is_fatal
<1> QED BY <1>1, PlacedHonest DEF yan_fs_copy

(* Steps in turn answer what one of them answers.                           *)
LEMMA InTurnWithin ==
    ASSUME NEW steps, NEW R, "OK" \in R, \A k \in DOMAIN steps : steps[k] \subseteq R
    PROVE  InTurn(steps) \subseteq R
BY DEF InTurn

LEMMA ThenWithin ==
    ASSUME NEW first, NEW others, NEW R, first \subseteq R, others \subseteq R
    PROVE  Then(first, others) \subseteq R
BY DEF Then

LEMMA ReadsWithin == ASSUME NEW bytes PROVE Reads(bytes) \subseteq ReadResults
BY DEF Reads, ReadResults

LEMMA HeadWithin == ASSUME NEW bytes PROVE parse_head(bytes).result \in {"OK", "METADATA"}
BY DEF parse_head, parse_header

LEMMA ReadHeadWithin ==
    ASSUME NEW n, disk = "mounted"
    PROVE  read_head(n) \subseteq ReadResults
<1> DEFINE steps == <<Reads(Data(n)), {Head_(n).result}>>
<1>1. Reads(Data(n)) \subseteq ReadResults
  BY ReadsWithin
<1>2. {Head_(n).result} \subseteq ReadResults
  BY HeadWithin DEF Head_, ReadResults
<1>3. \A k \in DOMAIN steps : steps[k] \subseteq ReadResults
  BY <1>1, <1>2
<1> HIDE DEF steps
<1>4. InTurn(steps) \subseteq ReadResults
  BY <1>3, InTurnWithin DEF ReadResults
<1>5. {yan_fs_stat(n)} \subseteq ReadResults
  BY StatResults DEF ReadResults
<1> QED BY <1>4, <1>5 DEF read_head, steps

LEMMA EligibilityWithin ==
    ASSUME NEW bytes
    PROVE  Eligibility(bytes) \in {"OK", "INVALID_TEXT"}
<1>1. \A v : yan_block_text_finish(v) \in {"OK", "INVALID_TEXT"}
  BY DEF yan_block_text_finish
<1> QED BY <1>1 DEF Eligibility

LEMMA FileScanWithin ==
    ASSUME NEW n, disk = "mounted"
    PROVE  file_scan(n) \subseteq ReadResults
<1> DEFINE steps == <<Reads(Data(n)), {Eligibility(Data(n))},
                      {Head_(n).result}, ParserResults \cap {Parsed(n).result}>>
<1>1. Reads(Data(n)) \subseteq ReadResults
  BY ReadsWithin
<1>2. {Head_(n).result} \subseteq ReadResults
  BY HeadWithin DEF Head_, ReadResults
<1>3. {Eligibility(Data(n))} \subseteq ReadResults
  BY EligibilityWithin DEF ReadResults
<1>4. ParserResults \cap {Parsed(n).result} \subseteq ReadResults
  BY DEF ParserResults, ReadResults
<1>5. \A k \in DOMAIN steps : steps[k] \subseteq ReadResults
  BY <1>1, <1>2, <1>3, <1>4
<1> HIDE DEF steps
<1>6. InTurn(steps) \subseteq ReadResults
  BY <1>5, InTurnWithin DEF ReadResults
<1>7. {yan_fs_stat(n)} \subseteq ReadResults
  BY StatResults DEF ReadResults
<1> QED BY <1>6, <1>7 DEF file_scan, steps

LEMMA TargetWithin ==
    ASSUME NEW n, disk = "mounted"
    PROVE  target(n) \subseteq ReadResults
BY FileScanWithin DEF target, ReadResults

-----------------------------------------------------------------------------
(* The commands of the shell.                                               *)

LEMMA StatReports ==
    ASSUME NEW n, run_stat(n), wire = "open", disk = "mounted"
    PROVE  Reported({"OK"})
<1>1. disk' = "mounted"
  BY DEF run_stat
<1>2. CASE yan_fs_stat(n) = "OK"
  <2>1. Say(<<<<"file", n, Len(Data(n))>>, Ok("stat")>>, "OK")
    BY <1>2 DEF run_stat
  <2> QED BY <1>1, <2>1, SayReports
<1>3. CASE yan_fs_stat(n) # "OK"
  <2>1. finish_fs_error(yan_fs_stat(n))
    BY <1>3 DEF run_stat
  <2>2. ~fs_error_is_fatal(yan_fs_stat(n))
    BY StatResults DEF fs_error_is_fatal
  <2> QED BY <1>1, <2>1, <2>2, ErrorReports
<1> QED BY <1>2, <1>3

LEMMA LsReports ==
    ASSUME run_ls, wire = "open", disk = "mounted"
    PROVE  Reported({"OK"})
<1>1. PICK rows : Say(rows, "OK") /\ disk' = "mounted"
  BY DEF run_ls
<1> QED BY <1>1, SayReports

LEMMA CatReports ==
    ASSUME NEW n, run_cat(n), wire = "open", disk = "mounted"
    PROVE  Reported({"OK"})
<1>1. CASE yan_fs_stat(n) # "OK" /\ finish_fs_error(yan_fs_stat(n)) /\ UNCHANGED disk
  <2>1. ~fs_error_is_fatal(yan_fs_stat(n))
    BY StatResults DEF fs_error_is_fatal
  <2> QED BY <1>1, <2>1, ErrorReports
<1>2. CASE Say(<<<<"text", Displayed(Data(n))>>, Ok("cat")>>, "OK") /\ UNCHANGED disk
  BY <1>2, SayReports
<1>3. CASE disk' = "faulted" /\ \E out, rows : SayAfter(out, rows, "FATAL")
  BY <1>3, BrokenReports
<1> QED BY <1>1, <1>2, <1>3 DEF run_cat

LEMMA MetaChangeReports ==
    ASSUME NEW n, NEW change, run_meta_change(n, change), wire = "open", disk = "mounted"
    PROVE  Reported({"OK"})
<1> DEFINE info == Applied(Info(n), change)
           outcomes == CASE info.bad -> Refused("INVALID")
                         [] info = Info(n) -> Refused("OK")
                         [] OTHER -> publish_change(n, info)
           family == IF change.how = "set" THEN "meta set" ELSE "meta " \o change.field
<1>1. Honest(Refused("INVALID")) /\ Honest(Refused("OK")) /\ Honest(Refused("TOO_LARGE"))
      /\ Honest(Refused("INVALID_TEXT"))
  BY RefusedHonest DEF fs_error_is_fatal
<1>2. Honest(publish_change(n, info))
  <2>1. \A bytes : Honest(yan_fs_replace(n, bytes))
    BY ReplaceHonest
  <2> HIDE DEF info
  <2> QED BY <1>1, <2>1 DEF publish_change
<1>3. Honest(outcomes)
  <2> HIDE DEF info
  <2> QED BY <1>1, <1>2
<1>4. CASE n = BadName
  <2>1. Own("USAGE")
    BY <1>4 DEF run_meta_change
  <2> QED BY <2>1, OwnReports
<1>5. CASE n # BadName
  <2>1. PICK r \in read_head(n) :
          IF r = "OK" THEN Performed(outcomes, family)
          ELSE disk' = (IF r = "IO" THEN "faulted" ELSE disk) /\ finish_fs_error(r)
    BY <1>5 DEF run_meta_change
  <2> HIDE DEF outcomes, family
  <2>2. CASE r = "OK"
    <3>1. Performed(outcomes, family)
      BY <2>1, <2>2
    <3> QED BY <1>3, <3>1, PerformedReports
  <2>3. CASE r # "OK"
    <3>1. r \in ReadResults
      BY ReadHeadWithin
    <3>2. disk' = IF fs_error_is_fatal(r) THEN "faulted" ELSE "mounted"
      BY <2>1, <2>3, <3>1 DEF ReadResults, fs_error_is_fatal
    <3>3. finish_fs_error(r)
      BY <2>1, <2>3
    <3> QED BY <3>2, <3>3, ErrorReports
  <2> QED BY <2>2, <2>3
<1> QED BY <1>4, <1>5

LEMMA HeadsWithin ==
    ASSUME NEW names, disk = "mounted"
    PROVE  InTurn([i \in DOMAIN names |-> read_head(names[i])]) \subseteq ReadResults
<1> DEFINE steps == [i \in DOMAIN names |-> read_head(names[i])]
<1>1. \A k \in DOMAIN steps : steps[k] \subseteq ReadResults
  BY ReadHeadWithin
<1> HIDE DEF steps
<1>2. InTurn(steps) \subseteq ReadResults
  BY <1>1, InTurnWithin DEF ReadResults
<1> QED BY <1>2 DEF steps

(* The commands that read and answer.                                       *)
Answers ==
    \/ Own("USAGE")
    \/ \E results \in SUBSET ReadResults : \E rows : Answered(results, rows)

LEMMA AnswersReport ==
    ASSUME Answers, wire = "open", disk = "mounted"
    PROVE  Reported({"OK"})
<1>1. CASE Own("USAGE")
  BY <1>1, OwnReports
<1>2. ASSUME NEW results \in SUBSET ReadResults, NEW rows, Answered(results, rows)
      PROVE  Reported({"OK"})
  BY <1>2, AnsweredReports
<1> QED BY <1>1, <1>2 DEF Answers

LEMMA MetaShowAnswers ==
    ASSUME NEW n, run_meta_show(n), disk = "mounted"
    PROVE  Answers
BY ReadHeadWithin DEF run_meta_show, Answers

LEMMA MetaListAnswers ==
    ASSUME NEW filter, run_meta_list(filter), disk = "mounted"
    PROVE  Answers
<1>1. PICK rows :
        Answered(InTurn([i \in DOMAIN ListedNames |-> read_head(ListedNames[i])]), rows)
  BY DEF run_meta_list
<1> QED BY <1>1, HeadsWithin DEF Answers

LEMMA LinksAnswers ==
    ASSUME NEW n, run_links(n), disk = "mounted"
    PROVE  Answers
BY ReadHeadWithin DEF run_links, Answers

LEMMA BacklinksAnswers ==
    ASSUME NEW n, run_backlinks(n), disk = "mounted"
    PROVE  Answers
<1>1. CASE Own("USAGE")
  BY <1>1 DEF Answers
<1>2. CASE \E rows :
        Answered(InTurn([i \in DOMAIN ListedNames |-> read_head(ListedNames[i])]), rows)
  BY <1>2, HeadsWithin DEF Answers
<1> QED BY <1>1, <1>2 DEF run_backlinks

LEMMA RelatedAnswers ==
    ASSUME NEW n, run_related(n), disk = "mounted"
    PROVE  Answers
<1>1. \A names : Then(read_head(n), InTurn([i \in DOMAIN names |-> read_head(names[i])]))
                    \subseteq ReadResults
  BY HeadsWithin, ReadHeadWithin, ThenWithin
<1>2. CASE Own("USAGE")
  BY <1>2 DEF Answers
<1>3. CASE \E names, rows :
        Answered(Then(read_head(n), InTurn([i \in DOMAIN names |-> read_head(names[i])])), rows)
  BY <1>1, <1>3 DEF Answers
<1> QED BY <1>2, <1>3 DEF run_related

LEMMA BlockListAnswers ==
    ASSUME NEW n, run_block_list(n), disk = "mounted"
    PROVE  Answers
<1>1. CASE Own("USAGE")
  BY <1>1 DEF Answers
<1>2. CASE \E rows : Answered(file_scan(n), rows)
  BY <1>2, FileScanWithin DEF Answers
<1> QED BY <1>1, <1>2 DEF run_block_list

LEMMA BlockRefsAnswers ==
    ASSUME NEW n, run_block_refs(n), disk = "mounted"
    PROVE  Answers
<1>1. ASSUME NEW shown
      PROVE  Then(file_scan(n), InTurn([k \in DOMAIN shown |-> target(shown[k][3].name)]))
                \subseteq ReadResults
  <2> DEFINE steps == [k \in DOMAIN shown |-> target(shown[k][3].name)]
  <2>1. \A k \in DOMAIN steps : steps[k] \subseteq ReadResults
    BY TargetWithin
  <2> HIDE DEF steps
  <2>2. InTurn(steps) \subseteq ReadResults
    BY <2>1, InTurnWithin DEF ReadResults
  <2>3. Then(file_scan(n), InTurn(steps)) \subseteq ReadResults
    BY <2>2, FileScanWithin, ThenWithin
  <2> QED BY <2>3 DEF steps
<1>2. CASE Own("USAGE")
  BY <1>2 DEF Answers
<1>3. CASE \E shown, rows :
        Answered(Then(file_scan(n), InTurn([k \in DOMAIN shown |-> target(shown[k][3].name)])),
                 rows)
  BY <1>1, <1>3 DEF Answers
<1> QED BY <1>2, <1>3 DEF run_block_refs

LEMMA BlockBacklinksAnswers ==
    ASSUME NEW n, NEW id, run_block_backlinks(n, id), disk = "mounted"
    PROVE  Answers
<1> DEFINE Tolerant(m) == {IF r = "INVALID_TEXT" THEN "OK" ELSE r : r \in file_scan(m)}
           steps == [i \in DOMAIN Directory |-> Tolerant(Directory[i])]
<1>1. \A m : Tolerant(m) \subseteq ReadResults
  BY FileScanWithin DEF ReadResults
<1>2. \A k \in DOMAIN steps : steps[k] \subseteq ReadResults
  <2> HIDE DEF Tolerant
  <2> QED BY <1>1
<1>3. InTurn(steps) \subseteq ReadResults
  <2> HIDE DEF steps
  <2> QED BY <1>2, InTurnWithin DEF ReadResults
<1>4. Then(target(n), InTurn(steps)) \subseteq ReadResults
  <2> HIDE DEF steps
  <2> QED BY <1>3, TargetWithin, ThenWithin
<1>5. CASE Own("USAGE")
  BY <1>5 DEF Answers
<1>6. CASE \E rows : Answered(Then(target(n), InTurn(steps)), rows)
  <2> HIDE DEF steps
  <2> QED BY <1>4, <1>6 DEF Answers
<1> QED BY <1>5, <1>6 DEF run_block_backlinks

LEMMA BlockShowReports ==
    ASSUME NEW n, NEW id, run_block_show(n, id), wire = "open", disk = "mounted"
    PROVE  Reported({"OK"})
<1> DEFINE found == {IF DeclaredIn(n, id) THEN "OK" ELSE "NOT_FOUND"}
           steps == <<file_scan(n), found>>
<1>1. \A k \in DOMAIN steps : steps[k] \subseteq ReadResults
  BY FileScanWithin DEF ReadResults
<1>2. InTurn(steps) \subseteq ReadResults
  <2> HIDE DEF steps
  <2> QED BY <1>1, InTurnWithin DEF ReadResults
<1>3. CASE Own("USAGE")
  BY <1>3, OwnReports
<1>4. CASE \E rows : Answered(InTurn(steps), rows)
  <2> HIDE DEF steps
  <2> QED BY <1>2, <1>4, AnsweredReports
<1>5. CASE disk' = "faulted" /\ \E out, rows : SayAfter(out, rows, "FATAL")
  BY <1>5, BrokenReports
<1> QED BY <1>3, <1>4, <1>5 DEF run_block_show

-----------------------------------------------------------------------------
(* The commands of the editor.                                              *)

(* A command of the editor that does not end it.                            *)
Stays ==
    /\ UNCHANGED active /\ verdict' # "EXIT" /\ Reported({"OK"})
(* The editor ends a session only with its draft saved or thrown away.      *)
Leaves ==
    /\ active' \in BOOLEAN /\ Reported({"OK", "EXIT"})
    /\ verdict' = "EXIT" => ~active'

LEMMA StaysLeaves == ASSUME active \in BOOLEAN, Stays PROVE Leaves
BY ReportedMore DEF Stays, Leaves

LEMMA ReportedStays ==
    ASSUME UNCHANGED active, Reported({"OK"})
    PROVE  Stays
BY DEF Stays, Reported

LEMMA EditedReports ==
    ASSUME NEW d, NEW command, Edited(d, command), wire = "open", disk = "mounted"
    PROVE  Reported({"OK"})
<1>1. Say(<<Ok(command)>>, "OK") /\ disk' = "mounted"
  BY DEF Edited
<1> QED BY <1>1, SayReports

LEMMA ChangeStays ==
    ASSUME wire = "open", disk = "mounted",
           \/ \E text : run_append(text)
           \/ \E number, text : run_replace(number, text)
           \/ \E number : run_delete(number)
    PROVE  Stays
<1>1. UNCHANGED active
  BY DEF run_append, run_replace, run_delete
<1>2. \/ \E token : Own(token)
      \/ \E d, command : Edited(d, command)
  BY DEF run_append, run_replace, run_delete
<1>3. Reported({"OK"})
  BY <1>2, OwnReports, EditedReports
<1> QED BY <1>1, <1>3, ReportedStays

LEMMA PrintStays ==
    ASSUME run_print, wire = "open", disk = "mounted"
    PROVE  Stays
<1>1. UNCHANGED active /\ disk' = "mounted" /\ \E rows : Say(rows, "OK")
  BY DEF run_print, editor
<1> QED BY <1>1, SayReports, ReportedStays

LEMMA BlankStays ==
    ASSUME edit_blank, wire = "open", disk = "mounted"
    PROVE  Stays
<1>1. UNCHANGED active /\ disk' = "mounted" /\ \E rows : Say(rows, "OK")
  BY DEF edit_blank, editor
<1> QED BY <1>1, SayReports, ReportedStays

LEMMA RefusedStays ==
    ASSUME NEW token, edit_refused(token), wire = "open", disk = "mounted"
    PROVE  Stays
<1>1. UNCHANGED active /\ Own(token)
  BY DEF edit_refused, editor
<1> QED BY <1>1, OwnReports, ReportedStays

LEMMA WriteLeaves ==
    ASSUME run_write, wire = "open", disk = "mounted"
    PROVE  Leaves
<1> DEFINE outcomes == IF existing THEN yan_fs_replace(ename, draft)
                       ELSE yan_fs_create(ename, draft)
<1>1. PICK o \in outcomes :
        /\ disk' = o.disk /\ active' = (o.result # "OK")
        /\ IF o.result = "OK" THEN Say(<<Ok("w")>>, "EXIT") ELSE finish_fs_error(o.result)
  BY DEF run_write
<1>2. Honest(outcomes)
  BY ReplaceHonest, CreateHonest
<1>3. disk' = IF fs_error_is_fatal(o.result) THEN "faulted" ELSE "mounted"
  BY <1>1, <1>2 DEF Honest
<1>4. CASE o.result = "OK"
  <2>1. Say(<<Ok("w")>>, "EXIT") /\ disk' = "mounted" /\ active' = FALSE
    BY <1>1, <1>3, <1>4 DEF fs_error_is_fatal
  <2>2. Reported({"EXIT"})
    BY <2>1, SayReports
  <2> QED BY <2>1, <2>2, ReportedMore DEF Leaves
<1>5. CASE o.result # "OK"
  <2>1. finish_fs_error(o.result) /\ active' = TRUE
    BY <1>1, <1>5
  <2>2. Reported({"OK"})
    BY <1>3, <2>1, ErrorReports
  <2>3. verdict' # "EXIT"
    BY <2>2 DEF Reported
  <2> QED BY <2>1, <2>2, <2>3, ReportedMore DEF Leaves
<1> QED BY <1>4, <1>5

LEMMA QuitLeaves ==
    ASSUME run_quit, wire = "open", disk = "mounted"
    PROVE  Leaves
<1>1. Say(<<Ok("q")>>, "EXIT") /\ disk' = "mounted" /\ active' = FALSE
  BY DEF run_quit
<1>2. Reported({"EXIT"})
  BY <1>1, SayReports
<1> QED BY <1>1, <1>2, ReportedMore DEF Leaves

LEMMA OpenedReports ==
    ASSUME NEW n, NEW bytes, NEW found, Opened(n, bytes, found), wire = "open", disk = "mounted"
    PROVE  active' \in BOOLEAN /\ Reported({"OK"})
<1>1. Say(<<Ok("edit")>>, "OK") /\ disk' = "mounted" /\ active' \in BOOLEAN
  BY DEF Opened
<1> QED BY <1>1, SayReports

LEMMA StartReports ==
    ASSUME NEW n, yan_editor_start(n), wire = "open", disk = "mounted"
    PROVE  active' \in BOOLEAN /\ Reported({"OK"})
<1>1. CASE \E m, bytes, found : Opened(m, bytes, found)
  BY <1>1, OpenedReports
<1>2. CASE Closed /\ \E token : Own(token)
  BY <1>2, OwnReports DEF Closed
<1>3. CASE Closed /\ finish_fs_error(yan_fs_stat(n)) /\ UNCHANGED disk
  <2>1. ~fs_error_is_fatal(yan_fs_stat(n))
    BY StatResults DEF fs_error_is_fatal
  <2> QED BY <1>3, <2>1, ErrorReports DEF Closed
<1>4. CASE Closed /\ finish_fs_error("IO") /\ disk' = "faulted"
  BY <1>4, ErrorReports DEF Closed, fs_error_is_fatal
<1> QED BY <1>1, <1>2, <1>3, <1>4 DEF yan_editor_start

-----------------------------------------------------------------------------
(* Every step keeps the invariant.                                          *)

LEMMA LineOpen ==
    ASSUME SInv, phase = "line"
    PROVE  disk = "mounted" /\ wire = "open" /\ editing = active /\ code = ""
           /\ Health = "OK"
BY DEF SInv, EndingsAreTrue, Health

LEMMA TypedKeeps ==
    ASSUME SInv, NEW command, Typed(command), active' \in BOOLEAN, Judged'
    PROVE  SInv'
<1>1. phase' = "ran" /\ code' = "" /\ editing' \in BOOLEAN
  BY LineOpen DEF Typed, SInv
<1> QED BY <1>1 DEF SInv, EndingsAreTrue

(* A command of the shell.                                                  *)
LEMMA ShellKeeps ==
    ASSUME SInv, NEW command, command[1] # "edit", ToShell(command), Reported({"OK"})
    PROVE  SInv'
<1>1. Typed(command) /\ ~editing /\ active' = active /\ editing' = editing
  BY DEF ToShell, Typed, editor
<1>2. ~active /\ active' \in BOOLEAN
  BY <1>1, LineOpen DEF Typed, SInv
<1>3. Judged'
  BY <1>1, <1>2 DEF Reported, Judged
<1> QED BY <1>1, <1>2, <1>3, TypedKeeps

(* A command of the editor.                                                 *)
LEMMA EditorKeeps ==
    ASSUME SInv, NEW command, ToEditor(command), Leaves
    PROVE  SInv'
<1>1. Typed(command) /\ editing /\ UNCHANGED editing
  BY DEF ToEditor, Typed
<1>2. Judged'
  BY <1>1 DEF Leaves, Reported, Judged
<1> QED BY <1>1, <1>2, TypedKeeps DEF Leaves

LEMMA FileCommandsKeep ==
    ASSUME SInv, \/ Ls \/ Stat \/ Cat \/ Create \/ Rewrite \/ Rm \/ Mv \/ Cp
                 \/ ShellBlank \/ ShellRefused \/ Help
    PROVE  SInv'
<1>1. PICK command : command[1] # "edit" /\ ToShell(command)
  BY DEF Ls, Stat, Cat, Create, Rewrite, Rm, Mv, Cp, ShellBlank, ShellRefused, Help,
         Reading, Saving
<1>2. disk = "mounted" /\ wire = "open" /\ Health = "OK"
  BY <1>1, LineOpen DEF ToShell, Typed
<1>3. Reported({"OK"})
  <2>1. CASE Ls
    BY <1>2, <2>1, LsReports DEF Ls, Guarded
  <2>2. CASE Stat
    BY <1>2, <2>2, StatReports DEF Stat, Guarded
  <2>3. CASE Cat
    BY <1>2, <2>3, CatReports DEF Cat, Guarded
  <2>4. CASE Create \/ Rewrite \/ Rm \/ Mv \/ Cp
    <3>1. PICK outcomes, name : Performed(outcomes, name) /\ Honest(outcomes)
      BY <1>2, <2>4, CreateHonest, ReplaceHonest, RemoveHonest, RenameHonest, CopyHonest
         DEF Create, Rewrite, Rm, Mv, Cp, Guarded, run_create, run_rewrite, run_rm,
             run_mv, run_cp
    <3> QED BY <1>2, <3>1, PerformedReports
  <2>5. CASE ShellBlank \/ Help
    <3>1. disk' = "mounted" /\ \E rows : Say(rows, "OK")
      BY <1>2, <2>5 DEF ShellBlank, Help, Guarded, shell_blank, run_help
    <3> QED BY <1>2, <3>1, SayReports
  <2>6. CASE ShellRefused
    BY <1>2, <2>6, OwnReports DEF ShellRefused, Guarded, shell_refused
  <2> QED BY <2>1, <2>2, <2>3, <2>4, <2>5, <2>6
<1> QED BY <1>1, <1>3, ShellKeeps

LEMMA NoteCommandsKeep ==
    ASSUME SInv, Notes_
    PROVE  SInv'
<1>1. PICK command : command[1] # "edit" /\ ToShell(command)
  BY DEF Notes_, MetaShow, MetaChange, MetaList, Links, Backlinks, Related, BlockList,
         BlockRefs, BlockBacklinks, BlockShow, Reading, Saving
<1>2. disk = "mounted" /\ wire = "open" /\ Health = "OK"
  BY <1>1, LineOpen DEF ToShell, Typed
<1>3. Reported({"OK"})
  <2>1. CASE MetaChange
    BY <1>2, <2>1, MetaChangeReports DEF MetaChange, Guarded
  <2>2. CASE BlockShow
    BY <1>2, <2>2, BlockShowReports DEF BlockShow, Guarded
  <2>3. CASE MetaShow \/ MetaList \/ Links \/ Backlinks \/ Related
    <3>1. Answers
      BY <1>2, <2>3, MetaShowAnswers, MetaListAnswers, LinksAnswers, BacklinksAnswers,
         RelatedAnswers DEF MetaShow, MetaList, Links, Backlinks, Related, Guarded
    <3> QED BY <1>2, <3>1, AnswersReport
  <2>4. CASE BlockList \/ BlockRefs \/ BlockBacklinks
    <3>1. Answers
      BY <1>2, <2>4, BlockListAnswers, BlockRefsAnswers, BlockBacklinksAnswers
         DEF BlockList, BlockRefs, BlockBacklinks, Guarded
    <3> QED BY <1>2, <3>1, AnswersReport
  <2> QED BY <2>1, <2>2, <2>3, <2>4 DEF Notes_
<1> QED BY <1>1, <1>3, ShellKeeps

LEMMA EditorCommandsKeep ==
    ASSUME SInv, \/ EditAppend \/ EditReplace \/ EditDelete \/ EditPrint \/ EditWrite
                 \/ EditQuit \/ EditBlank \/ EditRefused
    PROVE  SInv'
<1>1. PICK command : ToEditor(command)
  BY DEF EditAppend, EditReplace, EditDelete, EditPrint, EditWrite, EditQuit, EditBlank,
         EditRefused, Editing
<1>2. disk = "mounted" /\ wire = "open" /\ Health = "OK" /\ active \in BOOLEAN
  BY <1>1, LineOpen DEF ToEditor, Typed, SInv
<1>3. Leaves
  <2>1. CASE EditAppend \/ EditReplace \/ EditDelete
    <3>1. Stays
      BY <1>2, <2>1, ChangeStays DEF EditAppend, EditReplace, EditDelete, Guarded
    <3> QED BY <1>2, <3>1, StaysLeaves
  <2>2. CASE EditPrint \/ EditBlank \/ EditRefused
    <3>1. Stays
      BY <1>2, <2>2, PrintStays, BlankStays, RefusedStays
         DEF EditPrint, EditBlank, EditRefused, Guarded
    <3> QED BY <1>2, <3>1, StaysLeaves
  <2>3. CASE EditWrite
    BY <1>2, <2>3, WriteLeaves DEF EditWrite, Guarded
  <2>4. CASE EditQuit
    BY <1>2, <2>4, QuitLeaves DEF EditQuit, Guarded
  <2> QED BY <2>1, <2>2, <2>3, <2>4
<1> QED BY <1>1, <1>3, EditorKeeps

(* The end of the shell is asked for with its last row out.                 *)
LEMMA ExitKeeps ==
    ASSUME SInv, Exit
    PROVE  SInv'
<1>1. Typed(<<"exit">>) /\ ~editing /\ active' = active /\ editing' = editing
  BY DEF Exit, Reading, ToShell, Typed, editor
<1>2. disk = "mounted" /\ wire = "open" /\ Health = "OK" /\ ~active /\ active' \in BOOLEAN
  BY <1>1, LineOpen DEF Typed, SInv
<1>3. Say(<<Ok("exit")>>, "EXIT") /\ disk' = "mounted"
  BY <1>2 DEF Exit, Guarded, run_exit
<1>4. Reported({"EXIT"})
  BY <1>2, <1>3, SayReports
<1>5. verdict' = "EXIT" => said' = <<Ok("exit")>>
  <2>1. \/ said' = <<>> \o <<Ok("exit")>>
        \/ verdict' = "FATAL"
    BY <1>3, SayOutcome DEF Say
  <2>2. <<>> \o <<Ok("exit")>> = <<Ok("exit")>>
    OBVIOUS
  <2> QED BY <2>1, <2>2
<1>6. Judged'
  BY <1>1, <1>2, <1>4, <1>5 DEF Reported, Judged
<1> QED BY <1>1, <1>2, <1>6, TypedKeeps

LEMMA EditKeeps ==
    ASSUME SInv, Edit
    PROVE  SInv'
<1>1. PICK n : Typed(<<"edit", n>>) /\ yan_editor_start(n) /\ ~editing
  BY DEF Edit
<1>2. disk = "mounted" /\ wire = "open"
  BY <1>1, LineOpen DEF Typed
<1>3. active' \in BOOLEAN /\ Reported({"OK"})
  BY <1>1, <1>2, StartReports
<1>4. asked' = <<"edit", n>> /\ editing' = editing
  BY <1>1 DEF Typed
<1>5. asked'[1] = "edit"
  BY <1>4
<1>6. Judged'
  BY <1>3, <1>5 DEF Reported, Judged
<1> QED BY <1>1, <1>3, <1>6, TypedKeeps

(* A line of the application's own leaves it at the prompt or at its end.   *)
LEMMA WriteOrFail ==
    ASSUME NEW rows, app_write_or_fail(rows, "prompt"), wire = "open", code = ""
    PROVE  \/ phase' = "prompt" /\ code' = "" /\ wire' = "open"
           \/ phase' = "over" /\ code' = "OUTPUT"
<1>1. \/ wire' = wire
      \/ wire' = "lost"
  BY SayOutcome DEF app_write_or_fail, Say
<1> QED BY <1>1 DEF app_write_or_fail, app_finish

LEMMA FinishKeeps ==
    ASSUME SInv, active' = active, editing' = editing, NEW reason, app_finish(reason),
           reason \notin {"1", "SHELL_FATAL", "EDITOR_FATAL"}
    PROVE  SInv'
BY DEF SInv, app_finish, EndingsAreTrue

LEMMA PromptKeeps ==
    ASSUME SInv, active' = active, editing' = editing, editing = active,
           disk' = "mounted", wire' = "open", phase' \in {"prompt", "line"}, code' = ""
    PROVE  SInv'
BY DEF SInv, EndingsAreTrue

LEMMA StartKeeps == ASSUME SInv, Start PROVE SInv'
<1>1. wire = "open" /\ code = "" /\ editing = active
  BY DEF SInv, Start
<1>2. PICK rows : app_write_or_fail(rows, "prompt")
  BY DEF Start
<1>3. disk' = "mounted" /\ active' = active /\ editing' = editing
  BY DEF Start, editor
<1>4. CASE phase' = "prompt" /\ code' = "" /\ wire' = "open"
  BY <1>1, <1>3, <1>4, PromptKeeps
<1>5. CASE phase' = "over" /\ code' = "OUTPUT"
  BY <1>3, <1>5, FinishKeeps DEF app_finish
<1> QED BY <1>1, <1>2, <1>4, <1>5, WriteOrFail

LEMMA StartFailsKeeps == ASSUME SInv, StartFails PROVE SInv'
<1>1. active' = active /\ editing' = editing
  BY DEF StartFails, editor
<1>2. PICK k \in DOMAIN Startup :
        app_finish("NO_TERMINAL") \/ app_finish("MOUNT") \/ app_finish(Startup[k])
  BY DEF StartFails, app_fail
<1>3. Startup[k] \notin {"1", "SHELL_FATAL", "EDITOR_FATAL"}
  BY DEF Startup
<1> QED BY <1>1, <1>2, <1>3, FinishKeeps

LEMMA AppKeeps ==
    ASSUME SInv, Prompt \/ LineRefused \/ LineUnavailable \/ BareEnter \/ EditUsage \/ HelpLost
    PROVE  SInv'
<1>1. active' = active /\ editing' = editing /\ disk' = disk
  BY DEF Prompt, LineRefused, LineUnavailable, BareEnter, EditUsage, HelpLost, editor, guest
<1>2. disk = "mounted" /\ wire = "open" /\ editing = active /\ code = ""
  BY DEF SInv, EndingsAreTrue, Prompt, LineRefused, LineUnavailable, BareEnter, EditUsage,
         HelpLost
<1>3. CASE Prompt
  <2>1. CASE phase' = "line" /\ wire' = wire /\ code' = code
    BY <1>1, <1>2, <2>1, PromptKeeps
  <2>2. CASE app_finish("OUTPUT")
    BY <1>1, <2>2, FinishKeeps
  <2> QED BY <1>3, <2>1, <2>2 DEF Prompt
<1>4. CASE LineRefused \/ EditUsage
  <2>1. PICK rows : app_write_or_fail(rows, "prompt")
    BY <1>4 DEF LineRefused, EditUsage
  <2>2. CASE phase' = "prompt" /\ code' = "" /\ wire' = "open"
    BY <1>1, <1>2, <2>2, PromptKeeps
  <2>3. CASE phase' = "over" /\ code' = "OUTPUT"
    BY <1>1, <2>3, FinishKeeps DEF app_finish
  <2> QED BY <1>2, <2>1, <2>2, <2>3, WriteOrFail
<1>5. CASE LineUnavailable
  <2>1. app_finish("LINE_UNAVAILABLE")
    BY <1>5 DEF LineUnavailable, app_fail
  <2> QED BY <1>1, <2>1, FinishKeeps
<1>6. CASE BareEnter
  <2>1. phase' = "prompt" /\ wire' = wire /\ code' = code
    BY <1>6 DEF BareEnter, guest
  <2> QED BY <1>1, <1>2, <2>1, PromptKeeps
<1>7. CASE HelpLost
  <2>1. app_finish("OUTPUT")
    BY <1>7 DEF HelpLost
  <2> QED BY <1>1, <2>1, FinishKeeps
<1> QED BY <1>3, <1>4, <1>5, <1>6, <1>7

(* The judgement: the next mode is the editor's, and the end is the true one. *)
LEMMA GoesOnKeeps == ASSUME SInv, GoesOn \/ LeavesEditor PROVE SInv'
<1>1. /\ disk' = disk /\ wire' = wire /\ active' = active /\ code' = code
      /\ phase' = "prompt" /\ phase = "ran" /\ verdict \in {"OK", "EXIT"}
  BY DEF GoesOn, LeavesEditor, guest, editor
<1>2. disk = "mounted" /\ wire = "open" /\ code = "" /\ Judged
  BY <1>1 DEF SInv, Judged
<1>3. editing' = active /\ active \in BOOLEAN
  <2>1. active \in BOOLEAN /\ editing \in BOOLEAN
    BY DEF SInv
  <2>2. CASE GoesOn /\ (editing \/ asked[1] = "edit")
    BY <2>1, <2>2 DEF GoesOn, Edited_
  <2>3. CASE GoesOn /\ ~editing /\ asked[1] # "edit"
    BY <1>2, <2>1, <2>3 DEF GoesOn, Edited_, Judged
  <2>4. CASE LeavesEditor
    BY <1>2, <2>1, <2>4 DEF LeavesEditor, Judged
  <2> QED BY <2>1, <2>2, <2>3, <2>4
<1> QED BY <1>1, <1>2, <1>3 DEF SInv, EndingsAreTrue

LEMMA OneAndOne == ASSUME NEW x, NEW y PROVE <<x>> \o <<y>> = <<x, y>>
<1> DEFINE s == <<x>> \o <<y>>
           t == <<x, y>>
<1>1. /\ s \in Seq({x, y}) /\ Len(s) = 2 /\ s[1] = x /\ s[2] = y
      /\ t \in Seq({x, y}) /\ Len(t) = 2 /\ t[1] = x /\ t[2] = y
  OBVIOUS
<1> HIDE DEF s, t
<1>2. \A i \in 1 .. Len(s) : s[i] = t[i]
  BY <1>1
<1>3. s = t
  BY <1>1, <1>2, SeqEqual
<1> QED BY <1>3 DEF s, t

LEMMA LeavesShellKeeps == ASSUME SInv, LeavesShell PROVE SInv'
<1> DEFINE row == <<"yanfs: exit">>
<1>1. said = <<Ok("exit")>> /\ active \in BOOLEAN /\ editing \in BOOLEAN
  BY DEF SInv, LeavesShell, Judged
<1>2. /\ disk' = "unmounted" /\ active' = active /\ editing' = editing /\ phase' = "over"
      /\ code' = IF wire' = "open" THEN "1" ELSE "OUTPUT"
  BY DEF LeavesShell, app_finish, editor
<1>3. \/ said' = said \o <<row>>
      \/ wire' = "lost"
  BY SayOutcome DEF LeavesShell
<1>4. wire' = "open" => Last(said') = row
  <2> HIDE DEF row
  <2>1. <<Ok("exit")>> \o <<row>> = <<Ok("exit"), row>>
    BY OneAndOne
  <2>2. Last(<<Ok("exit"), row>>) = row
    BY DEF Last
  <2> QED BY <1>1, <1>3, <2>1, <2>2
<1> QED BY <1>1, <1>2, <1>4 DEF SInv, EndingsAreTrue

LEMMA FailsKeeps == ASSUME SInv, Fails PROVE SInv'
<1>1. /\ active' = active /\ editing' = editing /\ disk' = disk
      /\ phase = "ran" /\ verdict = "FATAL"
  BY DEF Fails, editor
<1>2. active \in BOOLEAN /\ editing \in BOOLEAN /\ (disk = "faulted" \/ wire = "lost")
  BY <1>1 DEF SInv, Judged
<1>3. PICK reason \in {"SHELL_FATAL", "EDITOR_FATAL"} : app_fail(reason, Error(reason))
  BY DEF Fails
<1>4. phase' = "over" /\ code' = reason /\ (wire # "open" => wire' = wire)
  BY <1>3 DEF app_fail, app_finish
<1> QED BY <1>1, <1>2, <1>4 DEF SInv, EndingsAreTrue

-----------------------------------------------------------------------------
(* The theorem.                                                             *)

LEMMA InitSInv == ASSUME Init PROVE SInv
BY DEF Init, SInv, EndingsAreTrue

LEMMA NextSInv == ASSUME SInv, [Next]_vars PROVE SInv'
<1>1. CASE app_session \/ EditUsage \/ HelpLost
  BY <1>1, StartKeeps, StartFailsKeeps, AppKeeps DEF app_session
<1>2. CASE Shell_
  BY <1>1, <1>2, FileCommandsKeep, ExitKeeps DEF Shell_
<1>3. CASE Notes_
  BY <1>3, NoteCommandsKeep
<1>4. CASE Editor_
  BY <1>1, <1>4, EditorCommandsKeep, EditKeeps DEF Editor_
<1>5. CASE Judge
  BY <1>5, GoesOnKeeps, LeavesShellKeeps, FailsKeeps DEF Judge
<1>6. CASE Over \/ UNCHANGED vars
  <2>1. UNCHANGED <<active, editing, phase, code, wire, disk, verdict, asked, said>>
    BY <1>6 DEF Over, vars, guest, editor, session
  <2> QED BY <2>1 DEF SInv, EndingsAreTrue, Judged
<1> QED BY <1>1, <1>2, <1>3, <1>4, <1>5, <1>6 DEF Next

(* Session: what every round leaves behind, for every library and library  *)
(* of commands.                                                             *)
THEOREM SessionInvariant == Spec => []SInv
BY InitSInv, NextSInv, PTL DEF Spec

(* Session: the application asks for a line only over a mounted storage and *)
(* a whole wire and in the mode of the editor, reports success only after   *)
(* giving the storage up and saying so, and a fatal command only when the   *)
(* storage or the wire is really gone.                                      *)
THEOREM EndingsAreTrueHolds == Spec => []EndingsAreTrue
<1>1. SInv => EndingsAreTrue
  BY DEF SInv
<1> QED BY <1>1, SessionInvariant, PTL
===============================================================================
