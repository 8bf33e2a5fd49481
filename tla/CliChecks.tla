------------------------------ MODULE CliChecks ------------------------------
(***************************************************************************)
(* The argument and file checks of src/src/commands/utils.rs and the exit  *)
(* code mapping to_exit_code.  Each is a function of its inputs: the model *)
(* picks one call with its inputs, takes one step computing the result,    *)
(* and the properties compare the result with the rule it implements.      *)
(*                                                                         *)
(* A Rust Result<T> is a set: {} for Err, {v} for Ok(v).  Strings are      *)
(* sequences of one-character strings over a small alphabet.               *)
(***************************************************************************)
EXTENDS Naturals, Sequences, SequencesExt

CONSTANTS
  Chars,      \* alphabet of region arguments
  MaxArgLen,  \* longest region argument
  Replies,    \* lines a user may type at the overwrite prompt
  Sizes       \* file sizes in bytes

ASSUME CliChecksAssumption ==
  /\ MaxArgLen \in Nat
  /\ Sizes \subseteq Nat
  /\ Replies \subseteq Seq(STRING)

DigitSeq == <<"0", "1", "2", "3", "4", "5", "6", "7", "8", "9">>

(* Decimal value of a sequence of digits. *)
DecVal[s \in Seq(Range(DigitSeq))] ==
  IF s = << >> THEN 0
  ELSE DecVal[SubSeq(s, 1, Len(s) - 1)] * 10 + (CHOOSE v \in 0..9 : DigitSeq[v + 1] = Last(s))

(* str::parse::<u64>: an optional '+', then one or more digits (the       *)
(* arguments are too short to overflow).                                   *)
ParseU64(s) ==
  LET ds == IF s # << >> /\ s[1] = "+" THEN Tail(s) ELSE s
  IN  IF ds # << >> /\ Range(ds) \subseteq Range(DigitSeq) THEN {DecVal[ds]} ELSE {}

(* str::split(".."): the pieces between non-overlapping ".." found left   *)
(* to right; there is always at least one.                                 *)
SplitDots[s \in Seq(Chars)] ==
  LET at == {i \in 1..Len(s) - 1 : s[i] = "." /\ s[i + 1] = "."}
  IN  IF at = {} THEN << s >>
      ELSE << SubSeq(s, 1, Min(at) - 1) >> \o SplitDots[SubSeq(s, Min(at) + 2, Len(s))]

(* Fault-injected variant for mutation checks: no test for a third piece. *)
RangeFromStrNoTrailing(s) ==
  LET parts == SplitDots[s]
      start == ParseU64(parts[1])
      end == IF Len(parts) >= 2 THEN ParseU64(parts[2]) ELSE {}
  IN  {r \in [start : start, end : end] : r.end > r.start}

(* RangeU64::from_str: parse the first two pieces, refuse a third, then   *)
(* refuse end <= start.                                                    *)
RangeFromStr(s) ==
  LET parts == SplitDots[s]
      start == ParseU64(parts[1])
      end == IF Len(parts) >= 2 THEN ParseU64(parts[2]) ELSE {}
  IN  IF Len(parts) > 2 THEN {}
      ELSE {r \in [start : start, end : end] : r.end > r.start}

(* The root cause of a failed command's error. *)
RootCauses == {"io_broken_pipe", "arc_io_broken_pipe", "io_other", "other"}

(* to_exit_code: the downcast to Arc<io::Error> (quick_xml's wrapper),    *)
(* else to io::Error, tested for ErrorKind::BrokenPipe.                    *)
IsBrokenPipe(root) == root \in {"io_broken_pipe", "arc_io_broken_pipe"}

(* The first bytes of a file, abstracted to the token they start with;    *)
(* "short" is a file of fewer than 16 bytes.                               *)
Heads == {"<superblock", "?xml", "<!DOCTYPE", "<?xml", "binary", "short"}

(* is_xml: the 16 bytes start with one of the three XML openings. *)
IsXml(h) == h \in {"<superblock", "?xml", "<!DOCTYPE"}

(* is_xml_file: read_exact of 16 bytes fails on a short file, else is_xml. *)
IsXmlFile(h) == IF h = "short" THEN {} ELSE {IsXml(h)}

(* to_lowercase of a character of the replies' alphabet, and trim_end. *)
LowerOf == [c \in {"Y", "E", "S"} |-> CASE c = "Y" -> "y" [] c = "E" -> "e" [] c = "S" -> "s"]
Lower(c) == IF c \in DOMAIN LowerOf THEN LowerOf[c] ELSE c
TrimEnd(s) == SubSeq(s, 1, Min({n \in 0..Len(s) : \A i \in n + 1..Len(s) : s[i] = " "}))

(* Fault-injected variant for mutation checks: any reply starting with y. *)
IsYesPrefix(r) == \E l \in r : Len(l) > 0 /\ Lower(l[1]) = "y"

(* yes_no_prompt: Ok(true) for "yes" or "y" after trim_end and          *)
(* to_lowercase; a failed read (the set is empty) is not Ok(true).        *)
IsYes(r) == \E l \in r : [i \in DOMAIN TrimEnd(l) |-> Lower(TrimEnd(l)[i])]
                           \in {<<"y">>, <<"y", "e", "s">>}

Args == UNION {[1..n -> Chars] : n \in 0..MaxArgLen}

(* file_utils::file_size, as a Result. *)
FileSizes == {{n} : n \in Sizes} \cup {{}}

Calls ==
  [fn : {"range"}, arg : Args]
  \cup [fn : {"exit"}, err : {{}} \cup {{r} : r \in RootCauses}]
  \cup [fn : {"not_tiny", "output"}, size : FileSizes]
  \cup [fn : {"not_xml"}, head : Heads]
  \cup [fn : {"overwrite"}, kind : {"missing", "regular", "blk", "dir"},
        head : {"metadata", "other", "unreadable"},
        reply : {{l} : l \in Replies} \cup {{}}]

VARIABLES call, done, result

vars == <<call, done, result>>

Init == call \in Calls /\ done = FALSE /\ result = {}

(* The step that returns the called function's result. *)
Return(r) == done = FALSE /\ done' = TRUE /\ result' = r /\ UNCHANGED call

(* RangeU64::from_str *)
FromStr == call.fn = "range" /\ Return(RangeFromStr(call.arg))

(* to_exit_code: USAGE for any error, with a fatal line unless a broken *)
(* pipe; OK and nothing printed for success.                              *)
ToExitCode ==
  /\ call.fn = "exit"
  /\ Return(IF call.err = {} THEN [code |-> 0, lines |-> 0]
            ELSE [code |-> 64, lines |-> IF \E r \in call.err : IsBrokenPipe(r) THEN 0 ELSE 1])

(* check_file_not_tiny: Ok for 4096.. bytes; 0..=4095 or no size is Err. *)
CheckFileNotTiny ==
  call.fn = "not_tiny" /\ Return(IF \E n \in call.size : n >= 4096 THEN "ok" ELSE "err")

(* check_output_file: Ok for 40960.. bytes; 0..=40959 or no size is Err. *)
CheckOutputFile ==
  call.fn = "output" /\ Return(IF \E n \in call.size : n >= 40960 THEN "ok" ELSE "err")

(* check_not_xml: only Ok(true) from is_xml_file is an error. *)
CheckNotXml ==
  call.fn = "not_xml" /\ Return(IF TRUE \in IsXmlFile(call.head) THEN "err" ELSE "ok")

(* check_overwrite_metadata: refuse a regular file or block device that   *)
(* is_metadata reads as metadata unless the prompt answers Ok(true); a    *)
(* missing file, a directory and a failed read pass silently.             *)
CheckOverwriteMetadata ==
  /\ call.fn = "overwrite"
  /\ Return(IF /\ call.kind \in {"regular", "blk"}
               /\ call.head = "metadata"
               /\ ~IsYes(call.reply)
            THEN "err" ELSE "ok")

Next ==
  \/ FromStr \/ ToExitCode \/ CheckFileNotTiny \/ CheckOutputFile
  \/ CheckNotXml \/ CheckOverwriteMetadata

Spec == Init /\ [][Next]_vars

-----------------------------------------------------------------------------
(* The positions of a ".." that splits s into two unsigned decimals (a    *)
(* '+' sign allowed, as Rust's parser allows it).                          *)
RegionSplits(s) ==
  {i \in 1..Len(s) - 1 : /\ s[i] = "." /\ s[i + 1] = "."
                         /\ ParseU64(SubSeq(s, 1, i - 1)) # {}
                         /\ ParseU64(SubSeq(s, i + 2, Len(s))) # {}}

(* The regions "<start>..<end>" that s denotes: a split into two numbers  *)
(* with start < end.                                                       *)
Regions(s) ==
  {r \in UNION {[start : ParseU64(SubSeq(s, 1, i - 1)),
                 end : ParseU64(SubSeq(s, i + 2, Len(s)))] : i \in RegionSplits(s)} :
     r.start < r.end}

(* RangeU64::from_str returns exactly the region the argument denotes:   *)
(* splitting on ".." and parsing the pieces must refuse "1...2",         *)
(* "1..2..", "..2", "1.." and "2..1", cases a test of the usual form     *)
(* would not try.                                                          *)
RangeParsed == (done /\ call.fn = "range") => result = Regions(call.arg)

(* Spec 6: exit 0 on success and on a broken pipe, 64 otherwise. *)
ExitCodeAsSpecified ==
  (done /\ call.fn = "exit") =>
    result.code = IF \E r \in call.err : r \in {"io_other", "other"} THEN 64 ELSE 0

(* The replies that mean yes: y or yes in any mix of case, then blanks. *)
YesWords == {<<y>> : y \in {"y", "Y"}}
            \cup {<<y, e, z>> : y \in {"y", "Y"}, e \in {"e", "E"}, z \in {"s", "S"}}
MeansYes(reply) ==
  \E l \in reply : \E w \in YesWords, k \in 0..Len(l) : l = w \o [i \in 1..k |-> " "]

(* Readable metadata in a file or block device is overwritten exactly    *)
(* when the reply means yes; a failed prompt refuses.                     *)
OverwriteConfirmed ==
  (done /\ call.fn = "overwrite" /\ call.kind \in {"regular", "blk"} /\ call.head = "metadata")
    => (result = "ok" <=> MeansYes(call.reply))
=============================================================================
