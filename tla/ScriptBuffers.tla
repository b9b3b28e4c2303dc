----------------------------- MODULE ScriptBuffers -----------------------------
(***************************************************************************)
(* The buffers of jsmap and jsreduce (fun_jsmap.c, fun_jsreduce.c), for    *)
(* the queries of one server thread.  A call writes a script into          *)
(* script_buffer and has it evaluated up to its first NUL; what is to be   *)
(* returned is copied to result_buffer, where the server reads it.  Both   *)
(* buffers are kept from call to call and grow with what has to go in.     *)
(*                                                                         *)
(* A call takes up to three steps: it fills the buffer, runs the script    *)
(* and copies the answer.  The arguments, which contain no NUL, and the    *)
(* engine are seen through the lengths of what they give.  jsreduce_clear  *)
(* evaluates a fixed string and touches neither buffer.                    *)
(***************************************************************************)
EXTENDS Naturals

CONSTANTS
  ScriptSize,   \* the first size of script_buffer (1024)
  ResultSize,   \* and of result_buffer (256)
  Slack,        \* what is asked for around the arguments (16)
  Spare,        \* what a buffer has over twice the need (256)
  MapHead,      \* the characters of "var Input=" (10)
  AddHead,      \* and of "Add(" (4)
  ArgLengths,   \* the lengths of arguments
  Answers,      \* the lengths of what the engine answers
  MaxRefused    \* bounds the instance

ASSUME ScriptBuffersAssumption ==
  /\ ScriptSize \in Nat /\ ResultSize \in Nat
  /\ Slack \in Nat /\ Spare \in Nat \ {0}
  /\ MapHead \in Nat /\ MapHead + 2 <= Slack
  /\ AddHead \in Nat /\ AddHead + 3 <= Slack
  /\ ArgLengths \subseteq Nat /\ Answers \subseteq Nat
  /\ MaxRefused \in Nat

VARIABLES
  pc,        \* "idle", or what the running call does next: "run" or "copy"
  fn,        \* the function of the open query, or "none"
  script,    \* script_buffer: cap bytes were allocated, script_sz says size
  bytes,     \* what is in it: "row" from this call, "nul", or what was "left"
  end,       \* where the script of this call is meant to end
  extent,    \* how far the writes of this call to script_buffer went
  results,   \* result_buffer and result_sz
  answer,    \* the length of the engine's answer
  returned,  \* how far the last write to result_buffer went
  contexts,  \* how many RESULT_BUFFERs are allocated, each with its buffers
  refused    \* how many queries an init has refused

buffer == <<script, bytes, end, extent>>
bufferVars == <<pc, fn, script, bytes, end, extent, results, answer, returned,
                contexts, refused>>

Block(n) == [cap |-> n, size |-> n]

\* A block of n bytes that nothing has been written to.
Unwritten(n) == [k \in 1 .. n |-> "left"]

BuffersInit ==
  /\ pc = "idle" /\ fn = "none"
  /\ script = Block(0) /\ bytes = Unwritten(0) /\ end = 0 /\ extent = 0
  /\ results = Block(0) /\ answer = 0 /\ returned = 0
  /\ contexts = 0 /\ refused = 0

-------------------------------------------------------------------------------
\* The size a buffer gets when it is too small for need.
NewSize(need) == 2 * need + Spare

\* script_buffer as jsmap and jsreduce_add make it large enough for need.
Enlarged(need) == IF need >= script.size THEN Block(NewSize(need)) ELSE script

\* Mutant of Write: the memset alone is to end the script.
WriteUnterminated(b, n) ==
  /\ script' = b
  /\ bytes' = [k \in 1 .. b.cap |->
                 IF k <= n THEN "row" ELSE IF k <= b.size THEN "nul" ELSE "left"]
  /\ end' = n
  /\ extent' = IF n > b.size THEN n ELSE b.size

\* The buffer is cleared as far as script_sz says, and the n characters of the
\* script and a NUL are written.  The bytes behind are what they were.
Write(b, n) ==
  /\ script' = b
  /\ bytes' = [k \in 1 .. b.cap |->
                 IF k <= n THEN "row"
                 ELSE IF k = n + 1 \/ k <= b.size THEN "nul" ELSE "left"]
  /\ end' = n
  /\ extent' = IF n + 1 > b.size THEN n + 1 ELSE b.size

\* The inits allocate before they look at the arguments: a RESULT_BUFFER, and
\* a result_buffer for it.
Allocated ==
  /\ results' = Block(ResultSize) /\ answer' = 0 /\ returned' = 0
  /\ contexts' = contexts + 1

\* jsmap_init accepts the query.
JsmapInit ==
  /\ pc = "idle" /\ fn = "none"
  /\ Allocated /\ fn' = "jsmap"
  /\ script' = Block(ScriptSize) /\ bytes' = Unwritten(ScriptSize)
  /\ end' = 0 /\ extent' = 0
  /\ UNCHANGED <<pc, refused>>

\* jsmap_init or jsreduce_init refuses it.  jsmap_init may do so whatever the
\* arguments: given two strings, it returns a status it has never assigned.
\* The server then calls no deinit, and what was allocated stays.
InitRefuses ==
  /\ pc = "idle" /\ fn = "none" /\ refused < MaxRefused
  /\ contexts' = contexts + 1 /\ refused' = refused + 1
  /\ UNCHANGED <<pc, fn, buffer, results, answer, returned>>

\* jsreduce_init accepts the query and runs its first argument, of length n.
\* When the buffer has to grow for it, script_sz is not told.
JsreduceInit(n) ==
  /\ pc = "idle" /\ fn = "none"
  /\ Allocated /\ fn' = "jsreduce"
  /\ pc' = "run"
  /\ Write([cap |-> IF Slack + n >= ScriptSize THEN NewSize(Slack + n) ELSE ScriptSize,
            size |-> ScriptSize], n)
  /\ UNCHANGED refused

\* Mutant of Jsmap: room for one of the arguments only.
JsmapCountsOne(m, n) ==
  /\ pc = "idle" /\ fn = "jsmap"
  /\ pc' = "run"
  /\ Write(Enlarged(Slack + m), MapHead + m + 1 + n)
  /\ UNCHANGED <<fn, results, answer, returned, contexts, refused>>

\* jsmap: "var Input=", the first argument, a ';' and the second one.
Jsmap(m, n) ==
  /\ pc = "idle" /\ fn = "jsmap"
  /\ pc' = "run"
  /\ Write(Enlarged(Slack + m + n), MapHead + m + 1 + n)
  /\ UNCHANGED <<fn, results, answer, returned, contexts, refused>>

\* jsreduce_add: "Add(", the second argument and ");".
JsreduceAdd(n) ==
  /\ pc = "idle" /\ fn = "jsreduce"
  /\ pc' = "run"
  /\ Write(Enlarged(Slack + n), AddHead + n + 2)
  /\ UNCHANGED <<fn, results, answer, returned, contexts, refused>>

\* jsreduce_init and jsreduce_add are done with the script when it has run.
RunJsreduce ==
  /\ pc = "run" /\ fn = "jsreduce"
  /\ pc' = "idle"
  /\ UNCHANGED <<fn, buffer, results, answer, returned, contexts, refused>>

\* jsmap takes the text of its value, whether it could be evaluated or not.
RunJsmap(a) ==
  /\ pc = "run" /\ fn = "jsmap"
  /\ pc' = "copy" /\ answer' = a
  /\ UNCHANGED <<fn, buffer, results, returned, contexts, refused>>

\* jsreduce runs "Reduce();" and takes the text of that.
Jsreduce(a) ==
  /\ pc = "idle" /\ fn = "jsreduce"
  /\ pc' = "copy" /\ answer' = a
  /\ UNCHANGED <<fn, buffer, results, returned, contexts, refused>>

\* Mutant of Copy: the final NUL is forgotten when the size is compared.
CopyTight ==
  /\ pc = "copy"
  /\ pc' = "idle"
  /\ results' = IF results.size < answer THEN Block(NewSize(answer)) ELSE results
  /\ returned' = answer + 1
  /\ UNCHANGED <<fn, buffer, answer, contexts, refused>>

\* The answer and its NUL are copied to result_buffer for the server.
Copy ==
  /\ pc = "copy"
  /\ pc' = "idle"
  /\ results' = IF results.size <= answer THEN Block(NewSize(answer)) ELSE results
  /\ returned' = answer + 1
  /\ UNCHANGED <<fn, buffer, answer, contexts, refused>>

\* Mutant of Deinit: the buffers are forgotten.
DeinitKeepsBuffers ==
  /\ pc = "idle" /\ fn # "none"
  /\ fn' = "none"
  /\ script' = Block(0) /\ bytes' = Unwritten(0) /\ end' = 0 /\ extent' = 0
  /\ results' = Block(0) /\ answer' = 0 /\ returned' = 0
  /\ UNCHANGED <<pc, contexts, refused>>

\* jsmap_deinit and jsreduce_deinit free the RESULT_BUFFER and its buffers.
Deinit ==
  /\ pc = "idle" /\ fn # "none"
  /\ fn' = "none" /\ contexts' = contexts - 1
  /\ script' = Block(0) /\ bytes' = Unwritten(0) /\ end' = 0 /\ extent' = 0
  /\ results' = Block(0) /\ answer' = 0 /\ returned' = 0
  /\ UNCHANGED <<pc, refused>>

BuffersNext ==
  \/ JsmapInit \/ InitRefuses
  \/ \E n \in ArgLengths : JsreduceInit(n) \/ JsreduceAdd(n)
  \/ \E m, n \in ArgLengths : Jsmap(m, n)
  \/ \E a \in Answers : RunJsmap(a) \/ Jsreduce(a)
  \/ RunJsreduce \/ Copy
  \/ Deinit

BuffersSpec == BuffersInit /\ [][BuffersNext]_bufferVars
-------------------------------------------------------------------------------
BlockType == [cap : Nat, size : Nat]

BuffersTypeOK ==
  /\ pc \in {"idle", "run", "copy"}
  /\ fn \in {"none", "jsmap", "jsreduce"}
  /\ script \in BlockType /\ results \in BlockType
  /\ bytes \in [1 .. script.cap -> {"row", "nul", "left"}]
  /\ end \in 0 .. script.cap /\ extent \in Nat
  /\ answer \in Nat /\ returned \in Nat
  /\ contexts \in Nat /\ refused \in 0 .. MaxRefused

\* No call writes behind the end of a buffer, although the sizes it goes by
\* are not always those that were allocated.
WritesInside == extent <= script.cap /\ returned <= results.cap

\* What runs is the script of this call, whole and with nothing behind it that
\* is left of an earlier, longer one or was never written.
RunsItsRow ==
  pc = "run" => /\ end < script.cap
                /\ \A k \in 1 .. end : bytes[k] = "row"
                /\ bytes[end + 1] = "nul"

\* Only a query that its init refuses leaves something allocated.
LosesOnlyRefused == contexts = refused + (IF fn = "none" THEN 0 ELSE 1)
===============================================================================
