----------------------------- MODULE PipesSession -----------------------------
(***************************************************************************)
(* libraries/pipes: the process that Dagster launches, and what it sends   *)
(* back.  The Rust, Java and TypeScript implementations of one protocol: a *)
(* context writes "opened" to a channel, then reports and log messages,    *)
(* then "closed".  A channel writes through to a file or a stream, holds   *)
(* the messages until the end, or hands them to an upload thread.          *)
(*                                                                         *)
(* A run of the model is a run of one implementation with one channel,     *)
(* whose context the user's code uses from one thread; Java's logger and   *)
(* upload thread act beside it.                                            *)
(***************************************************************************)
EXTENDS Naturals, Sequences, FiniteSets, SequencesExt

CONSTANTS Assets,      \* asset keys
          NoKey,       \* an asset key left out of a report
          Variants,    \* pairs <<implementation, channel>>
          MaxMessages, \* bound: messages before the last "closed"
          MaxRuns,     \* bound: calls of Java's runDagsterPipes
          MaxFaults    \* bound: failed writes and uploads

AllVariants == ({"rust", "typescript"} \X {"direct", "held"})
               \cup ({"java"} \X {"direct", "upload"})

ASSUME PipesAssumption ==
  /\ IsFiniteSet(Assets) /\ NoKey \notin Assets
  /\ Variants \subseteq AllVariants
  /\ MaxMessages \in Nat /\ MaxRuns \in Nat /\ MaxFaults \in Nat

VARIABLES
  lang, channel, \* the implementation and its channel
  targets,  \* the step's asset keys; {} when the step targets none
  context,  \* "none", "open", "closed"; Rust's is "dropped" at the end
  made,     \* assets reported as materialized (Java, TypeScript)
  accepted, \* the messages whose write returned without an error
  buffer,   \* messages the channel holds
  logs,     \* messages the clone of the channel in Rust's logger holds
  chunk,    \* messages being uploaded
  uploader, \* where the upload thread is
  arrived,  \* the messages that reached their destination
  lost,     \* numbers of accepted messages a fault has lost
  caller,   \* where runDagsterPipes is: "idle", "running" or "joining"
  pending,  \* an exception was reported to Java's context
  runs,     \* the calls of runDagsterPipes
  faults    \* failed writes and uploads so far

rigid == <<lang, channel, targets>>
held == <<buffer, logs, chunk, uploader>>
session == <<caller, pending, runs>>
vars == <<rigid, context, made, accepted, held, arrived, lost, session, faults>>

Methods == {"opened", "closed", "log", "report_asset_materialization",
            "report_asset_check", "report_custom_message"}
Messages == [n : Nat, method : Methods, key : Assets \cup {NoKey}, failed : BOOLEAN]
Message(method, key, failed) ==
  [n |-> Len(accepted) + 1, method |-> method, key |-> key, failed |-> failed]
Room == Len(accepted) < MaxMessages

Init ==
  /\ \E v \in Variants : lang = v[1] /\ channel = v[2]
  /\ targets \in SUBSET Assets
  /\ context = "none"
  /\ made = {}
  /\ accepted = << >> /\ buffer = << >> /\ logs = << >> /\ chunk = << >>
  /\ uploader = "none"
  /\ arrived = << >>
  /\ lost = {}
  /\ caller = "idle" /\ pending = FALSE /\ runs = << >>
  /\ faults = 0

------------------------------------------------------------------------------
(***************************************************************************)
(* write_message: a direct channel writes at once, and may fail, which the *)
(* caller is told; the others keep the message.                            *)
(***************************************************************************)
WriteMessage(m) ==
  /\ accepted' = Append(accepted, m)
  /\ IF channel = "direct" THEN arrived' = Append(arrived, m) /\ UNCHANGED buffer
     ELSE buffer' = Append(buffer, m) /\ UNCHANGED arrived
  /\ UNCHANGED faults

WriteFails ==
  /\ channel = "direct" /\ faults < MaxFaults
  /\ faults' = faults + 1
  /\ UNCHANGED <<accepted, arrived, buffer>>

(***************************************************************************)
(* The asset a report is about: {} when the call raises.  The step's only  *)
(* asset may be left out.  Java has no answer for a step without assets.   *)
(***************************************************************************)
OnlyTarget == IF Cardinality(targets) = 1 THEN targets ELSE {}
Resolve(asked) ==
  CASE asked = NoKey                    -> OnlyTarget
    [] asked # NoKey /\ targets = {}    -> {asked}
    [] asked # NoKey /\ targets # {}    -> {asked} \cap targets
JavaResolve(asked) ==
  IF asked = NoKey THEN OnlyTarget ELSE {asked} \cap targets

Asked == Assets \cup {NoKey}

------------------------------------------------------------------------------
(***************************************************************************)
(* Rust.  PipesContext is closed any number of times and then dropped;     *)
(* the logger has a clone of the channel, with a buffer of its own.        *)
(***************************************************************************)
RustNew ==
  /\ lang = "rust" /\ context = "none"
  /\ \/ WriteMessage(Message("opened", NoKey, FALSE)) /\ context' = "open"
     \/ WriteFails /\ UNCHANGED context
  /\ UNCHANGED <<rigid, made, logs, chunk, uploader, lost, session>>

RustReport ==
  /\ lang = "rust" /\ context = "open" /\ Room
  /\ \/ \E asked \in Asked : \E key \in Resolve(asked) :
          \E method \in {"report_asset_materialization", "report_asset_check"} :
            WriteMessage(Message(method, key, FALSE))
     \/ WriteMessage(Message("report_custom_message", NoKey, FALSE))
     \/ WriteFails
  /\ UNCHANGED <<rigid, context, made, logs, chunk, uploader, lost, session>>

RustLog ==
  /\ lang = "rust" /\ context = "open" /\ Room
  /\ LET m == Message("log", NoKey, FALSE)
     IN  \/ channel = "direct" /\ (WriteMessage(m) \/ WriteFails) /\ UNCHANGED logs
         \/ /\ channel = "held"
            /\ accepted' = Append(accepted, m) /\ logs' = Append(logs, m)
            /\ UNCHANGED <<arrived, buffer, faults>>
  /\ UNCHANGED <<rigid, context, made, chunk, uploader, lost, session>>

RustClose ==
  /\ lang = "rust" /\ context = "open" /\ Room
  /\ \/ \E exc \in BOOLEAN : WriteMessage(Message("closed", NoKey, exc))
     \/ WriteFails
  /\ UNCHANGED <<rigid, context, made, logs, chunk, uploader, lost, session>>

(* Flushing tries every message and ignores those that cannot be written:  *)
(* the others arrive in the order they were held in.                       *)
Kth(S, k) == CHOOSE i \in S : Cardinality({j \in S : j <= i}) = k
Flushed(messages, failed) ==
  LET kept == {i \in DOMAIN messages : messages[i].n \notin failed}
  IN  [k \in 1 .. Cardinality(kept) |-> messages[Kth(kept, k)]]

(* Drop closes, whatever comes of it; then the context's channel is dropped, *)
(* then the logger's, each of which flushes what it holds.                  *)
RustDrop ==
  /\ lang = "rust" /\ context = "open"
  /\ context' = "dropped"
  /\ LET m == Message("closed", NoKey, FALSE)
         main == IF channel = "direct" THEN <<m>> ELSE Append(buffer, m)
     IN  \E failed \in SUBSET {(main \o logs)[i].n : i \in DOMAIN (main \o logs)} :
           /\ faults + Cardinality(failed) <= MaxFaults
           /\ faults' = faults + Cardinality(failed)
           /\ accepted' = Append(accepted, m)
           /\ arrived' = arrived \o Flushed(main, failed) \o Flushed(logs, failed)
           /\ lost' = lost \cup failed
  /\ buffer' = << >> /\ logs' = << >>
  /\ UNCHANGED <<rigid, made, chunk, uploader, session>>

------------------------------------------------------------------------------
(***************************************************************************)
(* TypeScript.  One context per process, which knows that it is closed.    *)
(***************************************************************************)
TsGetInstance ==
  /\ lang = "typescript" /\ context = "none"
  /\ \/ WriteMessage(Message("opened", NoKey, FALSE)) /\ context' = "open"
     \/ WriteFails /\ UNCHANGED context
  /\ UNCHANGED <<rigid, made, logs, chunk, uploader, lost, session>>

TsMaterialize(asked) ==
  /\ lang = "typescript" /\ context = "open" /\ Room
  /\ \E key \in Resolve(asked) \ made :
       \/ /\ WriteMessage(Message("report_asset_materialization", key, FALSE))
          /\ made' = made \cup {key}
       \/ WriteFails /\ UNCHANGED made
  /\ UNCHANGED <<rigid, context, logs, chunk, uploader, lost, session>>

TsWrite ==
  /\ lang = "typescript" /\ context = "open" /\ Room
  /\ \/ \E asked \in Asked : \E key \in Resolve(asked) :
          WriteMessage(Message("report_asset_check", key, FALSE))
     \/ \E method \in {"log", "report_custom_message"} :
          WriteMessage(Message(method, NoKey, FALSE))
     \/ WriteFails
  /\ UNCHANGED <<rigid, context, made, logs, chunk, uploader, lost, session>>


(* close writes "closed", then closes the writer, which flushes its buffer. *)
TsClose ==
  /\ lang = "typescript" /\ context = "open"
  /\ \/ \E exc \in BOOLEAN :
          LET m == Message("closed", NoKey, exc)
          IN  /\ context' = "closed"
              /\ accepted' = Append(accepted, m)
              /\ arrived' = arrived \o buffer \o <<m>>
              /\ buffer' = << >>
              /\ UNCHANGED faults
     \/ WriteFails /\ UNCHANGED context
  /\ UNCHANGED <<rigid, made, logs, chunk, uploader, lost, session>>

------------------------------------------------------------------------------
(***************************************************************************)
(* Java.  One context per process; runDagsterPipes passes it to the user's *)
(* code and closes it.                                                     *)
(***************************************************************************)
JavaBuildContext ==
  /\ lang = "java" /\ context = "none"
  /\ \/ WriteMessage(Message("opened", NoKey, FALSE)) /\ context' = "open"
     \/ WriteFails /\ UNCHANGED context
  /\ uploader' = IF channel = "upload" THEN "loop" ELSE "none"
  /\ UNCHANGED <<rigid, made, logs, chunk, lost, session>>

JavaMaterialize(asked) ==
  /\ caller = "running" /\ context = "open" /\ Room
  /\ \E key \in JavaResolve(asked) \ made :
       \/ /\ WriteMessage(Message("report_asset_materialization", key, FALSE))
          /\ made' = made \cup {key}
       \/ WriteFails /\ UNCHANGED made
  /\ UNCHANGED <<rigid, context, logs, chunk, uploader, lost, session>>

JavaWrite ==
  /\ caller = "running" /\ context = "open" /\ Room
  /\ \/ \E asked \in Asked : \E key \in JavaResolve(asked) :
          WriteMessage(Message("report_asset_check", key, FALSE))
     \/ WriteMessage(Message("report_custom_message", NoKey, FALSE))
     \/ WriteFails
  /\ UNCHANGED <<rigid, context, made, logs, chunk, uploader, lost, session>>

(* The logger writes to the channel without asking whether it is closed. *)
JavaLog ==
  /\ lang = "java" /\ context # "none" /\ Room
  /\ WriteMessage(Message("log", NoKey, FALSE)) \/ WriteFails
  /\ UNCHANGED <<rigid, context, made, logs, chunk, uploader, lost, session>>

(* A call of runDagsterPipes; late when an earlier one closed the context. *)
JavaRun ==
  /\ lang = "java" /\ context # "none" /\ caller = "idle" /\ Len(runs) < MaxRuns
  /\ caller' = "running"
  /\ runs' = Append(runs, [raised |-> FALSE, threw |-> FALSE, late |-> context = "closed"])
  /\ UNCHANGED <<rigid, context, made, accepted, held, arrived, lost, pending, faults>>

Return(raised, threw) ==
  runs' = [runs EXCEPT ![Len(runs)] = [@ EXCEPT !.raised = raised, !.threw = threw]]

(* Variant: the closing message says nothing of the exception. *)
JavaCloseQuietly(raised) ==
  /\ WriteMessage(Message("closed", NoKey, FALSE))
  /\ IF channel = "upload" THEN caller' = "joining" /\ Return(raised, FALSE) /\ UNCHANGED context
     ELSE caller' = "idle" /\ Return(raised, pending') /\ context' = "closed"

(* close: write "closed", close the channel, raise the reported exception.  *)
JavaClose(raised) ==
  \/ /\ WriteMessage(Message("closed", NoKey, pending'))
     /\ IF channel = "upload"
        THEN caller' = "joining" /\ Return(raised, FALSE) /\ UNCHANGED context
        ELSE caller' = "idle" /\ Return(raised, pending') /\ context' = "closed"
  \/ WriteFails /\ caller' = "idle" /\ Return(raised, TRUE) /\ UNCHANGED context

(* The user's code returns or raises; the exception is reported to the     *)
(* context, which is then closed.  A closed context is not closed again.   *)
JavaEndRun(raised) ==
  /\ caller = "running"
  /\ pending' = (pending \/ raised)
  /\ IF context = "open" THEN JavaClose(raised)
     ELSE /\ caller' = "idle" /\ Return(raised, FALSE)
          /\ UNCHANGED <<context, accepted, arrived, buffer, faults>>
  /\ UNCHANGED <<rigid, made, logs, chunk, uploader, lost>>

(* Variant: closing waits for the end of the loop, not of the thread. *)
JavaJoinLoop ==
  /\ caller = "joining" /\ uploader = "ended"
  /\ caller' = "idle"
  /\ context' = "closed"
  /\ Return(runs[Len(runs)].raised, pending)
  /\ UNCHANGED <<rigid, made, accepted, held, arrived, lost, pending, faults>>

(* join returns when the upload thread has ended, on whichever way. *)
JavaJoin ==
  /\ caller = "joining" /\ uploader \in {"ended", "dead"}
  /\ caller' = "idle"
  /\ context' = "closed"
  /\ Return(runs[Len(runs)].raised, pending)
  /\ UNCHANGED <<rigid, made, accepted, held, arrived, lost, pending, faults>>

ShouldClose == caller = "joining" \/ context = "closed"

------------------------------------------------------------------------------
(***************************************************************************)
(* uploadLoop: a turn of the loop begins unless the channel should close,  *)
(* and uploads what the buffer holds when enough time has passed.          *)
(***************************************************************************)
BeginTurn ==
  /\ uploader = "loop" /\ ~ ShouldClose
  /\ uploader' = "turn"
  /\ UNCHANGED <<rigid, context, made, accepted, buffer, logs, chunk, arrived, lost, session, faults>>

EndTurn ==
  /\ uploader = "turn"
  /\ uploader' = "loop"
  /\ UNCHANGED <<rigid, context, made, accepted, buffer, logs, chunk, arrived, lost, session, faults>>

(* Variant: the messages leave the buffer newest first.                   *)
TakeChunkReversed ==
  /\ uploader = "turn" /\ buffer # << >>
  /\ chunk' = Reverse(buffer) /\ buffer' = << >>
  /\ uploader' = "uploading"
  /\ UNCHANGED <<rigid, context, made, accepted, logs, arrived, lost, session, faults>>


TakeChunk ==
  /\ uploader = "turn" /\ buffer # << >>
  /\ chunk' = buffer /\ buffer' = << >>
  /\ uploader' = "uploading"
  /\ UNCHANGED <<rigid, context, made, accepted, logs, arrived, lost, session, faults>>

(* Variant: the thread ends without a last flush. *)
LastChunkLeft ==
  /\ uploader = "loop" /\ ShouldClose
  /\ uploader' = "ended"
  /\ UNCHANGED <<rigid, context, made, accepted, buffer, logs, chunk, arrived, lost, session, faults>>

(* After the loop: take what is left, or end. *)
LastChunk ==
  /\ uploader = "loop" /\ ShouldClose
  /\ chunk' = buffer /\ buffer' = << >>
  /\ uploader' = IF buffer = << >> THEN "ended" ELSE "last"
  /\ UNCHANGED <<rigid, context, made, accepted, logs, arrived, lost, session, faults>>

Upload ==
  /\ uploader \in {"uploading", "last"}
  /\ arrived' = arrived \o chunk
  /\ chunk' = << >>
  /\ uploader' = IF uploader = "last" THEN "ended" ELSE "loop"
  /\ UNCHANGED <<rigid, context, made, accepted, buffer, logs, lost, session, faults>>

(* The upload raises, which ends the thread, and the chunk is gone. *)
UploadFails ==
  /\ uploader \in {"uploading", "last"}
  /\ faults < MaxFaults
  /\ faults' = faults + 1
  /\ lost' = lost \cup {chunk[i].n : i \in DOMAIN chunk}
  /\ chunk' = << >>
  /\ uploader' = "dead"
  /\ UNCHANGED <<rigid, context, made, accepted, buffer, logs, arrived, session>>

Uploading == BeginTurn \/ EndTurn \/ TakeChunk \/ LastChunk \/ Upload \/ UploadFails

------------------------------------------------------------------------------
Next ==
  \/ RustNew \/ RustReport \/ RustLog \/ RustClose \/ RustDrop
  \/ TsGetInstance \/ TsWrite \/ TsClose
  \/ JavaBuildContext \/ JavaWrite \/ JavaLog \/ JavaRun \/ JavaJoin
  \/ \E raised \in BOOLEAN : JavaEndRun(raised)
  \/ \E asked \in Asked : TsMaterialize(asked) \/ JavaMaterialize(asked)
  \/ Uploading

Spec == Init /\ [][Next]_vars

(* Threads are scheduled: the upload thread, and the one that joins it. *)
FairSpec == Spec /\ WF_vars(Uploading) /\ WF_vars(JavaJoin)

------------------------------------------------------------------------------
(***************************************************************************)
(* Properties.                                                             *)
(***************************************************************************)
(* Messages arrive in the order they were written in, each at most once,   *)
(* whatever is lost; only the log messages of a Rust context that holds    *)
(* its messages have an order of their own.                                *)
Ordered ==
  \A i, j \in DOMAIN arrived :
    i < j =>
      \/ arrived[i].n < arrived[j].n
      \/ lang = "rust" /\ channel = "held"
           /\ arrived[i].method # "log" /\ arrived[j].method = "log"

ClosedAt == {i \in DOMAIN accepted : accepted[i].method = "closed"}
Arrived(n) == \E i \in DOMAIN arrived : arrived[i].n = n

(* Closing waits for the messages: once it has returned, those written up  *)
(* to "closed" have arrived, except what a failed upload or flush lost, or *)
(* what was held when the upload thread died.                              *)
ClosedMeansSent ==
  context \in {"closed", "dropped"} /\ uploader # "dead" =>
    \A n \in 1 .. Max(ClosedAt) : Arrived(n) \/ n \in lost

(* An exception of the user's Java code is never kept from everybody: the  *)
(* "closed" message tells Dagster, also when an earlier call failed to     *)
(* close, and no such message passes it off as a success; when none could  *)
(* be written the caller gets an exception.  A call on a closed context is *)
(* excused.  Whether the caller also gets what its code raised is left     *)
(* open: runDagsterPipes' comment says no, and close throws it.            *)
FailureTold ==
  \A i \in DOMAIN runs : runs[i].raised /\ ~ runs[i].late =>
    /\ ClosedAt # {} \/ runs[i].threw
    /\ \A c \in ClosedAt : accepted[c].failed

(* Closing returns, whatever the upload thread meets. *)
CloseReturns == caller = "joining" ~> caller = "idle"

==============================================================================
