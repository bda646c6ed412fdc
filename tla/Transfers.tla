------------------------------ MODULE Transfers ------------------------------
(***************************************************************************)
(* Opening a URL, and the child process behind most of them                *)
(* (crates/webdataset-io/src/gopen.rs, pipe.rs, url.rs).                   *)
(*                                                                         *)
(* A URL is a sequence of parts, the first of which may be its scheme.     *)
(* What is opened is <<kind, ignored>>: the standard stream, a file, or a  *)
(* child with the exit statuses that are no failure of it.  A child is     *)
(* [output, exit, cut]: how much it writes, how it ends after that, and    *)
(* how it ends when its output is closed before.                           *)
(***************************************************************************)
EXTENDS Integers, SequencesExt, Results

CONSTANTS
  Schemes, (* the parts that are schemes, known or not                     *)
  Env      (* [secure, rewrite, viaAis]: secure mode; GOPEN_REWRITE as     *)
           (* <<>> or <<rules>>, a rule being [prefix, replacement];       *)
           (* USE_AIS_FOR as a set                                         *)

Killed == -1
DefaultIgnored == {0, 141}

-----------------------------------------------------------------------------
(* The scheme table.                                                       *)

Curl == {"http", "https", "sftp", "ftps", "ftp", "scp"}

(* USE_AIS_FOR is read last, and replaces what is there. *)
Table ==
  [scheme \in Env.viaAis |-> "ais"]
    @@ [scheme \in Curl |-> "curl"]
    @@ [scheme \in {"pipe", "gs", "htgs", "ais", "hf"} |-> scheme]

Scheme(url) == IF url[1] \in Schemes THEN url[1] ELSE "none"

(* The first rule that fits is applied; with the variable set, nothing is  *)
(* opened in secure mode, not even a URL that no rule fits.                *)
RewriteUrl(url) ==
  IF Env.rewrite = <<>> THEN Ok(url)
  ELSE IF Env.secure THEN Err
  ELSE LET rules == Env.rewrite[1]
           i == SelectInSeq(rules, LAMBDA rule : IsPrefix(rule.prefix, url))
       IN  IF i = 0 THEN Ok(url)
           ELSE Ok(rules[i].replacement \o SubSeq(url, Len(rules[i].prefix) + 1, Len(url)))

(* PipeScheme, CommandScheme and HuggingFaceScheme. *)
OpenRead(handler) ==
  IF handler = "pipe"
  THEN IF Env.secure THEN Err ELSE Ok(<<"child", DefaultIgnored>>)
  ELSE Ok(<<"child", DefaultIgnored \cup {141, 23}>>)

OpenWrite(handler) ==
  CASE handler = "pipe" -> OpenRead(handler)
    [] handler \in {"htgs", "hf"} -> Err
    [] OTHER -> Ok(<<"child", DefaultIgnored \cup {141, 26}>>)

Gopen(url, writing) ==
  LET rewritten == RewriteUrl(url)
      scheme == Scheme(rewritten.of)
  IN  IF url = <<"-">> THEN Ok(<<"stdio", {}>>)
      ELSE IF rewritten = Err THEN Err
      ELSE IF scheme \in {"none", "file"}
           THEN IF Env.secure THEN Err ELSE Ok(<<"file", {}>>)
      ELSE IF scheme \notin DOMAIN Table THEN Err
      ELSE IF writing THEN OpenWrite(Table[scheme]) ELSE OpenRead(Table[scheme])

-----------------------------------------------------------------------------
(* Pipe: open is whether it still has its handle, status what the child    *)
(* ended with, once that is known.                                         *)

Spawned(child, ignored) ==
  [child |-> child, left |-> child.output, open |-> TRUE, status |-> <<>>, ignored |-> ignored]

(* The handle is closed before the child is waited for, so a child that    *)
(* still writes is cut; the status is asked for once.                      *)
Finished(pipe) ==
  LET ended == IF pipe.left = 0 THEN pipe.child.exit ELSE pipe.child.cut
      status == IF pipe.status = <<>> THEN <<ended>> ELSE pipe.status
  IN  [pipe EXCEPT !.open = FALSE, !.status = status]

FinishResult(pipe) == IF Finished(pipe).status[1] \in pipe.ignored THEN Ok(0) ELSE Err

(* Mutant: the end of the output ends the pipe, however the child ended. *)
ReadResultQuiet(pipe) == IF pipe.open /\ pipe.left > 0 THEN Ok(1) ELSE Ok(0)

(* read: how much came, 0 at the end, which is when the child's status is  *)
(* looked at.                                                              *)
ReadResult(pipe) ==
  IF ~pipe.open THEN Ok(0)
  ELSE IF pipe.left > 0 THEN Ok(1)
  ELSE FinishResult(pipe)

AfterRead(pipe) ==
  IF ~pipe.open THEN pipe
  ELSE IF pipe.left > 0 THEN [pipe EXCEPT !.left = @ - 1]
  ELSE Finished(pipe)

(* A reader's calls, and what each returned. *)
Calls(child, ignored, ops) ==
  LET call(state, op) ==
        [pipe |-> IF op = "read" THEN AfterRead(state.pipe) ELSE Finished(state.pipe),
         results |-> Append(state.results,
                            IF op = "read" THEN ReadResult(state.pipe) ELSE FinishResult(state.pipe))]
  IN  FoldLeft(call, [pipe |-> Spawned(child, ignored), results |-> <<>>], ops).results
=============================================================================
