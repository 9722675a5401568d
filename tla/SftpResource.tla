----------------------------- MODULE SftpResource -----------------------------
(***************************************************************************)
(* dagster-sftp: a call of SFTPResource opens a connection of its own, has *)
(* asyncssh do the work, and closes it.  Paths are model values; the       *)
(* server's state of a path is "none", "file", "dir", or "part" for a file *)
(* that a broken transfer has left incomplete.                             *)
(*                                                                         *)
(* A call's fields: op, paths (a sequence), and handler: "default" for the *)
(* resource's error_handler, or the caller's own, which "ignore"s errors   *)
(* or "raise"s them; for list_files also `only` ("all", "files", "dirs",   *)
(* "both").  asyncssh itself is external.                                  *)
(***************************************************************************)
EXTENDS RemoteCall

CONSTANTS SftpDir,  \* a directory
          SftpFiles \* files in it

SftpPaths == {SftpDir} \cup SftpFiles
ASSUME SftpAssumption ==
  /\ IsFiniteSet(SftpFiles) /\ SftpDir \notin SftpFiles /\ "connection" \notin SftpPaths
  /\ \A c \in Calls : c.client = "sftp" =>
       /\ c.paths \in Seq(SftpPaths)
       /\ c.op = "rename" => Len(c.paths) = 2
       /\ c.op = "list_files" => c.only \in {"all", "files", "dirs", "both"}
Sftp(op) == call.client = "sftp" /\ call.op = op

\* servers a call may find: the directory with some files, or nothing
SftpServers ==
  {[p \in SftpPaths \cup {"connection"} |->
      CASE p = "connection" -> "up" [] p = SftpDir -> "dir" [] p \in there -> "file"
        [] OTHER -> "none"] : there \in SUBSET SftpFiles}
  \cup {[p \in SftpPaths \cup {"connection"} |-> IF p = "connection" THEN "up" ELSE "none"]}
SftpBegin == \E c \in Calls, r \in SftpServers :
               c.client = "sftp" /\ Begin(c, "connect", c.paths, r)

Up == remote["connection"] = "up"
There(p) == remote[p] # "none"
Rest == left' = Tail(left)
SftpKept == UNCHANGED <<call, tries>>

(***************************************************************************)
(* error_handler: an empty glob is a warning, everything else is raised.   *)
(* The caller's own handler takes its place.                               *)
(***************************************************************************)
SwallowsAll(error) == TRUE
Swallows(error) == \/ call.handler = "default" /\ error = "no matches"
                   \/ call.handler = "ignore"

(***************************************************************************)
(* Every call connects first.  test_connection only does that, and         *)
(* is_authenticated answers for any exception of it.                       *)
(***************************************************************************)
Tests == {"test_connection", "is_authenticated"}
SftpConnect ==
  /\ call.client = "sftp" /\ call.op \notin Tests /\ at = "connect"
  /\ IF Sftp("list_files") THEN call.only # "both" ELSE TRUE
  /\ \/ Miss /\ Raise
     \/ NoTrouble /\ Goto(IF Sftp("list_files") THEN "glob" ELSE "work")
  /\ SftpKept /\ UNCHANGED <<left, service>>
SftpTest ==
  /\ call.client = "sftp" /\ call.op \in Tests /\ at = "connect"
  /\ \/ NoTrouble /\ Return(TRUE)
     \/ Miss /\ IF Sftp("is_authenticated") THEN Return(FALSE) ELSE Raise
  /\ SftpKept /\ UNCHANGED <<left, service>>

\* the connection breaks: every request after that is refused
SftpDrop == /\ call.client = "sftp" /\ at \notin {"connect", "ended"} /\ Up
            /\ Miss /\ Set("connection", "down")
            /\ SftpKept /\ UNCHANGED <<at, left, answer, told>>

(***************************************************************************)
(* list_files: one glob, then a stat of each match.  An error of a stat is *)
(* given to the caller's handler and, without one, to nobody.              *)
(***************************************************************************)
Globbed == {p \in SftpFiles : There(p)}
SftpRefuse == /\ Sftp("list_files") /\ at = "connect" /\ call.only = "both"
              /\ Raise /\ SftpKept /\ NoTrouble /\ UNCHANGED <<left, service>>
SftpGlob ==
  /\ Sftp("list_files") /\ at = "glob"
  /\ \/ \E found \in SetToAllKPermutations(Globbed) :
          /\ Up /\ Globbed # {} /\ Len(found) = Cardinality(Globbed)
          /\ Goto("stat") /\ left' = found
     \/ /\ ~Up \/ Globbed = {}
        /\ IF Swallows(IF Up THEN "no matches" ELSE "lost") THEN Return(<< >>) ELSE Raise
        /\ UNCHANGED left
  /\ SftpKept /\ NoTrouble /\ UNCHANGED service

\* should_include_file, of what from_sftp_attrs makes of the attributes
Included(kind) == \/ call.only = "all"
                  \/ call.only = "files" /\ kind \in {"file", "part"}
                  \/ call.only = "dirs" /\ kind = "dir"
SftpStat ==
  /\ Sftp("list_files") /\ at = "stat" /\ left # << >>
  /\ LET p == Head(left) IN
     \/ /\ Up /\ There(p) /\ Rest
        /\ answer' = IF Included(remote[p]) THEN Append(answer, p) ELSE answer
        /\ UNCHANGED <<at, told>>
     \/ /\ ~(Up /\ There(p))
        /\ IF call.handler = "raise" THEN Raise /\ UNCHANGED left
           ELSE Rest /\ UNCHANGED <<at, answer, told>>
  /\ SftpKept /\ NoTrouble /\ UNCHANGED service
SftpListed == /\ Sftp("list_files") /\ at = "stat" /\ left = << >>
              /\ Return(answer) /\ SftpKept /\ NoTrouble /\ UNCHANGED <<left, service>>

(***************************************************************************)
(* get_file and put_file: the paths in order.  An error is the handler's;  *)
(* an upload that breaks leaves what it has written.                       *)
(***************************************************************************)
Transferred(p) == /\ answer' = Append(answer, p) /\ Rest /\ UNCHANGED <<at, told>>
NotTransferred == IF Swallows("other") THEN Rest /\ UNCHANGED <<at, answer, told>>
                  ELSE Raise /\ UNCHANGED left
SftpGet ==
  /\ Sftp("get_file") /\ at = "work" /\ left # << >>
  /\ LET p == Head(left)
     IN IF Up /\ There(p) THEN Transferred(p) ELSE NotTransferred
  /\ SftpKept /\ NoTrouble /\ UNCHANGED service
SftpPut ==
  /\ Sftp("put_file") /\ at = "work" /\ left # << >>
  /\ LET p == Head(left)
     IN \/ Up /\ remote[SftpDir] = "dir" /\ Transferred(p) /\ Set(p, "file")
        \/ /\ ~(Up /\ remote[SftpDir] = "dir") /\ NotTransferred
           /\ IF Up \/ remote[SftpDir] # "dir" THEN UNCHANGED service
              ELSE UNCHANGED service \/ Set(p, "part")
  /\ SftpKept /\ NoTrouble
SftpTransferred ==
  /\ call.client = "sftp" /\ call.op \in {"get_file", "put_file"} /\ at = "work"
  /\ left = << >> /\ Return(answer)
  /\ SftpKept /\ NoTrouble /\ UNCHANGED <<left, service>>

(***************************************************************************)
(* delete_file and delete_files: all removals are sent side by side.  The  *)
(* first that fails cancels the group, which may still carry out others.   *)
(***************************************************************************)
Without(gone) == [p \in DOMAIN remote |-> IF p \in gone THEN "none" ELSE remote[p]]
Waiting == {left[i] : i \in DOMAIN left}
SftpDelete ==
  /\ call.client = "sftp" /\ call.op \in {"delete_file", "delete_files"} /\ at = "work"
  /\ \/ \E i \in DOMAIN left : /\ Up /\ remote[left[i]] \in {"file", "part"}
                               /\ Set(left[i], "none") /\ left' = RemoveAt(left, i)
                               /\ UNCHANGED <<at, answer, told>>
     \/ /\ \E p \in Waiting : ~Up \/ remote[p] \notin {"file", "part"}
        /\ \E gone \in SUBSET {p \in Waiting : Up /\ remote[p] \in {"file", "part"}} :
             Becomes(Without(gone))
        /\ Raise /\ UNCHANGED left
     \/ left = << >> /\ Return(<< >>) /\ UNCHANGED <<left, service>>
  /\ SftpKept /\ NoTrouble

(***************************************************************************)
(* mkdir, rmtree, rename and the questions: one call of asyncssh each.     *)
(***************************************************************************)
SftpMkdir ==
  /\ Sftp("mkdir") /\ at = "work"
  /\ \/ /\ Up /\ ~There(SftpDir) /\ Set(SftpDir, "dir") /\ Return(<< >>)
     \/ /\ Up /\ remote[SftpDir] = "dir" /\ UNCHANGED service
        /\ IF call.exist_ok THEN Return(<< >>) ELSE Raise
     \/ ~Up /\ Raise /\ UNCHANGED service
  /\ SftpKept /\ NoTrouble /\ UNCHANGED left

\* rmtree: file by file, then the directory, which must be empty by then
SftpRmtree ==
  /\ Sftp("rmtree")
  /\ \/ /\ at = "work" /\ Up /\ There(SftpDir) /\ Goto("remove")
        /\ left' = SetToSeq(Globbed) /\ UNCHANGED service
     \/ /\ at = "remove" /\ left # << >> /\ Up /\ There(Head(left))
        /\ Set(Head(left), "none") /\ Rest /\ UNCHANGED <<at, answer, told>>
     \/ /\ at = "remove" /\ left = << >> /\ Up /\ Globbed = {}
        /\ Set(SftpDir, "none") /\ Return(<< >>) /\ UNCHANGED left
     \/ /\ \/ at \in {"work", "remove"} /\ ~Up
           \/ at = "work" /\ ~There(SftpDir)
           \/ at = "remove" /\ left # << >> /\ ~There(Head(left))
           \/ at = "remove" /\ left = << >> /\ Globbed # {}
        /\ Raise /\ UNCHANGED <<left, service>>
  /\ SftpKept /\ NoTrouble

SftpRename ==
  /\ Sftp("rename") /\ at = "work"
  /\ LET old == left[1]
         new == left[2]
     IN \/ /\ Up /\ There(old) /\ ~There(new) /\ Return(<< >>)
           /\ Becomes([remote EXCEPT ![new] = remote[old], ![old] = "none"])
        \/ ~(Up /\ There(old) /\ ~There(new)) /\ Raise /\ UNCHANGED service
  /\ SftpKept /\ NoTrouble /\ UNCHANGED left

SftpAnswers(op, value) == /\ Sftp(op) /\ at = "work"
                          /\ IF Up THEN Return(value) ELSE Raise
                          /\ SftpKept /\ NoTrouble /\ UNCHANGED <<left, service>>
SftpExists == Sftp("file_exists") /\ left # << >> /\ SftpAnswers("file_exists", There(left[1]))
SftpIsDir == Sftp("is_dir") /\ left # << >> /\ SftpAnswers("is_dir", remote[left[1]] = "dir")
SftpIsFile == Sftp("is_file") /\ left # << >> /\ SftpAnswers("is_file", remote[left[1]] \in {"file", "part"})
SftpInfo == /\ Sftp("get_file_info") /\ at = "work"
            /\ IF Up /\ There(left[1]) THEN Return(remote[left[1]]) ELSE Raise
            /\ SftpKept /\ NoTrouble /\ UNCHANGED <<left, service>>

SftpOthers == /\ call.client = "sftp" /\ There(SftpDir)
              /\ \E p \in SftpFiles :
                   Others([remote EXCEPT ![p] = IF There(p) THEN "none" ELSE "file"])

SftpNext == \/ SftpConnect \/ SftpTest \/ SftpRefuse \/ SftpDrop \/ SftpGlob \/ SftpStat
            \/ SftpListed \/ SftpGet \/ SftpPut \/ SftpTransferred \/ SftpDelete
            \/ SftpMkdir \/ SftpRmtree \/ SftpRename \/ SftpExists \/ SftpIsDir
            \/ SftpIsFile \/ SftpInfo

(***************************************************************************)
(* What a call that has returned promises.                                 *)
(***************************************************************************)
SftpStays(state) == {p \in SftpFiles : <<p, state>> \in steady}
Asked == {call.paths[i] : i \in DOMAIN call.paths}
SftpDone ==
  CASE call.op = "delete_file" \/ call.op = "delete_files" ->
         Asked \cap SftpStays("file") = {}
    [] call.op = "put_file" ->
         call.handler = "ignore" \/ Asked \cap SftpStays("none") = {}
    [] call.op = "get_file" ->
         call.handler = "ignore" \/ Asked \cap SftpStays("none") = {}
    [] call.op = "rmtree" -> SftpStays("file") = {} /\ <<SftpDir, "dir">> \notin steady
    [] call.op = "mkdir" -> <<SftpDir, "none">> \notin steady
    [] call.op = "rename" -> <<call.paths[1], "file">> \notin steady
                             /\ <<call.paths[2], "none">> \notin steady
    [] call.op = "file_exists" -> <<call.paths[1], IF answer THEN "none" ELSE "file">>
                                  \notin steady
    [] OTHER -> TRUE

\* list_files, as long as the connection lasts
SftpListing ==
  (call.op = "list_files" /\ remote["connection"] = "up" /\ call.only # "dirs")
    => /\ SftpStays("file") \subseteq {answer[i] : i \in DOMAIN answer}
       /\ SftpStays("none") \cap {answer[i] : i \in DOMAIN answer} = {}
       /\ IsInjective(answer)
===============================================================================
