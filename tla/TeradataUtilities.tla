--------------------------- MODULE TeradataUtilities ---------------------------
(***************************************************************************)
(* dagster_teradata/ttu: BTEQ scripts, TPT data definition (tbuild) and    *)
(* TPT loads (tdload), run on the machine of the process or, through SSH,  *)
(* on a remote host.  A process has one object per utility, used for call  *)
(* after call, which remembers its SSH client.  A remote call sends its    *)
(* script as an encrypted file: BTEQ's has the same name for every call,   *)
(* TPT's a name of its own.                                                *)
(***************************************************************************)
EXTENDS Naturals, FiniteSets

CONSTANTS Procs,     \* processes, each with one connection resource
          Hosts,     \* remote hosts, one working directory on each
          Local,     \* the machine of the process; an absent SSH client
          Closed,    \* an SSH client that could not connect
          MaxCalls   \* bound: how many calls each process makes

ASSUME TtuAssumption ==
  /\ Local \notin Hosts /\ Closed \notin Hosts /\ Local # Closed
  /\ MaxCalls \in [Procs -> Nat]

Utilities == {"bteq", "ddl", "tdload"}
Ids == UNION {{p} \X (1 .. MaxCalls[p]) : p \in Procs}
Calls == {c \in [util : Utilities, host : Hosts \cup {Local}, file : BOOLEAN] :
            c.file => c.util # "ddl"}

VARIABLES made,      \* calls a process has begun
          call,      \* its current, or last, call
          at,        \* where that call is
          ssh,       \* the SSH client of each utility of a process
          files,     \* script files on the remote hosts
          removals,  \* rm commands sent and not yet carried out
          ran,       \* which script ran for which call, and where
          result,    \* how each call ended
          undeleted  \* calls whose remote files a deletion failed to remove

ttuVars == <<made, call, at, ssh, files, removals, ran, result, undeleted>>

Id(p) == <<p, made[p]>>
Util(p) == call[p].util
Bteq(p) == Util(p) = "bteq"

(* execute_ddl goes by the client the object holds, the others by the host *)
(* the call names.                                                         *)
WhereClient(p) ==
  IF Util(p) # "bteq" /\ ssh[p][Util(p)] # Local THEN ssh[p][Util(p)] ELSE call[p].host
Where(p) ==
  IF Util(p) = "ddl" /\ ssh[p]["ddl"] # Local THEN ssh[p]["ddl"] ELSE call[p].host

(* Files: the encrypted script and, for TPT, the script it is opened into. *)
BteqName == <<"bteq_script.enc">>
EncName(p) == IF Bteq(p) THEN BteqName ELSE <<Id(p), "enc">>
PlainName(p) == <<Id(p), "plain">>
File(h, n, id) == [host |-> h, name |-> n, of |-> id]
At(h, n) == {f \in files : f.host = h /\ f.name = n}

(* A file opens with the password its own call has made up for it. *)
OpensWithAny(f, p) == f.of \in Ids
Opens(f, p) == f.of = Id(p)

TtuInit ==
  /\ made = [p \in Procs |-> 0]
  /\ call = [p \in Procs |-> [util |-> "bteq", host |-> Local, file |-> FALSE]]
  /\ at = [p \in Procs |-> "idle"]
  /\ ssh = [p \in Procs |-> [u \in Utilities |-> Local]]
  /\ files = {} /\ removals = {} /\ ran = {}
  /\ undeleted = {}
  /\ result = [id \in Ids |-> "none"]

------------------------------------------------------------------------------
Goto(p, stage) == at' = [at EXCEPT ![p] = stage]
Outcome(p, r) == result' = [result EXCEPT ![Id(p)] = r]

(* An exception: BTEQ's finally clause removes the remote file once there  *)
(* is an encrypted one, TPT's removes local files only.                    *)
Raise(p) ==
  /\ Outcome(p, "raised")
  /\ Goto(p, IF Bteq(p) /\ at[p] \in {"found", "sent"} THEN "closing" ELSE "idle")

Begin(p, c) ==
  /\ at[p] = "idle"
  /\ made[p] < MaxCalls[p]
  /\ call' = [call EXCEPT ![p] = c]
  /\ made' = [made EXCEPT ![p] = @ + 1]
  /\ Goto(p, "asked")
  /\ UNCHANGED <<ssh, files, removals, ran, result, undeleted>>

BeginBteq(p) == \E c \in Calls : c.util = "bteq" /\ Begin(p, c)
BeginDdl(p) == \E c \in Calls : c.util = "ddl" /\ Begin(p, c)
BeginTdload(p) == \E c \in Calls : c.util = "tdload" /\ Begin(p, c)

(* Arguments the resource or the operator refuses. *)
Refuse(p) ==
  /\ at[p] = "asked"
  /\ Raise(p)
  /\ UNCHANGED <<made, call, ssh, files, removals, ran, undeleted>>

(* The client is kept whether or not it could connect. *)
Connect(p, util) ==
  /\ at[p] = "asked" /\ Util(p) = util
  /\ call[p].host \in Hosts
  /\ \/ /\ ssh' = [ssh EXCEPT ![p][util] = call[p].host]
        /\ Goto(p, "ready")
        /\ UNCHANGED result
     \/ /\ ssh' = [ssh EXCEPT ![p][util] = Closed]
        /\ Raise(p)
  /\ UNCHANGED <<made, call, files, removals, ran, undeleted>>

ConnectBteq(p) == Connect(p, "bteq")
ConnectDdl(p) == Connect(p, "ddl")
ConnectTdload(p) == Connect(p, "tdload")

NoConnection(p) ==
  /\ at[p] = "asked"
  /\ call[p].host = Local
  /\ Goto(p, "ready")
  /\ UNCHANGED <<made, call, ssh, files, removals, ran, result, undeleted>>

(* A script in a file: BTEQ reads it.  tdload's handlers call the executor *)
(* with the wrong arguments, or find the call not set up for them.         *)
ReadBteqFile(p) ==
  /\ at[p] = "ready" /\ Bteq(p) /\ call[p].file
  /\ \/ call' = [call EXCEPT ![p].file = FALSE] /\ UNCHANGED <<at, result>>
     \/ Raise(p) /\ UNCHANGED call
  /\ UNCHANGED <<made, ssh, files, removals, ran, undeleted>>

ReadJobVarFile(p) ==
  /\ at[p] = "ready" /\ ~ Bteq(p) /\ call[p].file
  /\ Raise(p)
  /\ UNCHANGED <<made, call, ssh, files, removals, ran, undeleted>>

Statuses == {"zero", "other"}

(* A status other than zero: TPT raises, BTEQ only when the output tells   *)
(* of a failure and the status is not one the call accepts.                *)
Exits(p, status) ==
  \/ /\ status = "zero" \/ Bteq(p)
     /\ Outcome(p, status)
     /\ Goto(p, IF Bteq(p) /\ Where(p) # Local THEN "closing" ELSE "idle")
  \/ /\ status = "other"
     /\ Raise(p)

Ready(p) == at[p] = "ready" /\ ~ call[p].file

(* The utility may be missing, or the process that runs it not start. *)
RunLocally(p, util) ==
  /\ Ready(p) /\ Util(p) = util
  /\ Where(p) = Local
  /\ \/ /\ ran' = ran \cup {[script |-> Id(p), by |-> Id(p), host |-> Local]}
        /\ \E s \in Statuses : Exits(p, s)
     \/ Raise(p) /\ UNCHANGED ran
  /\ UNCHANGED <<made, call, ssh, files, removals, undeleted>>

RunBteqLocally(p) == RunLocally(p, "bteq")
RunTbuildLocally(p) == RunLocally(p, "ddl")
RunTdloadLocally(p) == RunLocally(p, "tdload")

(* The utility is looked for on the host. *)
Verify(p) ==
  /\ Ready(p)
  /\ Where(p) # Local
  /\ \/ Where(p) \in Hosts /\ Goto(p, "found") /\ UNCHANGED result
     \/ Raise(p)
  /\ UNCHANGED <<made, call, ssh, files, removals, ran, undeleted>>

VerifyBteq(p) == Bteq(p) /\ Verify(p)
VerifyTpt(p) == ~ Bteq(p) /\ Verify(p)

Put(p) == files' = (files \ At(Where(p), EncName(p))) \cup {File(Where(p), EncName(p), Id(p))}

(* The script is encrypted and sent; a transfer that fails may have begun. *)
Transfer(p) ==
  /\ at[p] = "found"
  /\ \/ Put(p) /\ Goto(p, "sent") /\ UNCHANGED result
     \/ Put(p) /\ Raise(p)
     \/ Raise(p) /\ UNCHANGED files
  /\ UNCHANGED <<made, call, ssh, removals, ran, undeleted>>

Opened(p) == \E f \in At(Where(p), EncName(p)) : Opens(f, p)

(* BTEQ reads what openssl gets out of the file, which is nothing when     *)
(* openssl fails or the file is not there, or not this call's: the status  *)
(* is BTEQ's, whatever openssl says.                                       *)
Piped(p) ==
  {[script |-> f.of, by |-> Id(p), host |-> Where(p)] :
     f \in {g \in At(Where(p), EncName(p)) : Opens(g, p)}}

RunBteq(p) ==
  /\ at[p] = "sent" /\ Bteq(p)
  /\ ran' \in {ran, ran \cup Piped(p)}
  /\ (\E s \in Statuses : Exits(p, s)) \/ Raise(p)
  /\ UNCHANGED <<made, call, ssh, files, removals, undeleted>>

(* exec_command sends the rm and waits for nothing. *)
CloseBteq(p) ==
  /\ at[p] = "closing"
  /\ Goto(p, "idle")
  /\ \/ removals' = removals \cup {[host |-> Where(p), by |-> Id(p)]} /\ UNCHANGED <<result, undeleted>>
     \/ Outcome(p, "raised") /\ undeleted' = undeleted \cup {Id(p)} /\ UNCHANGED removals
  /\ UNCHANGED <<made, call, ssh, files, ran>>

RemoveFile(r) ==
  /\ removals' = removals \ {r}
  /\ files' = files \ At(r.host, BteqName)
  /\ UNCHANGED <<made, call, at, ssh, ran, result, undeleted>>

(* TPT: the file is opened into another one, which is then made read-only. *)
PlainFile(p) == File(Where(p), PlainName(p), Id(p))
Protect(p) == (Goto(p, "opened") /\ UNCHANGED result) \/ Raise(p)

DecryptUnchecked(p) ==
  /\ at[p] = "sent" /\ ~ Bteq(p)
  /\ files' \in {files, files \cup {PlainFile(p)}}
  /\ Protect(p)
  /\ UNCHANGED <<made, call, ssh, removals, ran, undeleted>>

Decrypt(p) ==
  /\ at[p] = "sent" /\ ~ Bteq(p)
  /\ \/ Opened(p) /\ files' = files \cup {PlainFile(p)} /\ Protect(p)
     \/ Raise(p) /\ UNCHANGED files
  /\ UNCHANGED <<made, call, ssh, removals, ran, undeleted>>

(* remote_secure_delete: each file is tried, and no failure is told.  The  *)
(* files a call leaves are those of an attempted deletion that failed.     *)
Own(p) == At(Where(p), EncName(p)) \cup At(Where(p), PlainName(p))
DeleteEncrypted(p) ==
  /\ files' = files \ At(Where(p), EncName(p))
  /\ UNCHANGED undeleted

Delete(p) ==
  \E kept \in SUBSET Own(p) :
    /\ files' = files \ (Own(p) \ kept)
    /\ undeleted' = IF kept = {} THEN undeleted ELSE undeleted \cup {Id(p)}

(* The connection may be lost before, or after, the command has run. *)
RunOpened(p, util) ==
  /\ at[p] = "opened" /\ Util(p) = util
  /\ \/ /\ ran' = ran \cup {[script |-> f.of, by |-> Id(p), host |-> Where(p)] :
                              f \in At(Where(p), PlainName(p))}
        /\ \/ Delete(p) /\ \E s \in Statuses : Exits(p, s)
           \/ Raise(p) /\ UNCHANGED <<files, undeleted>>
     \/ Raise(p) /\ UNCHANGED <<ran, files, undeleted>>
  /\ UNCHANGED <<made, call, ssh, removals>>

RunTbuild(p) == RunOpened(p, "ddl")
RunTdload(p) == RunOpened(p, "tdload")

(* The process is killed: nothing of what it would still do is done. *)
Die(p) ==
  /\ at[p] \notin {"idle", "dead"}
  /\ Outcome(p, "lost")
  /\ Goto(p, "dead")
  /\ UNCHANGED <<made, call, ssh, files, removals, ran, undeleted>>

TtuNext ==
  \/ \E p \in Procs :
       \/ BeginBteq(p) \/ BeginDdl(p) \/ BeginTdload(p) \/ Refuse(p)
       \/ ConnectBteq(p) \/ ConnectDdl(p) \/ ConnectTdload(p) \/ NoConnection(p)
       \/ ReadBteqFile(p) \/ ReadJobVarFile(p)
       \/ RunBteqLocally(p) \/ RunTbuildLocally(p) \/ RunTdloadLocally(p)
       \/ VerifyBteq(p) \/ VerifyTpt(p) \/ Transfer(p)
       \/ RunBteq(p) \/ CloseBteq(p)
       \/ Decrypt(p) \/ RunTbuild(p) \/ RunTdload(p)
       \/ Die(p)
  \/ \E r \in removals : RemoveFile(r)

TtuSpec == TtuInit /\ [][TtuNext]_ttuVars

------------------------------------------------------------------------------
(* Although BTEQ calls share the name of the remote file, the script that  *)
(* runs for a call is its own.                                             *)
NoForeignScript == \A r \in ran : r.script = r.by

(* A call that returns zero has run its script, for BTEQ on the machine of *)
(* the process and for TPT anywhere.  It is not said of BTEQ on a remote   *)
(* host: there the status is that of a BTEQ which may have read nothing.   *)
SuccessMeansRan ==
  \A p \in Procs :
    made[p] > 0 /\ result[Id(p)] = "zero" /\ ~ (Bteq(p) /\ Where(p) # Local)
      => \E r \in ran : r.by = Id(p)

(* A BTEQ call that is over and a TPT call that returned have no file left *)
(* on the remote host, unless the removal is on its way or was tried and   *)
(* could not be done.  It is not said of TPT calls that raised, of which   *)
(* see AutomaticCleanup.                                                   *)
RemoteClean ==
  \A f \in files :
    (IF f.name = BteqName THEN result[f.of] \in {"zero", "other", "raised"} ELSE result[f.of] = "zero")
      => \/ f.of \in undeleted
         \/ \E r \in removals : r.host = f.host /\ r.by = f.of
         \/ at[f.of[1]] # "idle" /\ made[f.of[1]] = f.of[2]

(* "Automatic cleanup of temporary files", as the package's README says of *)
(* the two TPT operators: a call that is over has left none, but for a     *)
(* deletion that was tried.                                                *)
AutomaticCleanup ==
  \A f \in files :
    f.name # BteqName /\ result[f.of] \in {"zero", "raised"} => f.of \in undeleted

(* A script runs on the host its call names and, when a call of BTEQ or    *)
(* tdload names none, on the machine of the process.  It is not said of    *)
(* data definition called without a host, of which see LocalByDefault.     *)
RunsWhereAsked ==
  [][\A r \in ran' \ ran :
       LET c == call[r.by[1]]
       IN  c.util # "ddl" \/ c.host \in Hosts => r.host = c.host]_ttuVars

(* "None for local execution", as ddl_operator says of remote_host: what a *)
(* call without a host runs, it runs on the machine of the process.        *)
LocalByDefault ==
  \A r \in ran :
    LET p == r.by[1]
    IN  r.by = Id(p) /\ call[p].host = Local => r.host = Local
==============================================================================
