----------------------------- MODULE RemoteCalls -----------------------------
(***************************************************************************)
(* The clients of remote services side by side: a run is one call of one   *)
(* of them, and the question is the same for all: when the call ends, what *)
(* is so in the service, and what does its caller know of it?              *)
(***************************************************************************)
EXTENDS SftpResource, SharePointResource, HexResource, CloudRunLauncher,
        ComputeCluster, TeradataResource, SalesforceResource, ElasticsearchManager,
        DataformClient

RemoteInit == \/ SftpBegin \/ SpBegin \/ HexBegin \/ CrBegin
              \/ CcBegin \/ TdBegin \/ SfBegin \/ EsBegin \/ DfBegin

\* steps of the caller's process
Step == \/ SftpNext \/ SpNext \/ HexNext \/ CrNext \/ CcNext \/ TdNext \/ SfNext
        \/ EsNext \/ DfNext
\* the timers that calls look at, and the daemon's monitoring
Clock == HexTimer \/ CcTimer \/ SfTimer \/ DfTimer
\* services at work
Service == HexProgress \/ CcProgress \/ CrBeside \/ SfJob \/ DfProgress
\* what other people do in a service while a call runs
Elsewhere == SftpOthers \/ SpOthers \/ CcOthers \/ TdOthers \/ SfSessionEnds \/ EsOthers
             \/ DfOthers

Ended == told # "none" /\ UNCHANGED remoteVars
RemoteNext == Step \/ Clock \/ Service \/ Elsewhere \/ Ended

\* the process goes on, and time passes; nothing makes a service finish a job
RemoteSpec == /\ RemoteInit /\ [][RemoteNext]_remoteVars
              /\ WF_remoteVars(Step) /\ WF_remoteVars(Clock)
------------------------------------------------------------------------------
(***************************************************************************)
(* A call that returns has done what it was called for: what it had to     *)
(* remove, create, move or run to an end was not as before all the while.  *)
(* Clients return in many places (a missing file passed to a handler, a    *)
(* timeout made into a text, an upload in two ways), retry what was done,  *)
(* and act on what they looked up before others changed it.                *)
(***************************************************************************)
ReturnMeansDone ==
  told = "returned" =>
    CASE call.client = "sftp"            -> SftpDone
      [] call.client = "sharepoint"      -> SpDone
      [] call.client = "hex"             -> HexDone
      [] call.client = "cloud run"       -> CrDone
      [] call.client = "compute cluster" -> CcDone
      [] call.client = "teradata"        -> TdDone
      [] call.client = "salesforce"      -> SfDone
      [] call.client = "elasticsearch"   -> EsDone
      [] call.client = "dataform"        -> DfDone

(***************************************************************************)
(* A listing, which takes many requests, has everything that stayed in its *)
(* place while it was made, once, and nothing that was never there: pages  *)
(* and folders of SharePoint, matches of SFTP, pages and results of        *)
(* Salesforce, whole outputs of Elasticsearch, ended actions of Dataform.  *)
(* SFTP keeps it only as long as the connection lasts, for list_files      *)
(* drops the errors of its stats.                                          *)
(***************************************************************************)
ListingComplete ==
  told = "returned" =>
    CASE call.client = "sftp"       -> SftpListing
      [] call.client = "sharepoint" -> SpListing
      [] call.client = "salesforce" -> SfListing
      [] call.client = "elasticsearch" -> EsListing
      [] call.client = "dataform"   -> DfListing
      [] OTHER                      -> TRUE

(***************************************************************************)
(* A call that has ended leaves nothing going that its caller cannot know  *)
(* of: no run after a timeout that was to kill it, no execution that was   *)
(* not asked to stop, no more runs or folders than requests whose answer   *)
(* was lost or not read, no alias on half an output.                       *)
(***************************************************************************)
NoStrays ==
  told # "none" =>
    CASE call.client = "hex"        -> HexNoStrays
      [] call.client = "cloud run"  -> CrNoStrays
      [] call.client = "sharepoint" -> SpNoStrays
      [] call.client = "elasticsearch" -> EsNoStrays
      [] OTHER                      -> TRUE

(***************************************************************************)
(* Every call ends, however often the service fails, since retries are     *)
(* counted and each wait for a service looks at a clock, with two          *)
(* exceptions, both of Hex: one that polls a run with no timeout, and one  *)
(* that Hex answers again and again with something that is not JSON.  The  *)
(* second is against the code's own word for request_max_retries, "The     *)
(* maximum times requests to the Hex API should be retried before failing" *)
(* (resources.py 404-405): these requests have no maximum.                 *)
(***************************************************************************)
Untimed == call.client = "hex" /\ call.op = "run_and_poll" /\ ~call.timed
CallsEnd == <>(told # "none" \/ Untimed) \/ []<>HexUnread
===============================================================================
