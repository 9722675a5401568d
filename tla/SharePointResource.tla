-------------------------- MODULE SharePointResource --------------------------
(***************************************************************************)
(* dagster-sharepoint: a call of SharePointResource is a chain of requests *)
(* to the Graph API, each retried by _make_request.  `left` is the chain:  *)
(* `todo`, the requests still to send, and `folders`, the folders that     *)
(* list_folders has found.                                                 *)
(*                                                                         *)
(* The service's state of an item is where it is: <<parent, name>>, or     *)
(* Gone.  Requests name items by path, a sequence of names, and look the   *)
(* path up first.  Dates, sizes and addresses are left out.                *)
(***************************************************************************)
EXTENDS RemoteCall

CONSTANTS SpFolders, SpFiles, \* items the drive may hold
          SpSpares,           \* folders a call may create
          SpDrives,           \* the drives calls start from: item -> place
          SpOrder,            \* the order in which the service lists children
          SpNew               \* files created after the time a call asks about

Root == "root"
Gone == <<"nowhere", "none">>
MaxAttempts == 3 \* max_retries in _make_request
SpItems == SpFolders \cup SpFiles \cup SpSpares
SpListings == {"list_folders", "list_files", "list_newly_created_files"}
SpOps == SpListings \cup {"list_drives", "search_files", "download_file", "upload_file",
                          "delete_file", "create_folder", "move_file", "rename_file"}

\* A drive is a tree, and no two of its items are in one place
SpTree(d) == /\ DOMAIN d \subseteq SpFolders \cup SpFiles
             /\ \A x \in DOMAIN d :
                  /\ d[x] \in ({Root} \cup (SpFolders \cap DOMAIN d)) \X STRING
                  /\ \A y \in DOMAIN d : d[x] = d[y] => x = y
             /\ \A s \in (SUBSET DOMAIN d) \ {{}} : \E x \in s : d[x][1] \notin s
ASSUME SpAssumption ==
  /\ IsFiniteSet(SpItems) /\ {Root, Gone[1], "token"} \cap SpItems = {}
  /\ SpFolders \cap SpFiles = {} /\ SpSpares \cap (SpFolders \cup SpFiles) = {}
  /\ SpOrder \in Seq(SpItems) /\ Range(SpOrder) = SpItems
  /\ \A i, j \in DOMAIN SpOrder : SpOrder[i] = SpOrder[j] => i = j
  /\ \A d \in SpDrives : SpTree(d)
  /\ \A c \in Calls : c.client = "sharepoint" =>
       /\ c.op \in SpOps /\ c.known \in BOOLEAN /\ c.path \in Seq(STRING)
       /\ c.op \in SpListings => c.recursive \in BOOLEAN
       /\ c.op = "search_files" => c.limit \in Nat \ {0}
       /\ c.op \in {"upload_file", "move_file"} => c.path # << >>
       /\ c.op = "upload_file" => c.large \in BOOLEAN
       /\ c.op = "move_file" => c.to \in Seq(STRING)
       /\ c.op \in {"create_folder", "rename_file"} => c.names \in Seq(STRING) \ {<< >>}

(***************************************************************************)
(* The requests each method starts with.  get_drive_id, and before it      *)
(* _get_site_id, are asked unless the caller or the cache knows.           *)
(***************************************************************************)
Req(what, path) ==
  [what |-> what, path |-> path, id |-> Root, then |-> "none", last |-> 0, here |-> << >>]
For(r, id) == [r EXCEPT !.id = id]
SpFirst(c) == IF c.known THEN << >> ELSE <<Req("site", << >>), Req("drive", << >>)>>
Find(what, path) == [Req("item", path) EXCEPT !.then = what]
Lookup(what, path) == IF path = << >> THEN Req(what, path) ELSE Find(what, path)
ListFolders(c) == <<Lookup("folders", c.path)>>
ListFiles(c) ==
  IF c.recursive
  THEN <<Lookup("files", c.path), Lookup("folders", c.path), Req("each_folder", << >>)>>
  ELSE <<Lookup("files", c.path)>>
ListNewlyCreatedFiles(c) == ListFiles(c)
SearchFiles(c) == <<Req("search", << >>)>>
DownloadFile(c) == <<Find("download", c.path)>>
UploadFile(c) == <<Req(IF c.large THEN "session" ELSE "put", c.path)>>
DeleteFile(c) == <<Find("delete", c.path)>>
CreateFolder(c) == <<Lookup("make_folder", c.path)>>
MoveFile(c) == <<Find("source", c.path), Find("move", c.to)>>
RenameFile(c) == <<Find("rename", c.path)>>
SpRest(c) ==
  CASE c.op = "list_drives"   -> <<Req("drives", << >>)>>
    [] c.op = "list_folders"  -> ListFolders(c)
    [] c.op = "list_files"    -> ListFiles(c)
    [] c.op = "list_newly_created_files" -> ListNewlyCreatedFiles(c)
    [] c.op = "search_files"  -> SearchFiles(c)
    [] c.op = "download_file" -> DownloadFile(c)
    [] c.op = "upload_file"   -> UploadFile(c)
    [] c.op = "delete_file"   -> DeleteFile(c)
    [] c.op = "create_folder" -> CreateFolder(c)
    [] c.op = "move_file"     -> MoveFile(c)
    [] c.op = "rename_file"   -> RenameFile(c)
SpPlan(c) == SpFirst(c) \o SpRest(c)

SpBegin == \E c \in Calls, d \in SpDrives :
  /\ c.client = "sharepoint"
  /\ Begin(c, "request", [todo |-> SpPlan(c), folders |-> << >>, source |-> Root, target |-> Root],
           [x \in SpItems \cup {"token"} |->
              IF x = "token" THEN "none" ELSE IF x \in DOMAIN d THEN d[x] ELSE Gone])

------------------------------------------------------------------------------
(***************************************************************************)
(* The drive.                                                              *)
(***************************************************************************)
ChildOf(parent, name) == {x \in SpItems : remote[x] = <<parent, name>>}
\* the items along a path, and those it leads to: one or none
Chains(path) ==
  {c \in [DOMAIN path -> SpItems] :
     \A i \in DOMAIN path : remote[c[i]] = <<IF i = 1 THEN Root ELSE c[i - 1], path[i]>>}
Resolved(path) == IF path = << >> THEN {Root} ELSE {c[Len(path)] : c \in Chains(path)}
Held(x) == x = Root \/ (x \in SpItems /\ remote[x] # Gone)
\* the folders an item is in, up to the root
Above(x) == {y \in SpFolders :
               \A s \in SUBSET SpFolders :
                 (\A z \in s \cup {x} : remote[z][1] \in SpFolders => remote[z][1] \in s) => y \in s}
Folder(x) == Held(x) /\ x \notin SpFiles
Position(x) == CHOOSE i \in DOMAIN SpOrder : SpOrder[i] = x
Later(x, mark) == Position(x) > mark

Target == Head(left.todo)
Put(x, place) == [remote EXCEPT ![x] = place]
\* a PATCH is refused when the name is taken, and no item goes below itself
Patched(x, place) ==
  IF /\ x \in SpItems /\ Held(x) /\ (place[1] = remote[x][1] \/ Folder(place[1]))
     /\ ChildOf(place[1], place[2]) \subseteq {x}
     /\ x # place[1] /\ (place[1] \in SpItems => x \notin Above(place[1]))
  THEN {Put(x, place)} ELSE {}

\* moved under the name the file was found by
Moved(x, folder) == Patched(x, <<folder, Last(call.path)>>)
Renamed(x, name) == Patched(x, <<remote[x][1], name>>)

(***************************************************************************)
(* The states in which the service may be after it carried out the request *)
(* at the head: none when it refuses.  An upload replaces the file at its  *)
(* path or makes one.  conflictBehavior "rename" numbers a taken name.     *)
(***************************************************************************)
Stored(path) ==
  UNION {IF ChildOf(parent, Last(path)) = {}
         THEN {Put(x, <<parent, Last(path)>>) : x \in {y \in SpFiles : remote[y] = Gone}}
         ELSE {remote}
           : parent \in {x \in Resolved(Front(path)) : Folder(x)}}
FreeNames(parent) == {call.names[i] : i \in {j \in DOMAIN call.names :
                        \A k \in 1 .. j : (ChildOf(parent, call.names[k]) = {}) <=> k = j}}
Made(parent) ==
  IF Folder(parent)
  THEN UNION {{Put(x, <<parent, n>>) : x \in {y \in SpSpares : remote[y] = Gone}}
                : n \in FreeNames(parent)}
  ELSE {}
Deleted(x) == IF x \in SpItems /\ Held(x) THEN {Put(x, Gone)} ELSE {}
Reads == {"site", "drive", "drives", "session", "search", "chunk"}
Carried ==
  CASE Target.what \in Reads -> {remote}
    [] Target.what = "item"  -> IF Resolved(Target.path) = {} THEN {} ELSE {remote}
    [] Target.what \in {"folders", "files", "download"} ->
         IF Held(Target.id) THEN {remote} ELSE {}
    [] Target.what \in {"put", "last_chunk"} -> Stored(Target.path)
    [] Target.what = "delete" -> Deleted(Target.id)
    [] Target.what = "make_folder" -> Made(Target.id)
    [] Target.what = "move"   -> Moved(left.source, Target.id)
    [] Target.what = "rename" -> Renamed(Target.id, call.names[1])

------------------------------------------------------------------------------
(***************************************************************************)
(* What follows from an answer: the requests that replace the first one.   *)
(***************************************************************************)
Follow(requests) == left' = [left EXCEPT !.todo = requests \o Tail(@)]
Proceed == Follow(<< >>)

\* a page of a listing holds one item, and says whether there are more
FirstOf(items) == CHOOSE x \in items : \A y \in items : Position(x) <= Position(y)
NextPageOfFiles(items) ==
  IF Cardinality(items) <= 1 \/ FirstOf(items) \notin SpFiles THEN << >>
  ELSE <<[Target EXCEPT !.last = Position(FirstOf(items))]>>
NextPage(items) == IF \A x, y \in items : x = y THEN << >>
                   ELSE <<[Target EXCEPT !.last = Position(FirstOf(items))]>>
Children == {x \in SpItems : remote[x][1] = Target.id /\ Later(x, Target.last)}

(***************************************************************************)
(* _list_folders_in_path, a page of it, with the folders of the pages      *)
(* before.  list_folders goes into each of them after the last page.       *)
(***************************************************************************)
Into(folders) == IF call.recursive
                 THEN [i \in DOMAIN folders |-> Lookup("folders", folders[i])] ELSE << >>
NewFolders(items) == IF items # {} /\ FirstOf(items) \notin SpFiles
                     THEN <<Append(Target.path, remote[FirstOf(items)][2])>> ELSE << >>
FoldersPage ==
  /\ Target.what = "folders"
  /\ LET here == Target.here \o NewFolders(Children)
         more == NextPage(Children)
     IN left' = [todo |-> (IF more = << >> THEN Into(here) ELSE <<[more[1] EXCEPT !.here = here]>>)
                          \o Tail(left.todo),
                 folders |-> left.folders \o NewFolders(Children),
                 source |-> left.source, target |-> left.target]
  /\ UNCHANGED answer

(***************************************************************************)
(* _list_files_in_folder, a page of it.                                    *)
(***************************************************************************)
Chosen(x) == /\ x \in SpFiles
             /\ call.op = "list_newly_created_files" => x \in SpNew
Listing(items) ==
  /\ answer' = IF items # {} /\ Chosen(FirstOf(items)) THEN Append(answer, FirstOf(items))
               ELSE answer
  /\ Follow(IF Target.what = "search" /\ Len(answer') >= call.limit THEN << >>
            ELSE NextPage(items))
FilesPage == Target.what = "files" /\ Listing(Children)

\* search_files stops at its limit
SearchPage ==
  Target.what = "search"
  /\ Listing({x \in SpFiles : remote[x] # Gone /\ Later(x, Target.last)})

\* get_item_by_path; the item's id goes into the request it is for
Item ==
  /\ Target.what = "item"
  /\ \E x \in Resolved(Target.path) :
       left' = [todo |-> (IF Target.then = "source" THEN << >>
                          ELSE <<For(Req(Target.then, Target.path), x)>>) \o Tail(left.todo),
                folders |-> left.folders,
                source |-> IF Target.then = "move" THEN left.source ELSE x, target |-> x]
  /\ UNCHANGED answer

Session ==
  /\ Target.what = "session" /\ UNCHANGED answer
  /\ Follow(<<Req("chunk", Target.path), Req("last_chunk", Target.path)>>)

\* an answer that only ends its request
Finish ==
  /\ Target.what \notin {"folders", "files", "search", "item", "session"}
  /\ Proceed
  /\ answer' = CASE Target.what = "download"    -> <<Target.id>>
                 [] Target.what = "make_folder" -> SetToSeq({x \in SpSpares : remote'[x] # remote[x]})
                 [] OTHER                       -> answer

------------------------------------------------------------------------------
(***************************************************************************)
(* _make_request.  A request takes its token once, from the cache or       *)
(* anew, and is sent up to three times: again after 429, when nothing was  *)
(* done, and after a server error, when it may have been; anything else is *)
(* raised.  The chunks of a large upload are sent once, without a token.   *)
(***************************************************************************)
Sending == call.client = "sharepoint" /\ at = "request" /\ left.todo # << >>
Chunk == Target.what \in {"chunk", "last_chunk"}
Inner == Target.what = "each_folder"

\* access_token: fetched without a retry
FetchToken ==
  /\ Sending /\ ~Chunk /\ ~Inner /\ tries = 0 /\ remote["token"] # "valid"
  /\ \/ Set("token", "valid") /\ NoTrouble /\ Goto(at)
     \/ Miss /\ Raise /\ UNCHANGED service
  /\ UNCHANGED <<call, left, tries>>

TokenGood == remote["token"] = "valid" \/ (tries > 0 /\ remote["token"] = "none")
CanSend == Sending /\ ~Inner /\ (Chunk \/ TokenGood)
Success ==
  /\ CanSend /\ \E r \in Carried : Becomes(r)
  /\ FoldersPage \/ FilesPage \/ SearchPage \/ Item \/ Session \/ Finish
  /\ tries' = 0 /\ NoTrouble /\ UNCHANGED <<call, at, told>>

Refused == /\ Raise /\ NoTrouble /\ UNCHANGED <<call, left, tries, service>>
           /\ \/ CanSend /\ Carried = {}
              \/ Sending /\ ~Chunk /\ ~Inner /\ tries > 0 /\ remote["token"] = "expired"

Again == tries' = tries + 1 /\ IF tries + 1 < MaxAttempts THEN Goto(at) ELSE Raise
\* the wait the service asks for can be longer than the token lasts
TooMany == /\ CanSend /\ ~Chunk /\ Miss /\ Again /\ UNCHANGED <<call, left>>
           /\ UNCHANGED service \/ Set("token", "expired")
ServerError == /\ CanSend /\ ~Chunk /\ Miss /\ Again /\ UNCHANGED <<call, left>>
               /\ \E r \in Carried \cup {remote} : Becomes(r)
Broken == /\ CanSend /\ Miss /\ Raise /\ UNCHANGED <<call, left, tries>>
          /\ \E r \in Carried \cup {remote} : Becomes(r)

\* list_files, when list_folders has returned: the files of each folder
EachFolder ==
  /\ Sending /\ Inner
  /\ Follow([i \in DOMAIN left.folders |-> Lookup("files", left.folders[i])])
  /\ UNCHANGED <<call, at, answer, told, tries, service, troubles>>

SpReturn == /\ call.client = "sharepoint" /\ at = "request" /\ left.todo = << >>
            /\ Return(IF call.op = "list_folders" THEN left.folders ELSE answer)
            /\ UNCHANGED <<call, left, tries, service, troubles>>

SpNext == FetchToken \/ Success \/ Refused \/ TooMany \/ ServerError \/ Broken
          \/ EachFolder \/ SpReturn

(***************************************************************************)
(* Beside the call: the cached token ages, and others move items, rename   *)
(* folders or delete files.                                                *)
(***************************************************************************)
Names == {remote[y][2] : y \in SpItems}
SpOthers ==
  /\ call.client = "sharepoint"
  /\ \/ remote["token"] = "valid" /\ Others([remote EXCEPT !["token"] = "none"])
     \/ \E x \in SpFiles : Held(x) /\ Others(Put(x, Gone))
     \/ \E x \in {z \in SpFiles \cup SpFolders : Held(z)} :
          \E y \in SpFolders \cup {Root}, name \in Names \ {"none"} :
               /\ y # x /\ Held(y) /\ (y # Root => x \notin Above(y))
               /\ ChildOf(y, name) = {} /\ (x \in SpFiles => name = remote[x][2])
               /\ Others(Put(x, <<y, name>>))

------------------------------------------------------------------------------
(***************************************************************************)
(* What a call that has returned promises.                                 *)
(***************************************************************************)
SpStays(x) == x = Root \/ \E place \in {remote[x]} \ {Gone} : <<x, place>> \in steady
SpSame == {x \in SpItems : <<x, remote[x]>> \in steady}
SpDone ==
  /\ call.op = "delete_file" => left.source \notin SpSame
  /\ call.op = "rename_file" => \/ left.source \notin SpSame
                                \/ remote[left.source][2] = call.names[1]
  /\ call.op = "move_file" => \/ left.source \notin SpSame
                              \/ remote[left.source][1] = left.target
  /\ call.op = "upload_file" => \/ Resolved(call.path) # {}
                                \/ ~(SpFiles \cup SpFolders \subseteq SpSame)
  /\ call.op = "create_folder" => <<answer[1], Gone>> \notin steady

\* files that stayed, in folders that stayed, below the folder asked for
SpBelow == IF ~call.recursive THEN Resolved(call.path)
           ELSE Resolved(call.path) \cup
                {x \in SpFolders : Held(x) /\ Resolved(call.path) \cap ({Root} \cup Above(x)) # {}}
SpSettled == {x \in SpFiles : /\ Chosen(x) /\ SpStays(x)
                              /\ remote[x][1] \in SpBelow
                              /\ \A y \in Above(x) : SpStays(y)}
SpFoldersSettled == {x \in SpFolders : /\ SpStays(x) /\ remote[x][1] \in SpBelow
                                      /\ \A y \in Above(x) : SpStays(y)}
\* list_newly_created_files is held to the files created since its time; those
\* modified since, which its docstring promises too (resource.py 991-1004), it never lists
SpListing ==
  LET files == {answer[i] : i \in DOMAIN answer}
      once(x) == Cardinality({i \in DOMAIN answer : answer[i] = x}) = 1
  IN /\ call.op \in {"list_files", "list_newly_created_files"} =>
          /\ \A x \in SpSettled : once(x)
          /\ \A x \in files : <<x, Gone>> \notin steady
     /\ call.op = "search_files" =>
          /\ Len(answer) <= call.limit /\ \A x \in files : once(x)
          /\ Len(answer) < call.limit => \A x \in SpFiles : SpStays(x) => x \in files
     /\ call.op = "list_folders" =>
          \A x \in SpFoldersSettled :
            Cardinality({i \in DOMAIN answer : Resolved(answer[i]) = {x}}) = 1

\* create_folder makes one folder, and another for an answer it did not get
SpSpare == {x \in SpSpares : <<x, Gone>> \notin steady}
SpNoStrays == Cardinality(SpSpare) <= 1 + missed
===============================================================================
