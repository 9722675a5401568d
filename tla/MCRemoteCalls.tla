----------------------------- MODULE MCRemoteCalls -----------------------------
\* Every operation of every client, on services with a handful of things.
EXTENDS RemoteCalls

Ops(client, ops, more) == {[client |-> client, op |-> o] @@ m : o \in ops, m \in more}

\* SFTP: a directory with files x and y
MCSftpFiles == {"d/x", "d/y"}
SftpCalls ==
  UNION {
    Ops("sftp", {"list_files"},
        {[paths |-> << >>, handler |-> h, only |-> k] :
           h \in {"default", "ignore", "raise"}, k \in {"all", "files", "dirs", "both"}}),
    Ops("sftp", {"get_file", "put_file"},
        {[paths |-> <<"d/x", "d/y">>, handler |-> h] : h \in {"default", "ignore", "raise"}}),
    Ops("sftp", {"delete_files"}, {[paths |-> <<"d/x", "d/y">>]}),
    Ops("sftp", {"delete_file", "file_exists", "is_dir", "is_file", "get_file_info"},
        {[paths |-> <<"d/x">>]}),
    Ops("sftp", {"rename"}, {[paths |-> <<"d/x", "d/y">>]}),
    Ops("sftp", {"mkdir"}, {[paths |-> << >>, exist_ok |-> b] : b \in BOOLEAN}),
    Ops("sftp", {"rmtree", "test_connection", "is_authenticated"}, {[paths |-> << >>]})}

\* SharePoint: folders A and B, two deep, files f and g, folders N1 to N3 to come
MCSpOrder == <<"A", "f", "B", "g", "N1", "N2", "N3">>
MCSpDrives ==
  {"A" :> <<"root", "a">> @@ "B" :> <<"A", "b">> @@ "f" :> <<"B", "f">> @@ "g" :> <<"A", "g">>,
   "A" :> <<"root", "a">> @@ "B" :> <<"root", "b">> @@ "f" :> <<"A", "f">> @@ "g" :> <<"root", "g">>,
   "A" :> <<"root", "a">> @@ "g" :> <<"A", "g">>}
Plain(path, known) == [path |-> path, known |-> known]
SpCalls ==
  UNION {
    Ops("sharepoint", {"list_files"},
        {Plain(<< >>, FALSE) @@ [recursive |-> TRUE], Plain(<<"a">>, TRUE) @@ [recursive |-> TRUE],
         Plain(<<"a">>, TRUE) @@ [recursive |-> FALSE]}),
    Ops("sharepoint", {"list_folders", "list_newly_created_files"},
        {Plain(<< >>, TRUE) @@ [recursive |-> b] : b \in BOOLEAN}),
    Ops("sharepoint", {"search_files"},
        {Plain(<< >>, TRUE) @@ [limit |-> n] : n \in {1, 3}}),
    Ops("sharepoint", {"upload_file"},
        {Plain(<<"a", n>>, TRUE) @@ [large |-> b] : n \in {"g", "h"}, b \in BOOLEAN}),
    Ops("sharepoint", {"list_drives"}, {Plain(<< >>, FALSE)}),
    Ops("sharepoint", {"download_file", "delete_file"}, {Plain(<<"a", "g">>, TRUE)}),
    Ops("sharepoint", {"create_folder"},
        {Plain(p, TRUE) @@ [names |-> <<"b", "b 1", "b 2", "b 3">>] : p \in {<< >>, <<"a">>}}),
    Ops("sharepoint", {"move_file"}, {Plain(<<"a", "g">>, TRUE) @@ [to |-> <<"b">>]}),
    Ops("sharepoint", {"rename_file"}, {Plain(<<"a", "g">>, TRUE) @@ [names |-> <<"h">>]})}

HexCalls ==
  {[client |-> "hex", op |-> o, kill |-> k, timed |-> t, both |-> b] :
     o \in {"run_project", "get_project", "run_and_poll"}, k \in BOOLEAN, t \in BOOLEAN,
     b \in BOOLEAN}
CrCalls == {[client |-> "cloud run", op |-> "run", configured |-> c, secret |-> s] :
              c \in BOOLEAN, s \in BOOLEAN}
CcCalls ==
  {[client |-> "compute cluster", op |-> o, named |-> n, group |-> g, suspended |-> s,
    dropGroup |-> d] :
     o \in {"create", "drop", "resume", "suspend"}, n \in BOOLEAN, g \in BOOLEAN,
     s \in BOOLEAN, d \in BOOLEAN}
TdCalls ==
  {[client |-> "teradata", op |-> o, todo |-> <<"s1", "s2">>, fetch |-> f, valid |-> v] :
     o \in {"execute_queries"}, f \in BOOLEAN, v \in BOOLEAN}
  \cup {[client |-> "teradata", op |-> o, todo |-> <<"s1">>, fetch |-> f, valid |-> TRUE] :
     o \in {"execute_query", "load"}, f \in BOOLEAN}
  \cup {[client |-> "teradata", op |-> o, todo |-> <<"t1", "t2">>, fetch |-> FALSE, valid |-> TRUE] :
     o \in {"drop_database", "drop_table", "fetch_last_updated_timestamps"}}
SfCalls ==
  {[client |-> "salesforce", op |-> o, batches |-> <<{"r1", "r2"}, {"r3"}>>] :
     o \in {"query_to_csv", "upsert_records"}}
  \cup {[client |-> "salesforce", op |-> o, batches |-> <<{"r1"}>>] :
     o \in {"create_record", "update_record", "delete_record"}}

\* Elasticsearch: outputs after one or two others; by time, of a partition again, with no suffix
MCEsOrder == <<"docs-1", "docs-2", "docs-3", "docs-4">>
EsCalls ==
  {[client |-> "elasticsearch", op |-> "handle_output", alias |-> TRUE, target |-> x,
    keep |-> k, failFast |-> f] : x \in {"docs-2", "docs-3", "docs"}, k \in 0 .. 2, f \in BOOLEAN}
  \cup {[client |-> "elasticsearch", op |-> "handle_output", alias |-> FALSE, target |-> "docs",
    keep |-> 0, failFast |-> f] : f \in BOOLEAN}
  \cup {[client |-> "elasticsearch", op |-> "load_input", alias |-> b, target |-> "docs",
    keep |-> 0, failFast |-> TRUE] : b \in BOOLEAN}

\* Dataform: two invocations, of two seconds or of one, listed either way
MCDfInvocations == <<"i1", "i2">>
DfCalls ==
  Ops("dataform", {"load", "run"}, {<< >>})
  \cup Ops("dataform", {"watch"},
         {[starts |-> s, newestFirst |-> b, action |-> "asset"] :
            s \in {<<1, 2>>, <<1, 1>>}, b \in BOOLEAN}
         \cup {[starts |-> <<1, 2>>, newestFirst |-> FALSE, action |-> a] :
            a \in {"check", "unknown check"}})

MCCalls == {c \in HexCalls : c.both => c.op = "run_project"}
           \cup SftpCalls \cup SpCalls \cup CrCalls \cup CcCalls \cup TdCalls \cup SfCalls \cup EsCalls
           \cup DfCalls
================================================================================
