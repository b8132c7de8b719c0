---------------------------- MODULE ServerStartup ----------------------------
(***************************************************************************)
(* main() of the HTTP server, from the command line to the running server: *)
(* the options, the YAML file and its conversion to server_config, the     *)
(* singletons, the routes, start() and stop().  A field that no code has   *)
(* written is Garbage.  How start() and stop() work is in                  *)
(* HttpServerLifecycle; here start() runs the server or throws.            *)
(***************************************************************************)
EXTENDS Naturals, Sequences, SequencesExt

CONSTANTS
    CommandLines, \* sets of the options "help", "debug", "file", or "wrong"
    ConfigTrees,  \* what the file may hold: a function from <<section, key>>
    Garbage       \* the value of an uninitialised member

Conf(section, key) == <<section, key>>
Headers == Conf("webhook", "headers")
ServerKeys == {Conf("server", k) : k \in {"port", "shared_folder", "delete_after_download", "debug"}}
SectionKeys ==
    {Conf("auth", "enabled"), Conf("auth", "token"), Conf("ssl", "key_file"), Conf("ssl", "cert_file"),
     Conf("webhook", "url"), Conf("webhook", "api_key"), Headers}
ConfigFields == ServerKeys \cup SectionKeys

\* What yaml-cpp converts a node to, and that no value in a file is the one of an
\* uninitialised member.
ASSUME TreesAssumption ==
    /\ Garbage # "" /\ Garbage # FALSE /\ Garbage # <<>>
    /\ \A tree \in ConfigTrees :
          /\ DOMAIN tree \subseteq ConfigFields
          /\ \A k \in DOMAIN tree : tree[k] # Garbage
          /\ Conf("auth", "enabled") \in DOMAIN tree => tree[Conf("auth", "enabled")] \in BOOLEAN
          /\ Headers \in DOMAIN tree => tree[Headers] \in Seq(STRING \X STRING)

VARIABLES
    su_args,        \* the command line
    su_tree,        \* the node "server" of the file
    su_exists,      \* the file exists
    su_openssl,     \* the build has ENABLE_OPENSSL
    su_pc,
    su_config,      \* server_config
    su_singletons,  \* the classes whose instance is constructed
    su_headers,     \* headers of the WebHook
    su_key,         \* api_key of the AuthHandler
    su_valid,       \* mServer->is_valid()
    su_routes,
    su_authorizes   \* the handler of the key is set as pre-routing handler

startedVars == <<su_singletons, su_headers, su_key, su_valid, su_routes, su_authorizes>>
startupVars == <<su_args, su_tree, su_exists, su_openssl, su_pc, su_config, startedVars>>

\* server_config config; only the members of class type have a constructor.
Uninitialised ==
    [k \in ConfigFields |->
        CASE k \in {Conf("server", "port"), Conf("server", "delete_after_download"),
                    Conf("server", "debug"), Conf("auth", "enabled")} -> Garbage
          [] k = Headers -> <<>>
          [] OTHER -> ""]

StartupInit ==
    /\ su_args \in CommandLines /\ su_tree \in ConfigTrees
    /\ su_exists \in BOOLEAN /\ su_openssl \in BOOLEAN
    /\ su_pc = "main" /\ su_config = Uninitialised
    /\ su_singletons = {} /\ su_headers = <<>> /\ su_key = "" /\ su_valid = FALSE
    /\ su_routes = {} /\ su_authorizes = FALSE

\* Where the program goes; "terminated" stands for an exception that nobody catches.
Continue(pc) == su_pc' = pc
Given == UNCHANGED <<su_args, su_tree, su_exists, su_openssl>>

-----------------------------------------------------------------------------
(***************************************************************************)
(* The configuration.                                                      *)
(***************************************************************************)
HasSection(tree, section) == \E k \in DOMAIN tree : k[1] = section

\* The nodes that are read without a look whether they are there; a section that
\* is not there leaves its part as the constructor made it.
RequiredNodes(tree) ==
    {Conf("server", "shared_folder"), Conf("server", "port"), Conf("auth", "enabled"), Conf("auth", "token")}
    \cup {k \in {Conf("webhook", "url")} : HasSection(tree, "webhook")}

decode_config(tree) ==
    [k \in ConfigFields |->
        IF k \in DOMAIN tree THEN tree[k]
        ELSE IF k \in {Conf("server", "delete_after_download"), Conf("server", "debug")} THEN FALSE
        ELSE Uninitialised[k]]

\* The sink of the log is a file, which may not open.
setup_logger ==
    /\ su_pc = "main"
    /\ su_singletons' = su_singletons \cup {"Logger"}
    /\ Continue("options") \/ Continue("terminated")
    /\ Given /\ UNCHANGED <<su_config, su_headers, su_key, su_valid, su_routes, su_authorizes>>

\* Without any option the file is application.yml; with options but without a
\* file no configuration is read at all.
parseOptions ==
    /\ su_pc = "options"
    /\ CASE su_args = {"wrong"} -> Continue("exited")
         [] su_args = {} \/ "file" \in su_args -> Continue(IF su_exists THEN "load" ELSE "terminated")
         [] OTHER -> Continue("check")
    /\ Given /\ UNCHANGED <<su_config, startedVars>>

\* parse() and getConfig(): a file that is gone leaves an empty tree.
LoadConfig ==
    /\ su_pc = "load"
    /\ IF su_exists /\ RequiredNodes(su_tree) \subseteq DOMAIN su_tree
       THEN Continue("check") /\ su_config' = decode_config(su_tree)
       ELSE Continue("terminated") /\ UNCHANGED su_config
    /\ Given /\ UNCHANGED startedVars

\* The file is removed by somebody else.
FileVanishes ==
    /\ su_pc \in {"options", "load"} /\ su_exists
    /\ su_exists' = FALSE
    /\ UNCHANGED <<su_args, su_tree, su_openssl, su_pc, su_config, startedVars>>

\* Mutant: an empty name of the shared folder is not refused.
CheckNothing ==
    /\ su_pc = "check"
    /\ Continue("webhook")
    /\ Given /\ UNCHANGED <<su_config, startedVars>>

CheckFolder ==
    /\ su_pc = "check"
    /\ Continue(IF su_config[Conf("server", "shared_folder")] = "" THEN "exited" ELSE "webhook")
    /\ Given /\ UNCHANGED <<su_config, startedVars>>

-----------------------------------------------------------------------------
(***************************************************************************)
(* The singletons, the routes and the server.                              *)
(***************************************************************************)
\* The constructor of WebHook parses the URL and throws when it is none, as the
\* empty one of a file without a webhook is.
setup_webhook ==
    /\ su_pc = "webhook"
    /\ IF su_config[Conf("webhook", "url")] # "url"
       THEN Continue("terminated") /\ UNCHANGED <<su_singletons, su_headers>>
       ELSE /\ Continue("auth")
            /\ su_singletons' = su_singletons \cup {"WebHook"}
            /\ su_headers' = <<<<"Content-Type", "json">>>> \o su_config[Headers]
                             \o <<<<"X-API-Key", su_config[Conf("webhook", "api_key")]>>,
                                  <<"User-Agent", "agent">>>>
    /\ Given /\ UNCHANGED <<su_config, su_key, su_valid, su_routes, su_authorizes>>

\* What an uninitialised bool is read as.
ReadAs(bool) == IF bool = Garbage THEN BOOLEAN ELSE {bool}

setup_auth ==
    /\ su_pc = "auth"
    /\ \E enabled \in ReadAs(su_config[Conf("auth", "enabled")]) :
          IF enabled
          THEN /\ su_singletons' = su_singletons \cup {"AuthHandler"}
               /\ su_key' = su_config[Conf("auth", "token")]
          ELSE UNCHANGED <<su_singletons, su_key>>
    /\ Continue("create")
    /\ Given /\ UNCHANGED <<su_config, su_headers, su_valid, su_routes, su_authorizes>>

\* fs::absolute("") throws or not, as the library is made.  The SSL server is
\* valid when it can load both files.
createServer ==
    LET files == {su_config[Conf("ssl", "cert_file")], su_config[Conf("ssl", "key_file")]} IN
    /\ su_pc = "create"
    /\ \/ "" \in files /\ Continue("terminated") /\ UNCHANGED su_valid
       \/ Continue("handlers") /\ su_valid' = (su_openssl => files = {"pem"})
    /\ Given /\ UNCHANGED <<su_config, su_singletons, su_headers, su_key, su_routes, su_authorizes>>

AllRoutes ==
    {<<"GET", "/">>, <<"POST", "/upload/(.*)">>, <<"POST", "/download/(.*)">>,
     <<"GET", "/list">>, <<"POST", "/webhook">>, <<"POST", "/dump">>}

\* GetInstance() of a class that was not constructed returns null.
config_handle ==
    /\ su_pc = "handlers"
    /\ \E enabled \in ReadAs(su_config[Conf("auth", "enabled")]) :
          IF enabled /\ "AuthHandler" \notin su_singletons
          THEN Continue("crashed") /\ UNCHANGED <<su_routes, su_authorizes>>
          ELSE /\ Continue("start") /\ su_routes' = AllRoutes /\ su_authorizes' = enabled
    /\ Given /\ UNCHANGED <<su_config, su_singletons, su_headers, su_key, su_valid>>

\* A server that is not valid cannot be bound; another may fail to.
StartServer ==
    /\ su_pc = "start"
    /\ (su_valid /\ Continue("running")) \/ Continue("terminated")
    /\ Given /\ UNCHANGED <<su_config, startedVars>>

\* A key was pressed: stop(), and the end of main().
StopAndEnd ==
    /\ su_pc = "running"
    /\ Continue("exited")
    /\ Given /\ UNCHANGED <<su_config, startedVars>>

StartupNext ==
    \/ setup_logger \/ parseOptions \/ LoadConfig \/ FileVanishes \/ CheckFolder
    \/ setup_webhook \/ setup_auth \/ createServer \/ config_handle \/ StartServer \/ StopAndEnd

StartupSpec == StartupInit /\ [][StartupNext]_startupVars

-----------------------------------------------------------------------------
(***************************************************************************)
(* Properties.                                                             *)
(***************************************************************************)
\* Type invariant of the start.
StartupTypeOK ==
    /\ su_args \in CommandLines /\ su_tree \in ConfigTrees
    /\ {su_exists, su_openssl, su_valid, su_authorizes} \subseteq BOOLEAN
    /\ su_pc \in {"main", "options", "load", "check", "webhook", "auth", "create", "handlers",
                  "start", "running", "exited", "terminated", "crashed"}
    /\ DOMAIN su_config = ConfigFields
    /\ su_singletons \subseteq {"Logger", "WebHook", "AuthHandler"}
    /\ su_routes \subseteq AllRoutes

\* The server that runs is the one of its file.  No member of the configuration is
\* used before it is written, although parseOptions() may return one that nobody
\* has filled; every instance that a handler asks for exists, and the first request
\* finds all routes, the key of the file in front of them when the file asks for
\* it, and a webhook that sends the key and the headers of the file.
ServerIsAsConfigured ==
    /\ su_pc \in {"webhook", "auth", "create", "handlers", "start", "running"} =>
          su_config = decode_config(su_tree) /\ \A k \in ConfigFields : su_config[k] # Garbage
    /\ su_pc # "crashed"
    /\ su_pc = "running" =>
          /\ su_routes = AllRoutes /\ {"Logger", "WebHook"} \subseteq su_singletons
          /\ su_authorizes = su_tree[Conf("auth", "enabled")]
          /\ su_authorizes => /\ "AuthHandler" \in su_singletons
                              /\ su_key = su_tree[Conf("auth", "token")]
          /\ Headers \in DOMAIN su_tree =>
                \A i \in DOMAIN su_tree[Headers] : Contains(su_headers, su_tree[Headers][i])
          /\ Conf("webhook", "api_key") \in DOMAIN su_tree =>
                Contains(su_headers, <<"X-API-Key", su_tree[Conf("webhook", "api_key")]>>)

=============================================================================
