------------------------------- MODULE Programs -------------------------------
(***************************************************************************)
(* The sequential parts of the repository side by side: the example        *)
(* programs, the two clients and the start of the server.  They share no   *)
(* state; each behaviour runs the one that which names.                    *)
(***************************************************************************)
EXTENDS InspectSheet, SimpleCalc, HttpHeaderParser, HttpClientLib, ResponseReader,
        Buildargv, DiceRoller, IniParser, RequestText, ServerStartup, UriPath

VARIABLE which

Programs == {"sheet", "calc", "http", "client", "reader", "argv", "dice", "ini", "text", "server", "path"}
programVars == <<which, sheetVars, calcVars, httpVars, clientVars, vars, argvVars, diceVars, iniVars, textVars, startupVars, pathVars>>

\* A program that does not run has one initial state.
Fixed(program, x, inputs) == IF which = program THEN TRUE ELSE x = CHOOSE in \in inputs : TRUE

ProgramsInit ==
    /\ which \in Programs
    /\ Fixed("reader", message, Messages)
    /\ Fixed("dice", dice_input, DiceInputs)
    /\ Fixed("text", rt_text, UriStarts)
    /\ Fixed("server", su_args, CommandLines) /\ Fixed("server", su_tree, ConfigTrees)
    /\ Fixed("path", up_kind, {"path"})
    /\ Fixed("server", su_exists, BOOLEAN) /\ Fixed("server", su_openssl, BOOLEAN)
    /\ SheetInit /\ CalcInit /\ HttpInit /\ ClientInit /\ Init
    /\ ArgvInit /\ DiceInit /\ IniInit /\ TextInit /\ StartupInit /\ PathInit

\* The other programs than the one that runs do nothing.
OthersRest ==
    /\ UNCHANGED which
    /\ IF which = "sheet" THEN TRUE ELSE UNCHANGED sheetVars
    /\ IF which = "calc" THEN TRUE ELSE UNCHANGED calcVars
    /\ IF which = "http" THEN TRUE ELSE UNCHANGED httpVars
    /\ IF which = "client" THEN TRUE ELSE UNCHANGED clientVars
    /\ IF which = "reader" THEN TRUE ELSE UNCHANGED vars
    /\ IF which = "argv" THEN TRUE ELSE UNCHANGED argvVars
    /\ IF which = "dice" THEN TRUE ELSE UNCHANGED diceVars
    /\ IF which = "ini" THEN TRUE ELSE UNCHANGED iniVars
    /\ IF which = "text" THEN TRUE ELSE UNCHANGED textVars
    /\ IF which = "server" THEN TRUE ELSE UNCHANGED startupVars
    /\ IF which = "path" THEN TRUE ELSE UNCHANGED pathVars

ProgramsNext ==
    \/ which = "sheet" /\ SheetNext /\ OthersRest
    \/ which = "calc" /\ CalcNext /\ OthersRest
    \/ which = "http" /\ HttpNext /\ OthersRest
    \/ which = "client" /\ ClientNext /\ OthersRest
    \/ which = "reader" /\ Next /\ OthersRest
    \/ which = "argv" /\ ArgvNext /\ OthersRest
    \/ which = "dice" /\ DiceNext /\ OthersRest
    \/ which = "ini" /\ IniNext /\ OthersRest
    \/ which = "text" /\ TextNext /\ OthersRest
    \/ which = "server" /\ StartupNext /\ OthersRest
    \/ which = "path" /\ TypeCharacter /\ OthersRest

\* The fairness of ResponseReader, for its part.
ProgramsSpec ==
    /\ ProgramsInit /\ [][ProgramsNext]_programVars
    /\ WF_programVars(which = "reader" /\ ReaderStep /\ OthersRest)
    /\ WF_programVars(which = "reader" /\ ClosesConnection /\ OthersRest)

(***************************************************************************)
(* Properties: those of the programs, put together.                        *)
(***************************************************************************)
\* Type invariant of the program that runs.
ProgramsTypeOK ==
    CASE which = "sheet" -> SheetTypeOK [] which = "calc" -> CalcTypeOK
      [] which = "http" -> HttpTypeOK [] which = "client" -> ClientTypeOK
      [] which = "reader" -> TypeOK [] which = "argv" -> ArgvTypeOK
      [] which = "dice" -> DiceTypeOK [] which = "ini" -> IniTypeOK
      [] which = "text" -> TextTypeOK [] which = "server" -> StartupTypeOK
      [] which = "path" -> PathTypeOK


\* A command line and a file of settings are read as their grammars say, up to the
\* place where they cannot be read; a path leads where its components lead, and
\* what is percent-encoded is decoded to itself.
TextsAreRead ==
    /\ which = "argv" => ArgvAnswers
    /\ which = "ini" => IniAnswers
    /\ which = "path" => PathAnswers

\* What the generated code asserts, or takes for granted, when it indexes its
\* tables, its buffers and its stacks.
AssertionsHold ==
    /\ which = "calc" => ParserAsserts
    /\ which = "http" => HttpAsserts
    /\ which = "argv" => ArgvStackFits

\* A request is what its sender meant: on its way out of the client, as the header
\* of a response on its way in, and in the parser of the example.
RequestIsMeant ==
    /\ which = "text" => UriIsItsParts /\ RequestReadsBack /\ ResponseReadsBack
    /\ which = "http" => CallbacksAreMeant /\ EnvironTellsRequest

\* The reader of responses comes back, and its descriptor is closed.
RequestReturns == which = "reader" => ReaderReturns

=============================================================================
