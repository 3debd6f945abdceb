------------------------------ MODULE Startup ------------------------------
(***************************************************************************)
(* What phud reads before it does anything: phud/ProgramArguments.cpp,     *)
(* phud/ConfigReader.cpp, phud/ProgramConfiguration.cpp, and the arguments *)
(* of the tool dbgen/dbgen.cpp.  Operators only; the actions are those of  *)
(* module Program.                                                         *)
(*                                                                         *)
(* The arguments are a sequence of words, the first one is the program; a  *)
(* configuration file is a sequence of lines: Blank stands for an empty    *)
(* line or a comment, NoEqual for one without '=', another one has a key   *)
(* and a value, maybe empty.  Each stage gives a record or one of the ways *)
(* to end.                                                                 *)
(***************************************************************************)
EXTENDS Naturals, Sequences, SequencesExt

CONSTANTS None, Blank, NoEqual,
          Help,      \* UserAskedForHelpException
          Failed,    \* any other exception
          Aborted    \* std::terminate

Endings == {Help, Failed, Aborted}
-----------------------------------------------------------------------------
LoggingLevels == {"trace", "debug", "info", "warning", "error", "critical", "none"}
toLoggingLevel(s) == IF s \in LoggingLevels THEN s ELSE Failed

\* The word after the first short option, or else after the first long one;
\* gsl::at ends the program when there is none.
getOptionValue(arguments, short, long) ==
    LET option == IF Contains(arguments, short) THEN short ELSE long
        it == SelectInSeq(arguments, LAMBDA w : w = option)
    IN CASE it = 0 -> None
         [] it = Len(arguments) -> Aborted
         [] OTHER -> arguments[it + 1]

parseHistoryDir(arguments, dirs) ==
    LET oDir == getOptionValue(arguments, "-d", "--historyDir")
    IN IF oDir \in dirs \cup {None, Aborted} THEN oDir ELSE Failed

\* The characters are written after the end of a string that stays empty: at
\* best, its value is "".
toLowerCase(str) == ""
parseLoggingLevel(arguments) ==
    LET oLogLevel == getOptionValue(arguments, "-l", "--logLevel")
    IN IF oLogLevel \in {None, Aborted} THEN oLogLevel ELSE toLoggingLevel(toLowerCase(oLogLevel))

\* Only every second word is looked at.
listUnknownArguments(arguments) ==
    {i \in DOMAIN arguments : i % 2 = 0 /\ arguments[i] \notin {"-d", "--historyDir", "-l", "--logLevel"}}

parseProgramArguments(arguments, dirs) ==
    LET oDir == parseHistoryDir(arguments, dirs)
        oLevel == parseLoggingLevel(arguments)
    IN CASE Contains(arguments, "-h") \/ Contains(arguments, "--help") -> Help
         [] listUnknownArguments(arguments) # {} -> Failed
         [] oDir \in Endings -> oDir
         [] oLevel \in Endings -> oLevel
         [] OTHER -> [dir |-> oDir, level |-> oLevel]
-----------------------------------------------------------------------------
\* A line that gives a value to a key; an empty value is none.
Gives(line, key) == line \notin {Blank, NoEqual} /\ line.key = key /\ line.value # ""

\* A line without '=', an unknown key that has a value, or no logging level.
IsWrong(line) == \/ line = NoEqual
                 \/ /\ line \notin {Blank, NoEqual} /\ line.value # ""
                    /\ line.key \notin {"logging.level", "history.directory", "logging.pattern"}
                 \/ Gives(line, "logging.level") /\ toLoggingLevel(line.value) = Failed

\* The first wrong line ends the reading.  Or else the last line that gives a value
\* to a key counts.
ConfigReaderThrows(lines) == \E i \in DOMAIN lines : IsWrong(lines[i])
parsePropertiesFile(lines) ==
    LET ValueOf(key) == LET i == SelectLastInSeq(lines, LAMBDA line : Gives(line, key))
                        IN IF i = 0 THEN None ELSE lines[i].value
    IN [loggingLevel |-> ValueOf("logging.level"), historyDirectory |-> ValueOf("history.directory"),
        loggingPattern |-> ValueOf("logging.pattern")]

Property(key, value) == [key |-> key, value |-> value]

\* Mutant of DefaultConfigFile: a level of the comment, which LoggingLevel.cpp
\* calls otherwise.
WarnConfigFile ==
    <<Blank, Blank, Blank, Blank, Property("logging.level", "warn"), Blank, Blank, Blank,
      Property("logging.pattern", "[%Y%m%d %H:%M:%S.%e] [%l] [%t] %v"), Blank, Blank,
      Property("history.directory", "")>>

\* What createDefaultConfigFile writes.
DefaultConfigFile ==
    <<Blank, Blank, Blank, Blank, Property("logging.level", "info"), Blank, Blank, Blank,
      Property("logging.pattern", "[%Y%m%d %H:%M:%S.%e] [%l] [%t] %v"), Blank, Blank,
      Property("history.directory", "")>>

\* The arguments first, then the file; a logging level must come from one of them.
readConfiguration(parsed, lines) ==
    LET config == parsePropertiesFile(lines)
    IN IF ConfigReaderThrows(lines) \/ (parsed.level = None /\ config.loggingLevel = None) THEN Failed
       ELSE [dir |-> IF parsed.dir = None THEN config.historyDirectory ELSE parsed.dir,
             level |-> IF parsed.level = None THEN config.loggingLevel ELSE parsed.level]
-----------------------------------------------------------------------------
\* dbgen: -b <file> -d <directory> in any order, the file new, the directory valid.
getOptionalDbAndHistory(arguments, files, validDirs) ==
    IF Len(arguments) # 5 \/ ~({arguments[2], arguments[4]} \subseteq {"-b", "-d"}) THEN None
    ELSE LET first == arguments[2] = "-b"
             dbFile == IF first THEN arguments[3] ELSE arguments[5]
             historyDir == IF first THEN arguments[5] ELSE arguments[3]
         IN IF dbFile \in files \/ historyDir \notin validDirs THEN None
            ELSE [db |-> dbFile, dir |-> historyDir]
=============================================================================
