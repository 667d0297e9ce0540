------------------------------- MODULE Startup -------------------------------
(***************************************************************************)
(* The start of a process, as far as its configuration goes                *)
(* (src/backends/nest/src/config): the environment is validated, the       *)
(* placeholders of config.yml are replaced by its variables, and the       *)
(* result is read as YAML.  Every variable goes through two readings, that *)
(* of env.validation.ts and that of YAML, and only the second is used.     *)
(***************************************************************************)
CONSTANTS
    Spelling,      \* what a variable may be set to
    Decimal,       \* the spellings `${n}` gives the integers
    Value,         \* what YAML can say
    Unset,         \* undefined
    Error, Open,   \* see PlainScalar
    ToNumber,      \* Number() of JavaScript: its spelling, if it is an integer,
                   \* and "NaN" if it is a fraction, infinite or no number
    ToLowerCase,   \* String.prototype.toLowerCase of JavaScript
    PlainScalar,   \* what YAML reads where a spelling stands after "key: " ...
    QuotedScalar   \* ... and between double quotes: a value; Error, where
                   \* yaml.load throws; or Open, where that depends on the other
                   \* lines, as it does behind an unclosed quote or bracket

Environment == {"development", "test", "production"}

\* What is known of Number() and of YAML, which are not part of the repository:
\* integers in the form JavaScript writes them, "true", "false" and the names of
\* the environments are read as such, and "true" and "false" in other letters
\* are booleans or strings.
ASSUME ReadingAssumption ==
    /\ Unset \notin Spelling /\ Value \cap {Error, Open} = {}
    /\ Decimal \subseteq Spelling /\ "8000" \in Decimal /\ "NaN" \notin Decimal
    /\ Environment \cup {"true", "false"} \subseteq Spelling
    /\ {"number"} \X Decimal \subseteq Value /\ {"string"} \X Spelling \subseteq Value
    /\ {"boolean"} \X {"true", "false"} \subseteq Value
    /\ ToNumber \in [Spelling -> Decimal \cup {"NaN"}]
    /\ ToLowerCase \in [Spelling -> Spelling]
    /\ PlainScalar \in [Spelling -> Value \cup {Error, Open}]
    /\ QuotedScalar \in [Spelling -> Value \cup {Error, Open}]
    /\ \A d \in Decimal : PlainScalar[d] = <<"number", d>>
    /\ \A s \in Environment : PlainScalar[s] = <<"string", s>>
    /\ \A b \in {"true", "false"} :
         /\ PlainScalar[b] = <<"boolean", b>>
         /\ \A s \in Spelling : ToLowerCase[s] = b =>
               PlainScalar[s] \in {<<"boolean", b>>, <<"string", s>>}

VARIABLES
    phase,     \* "start", "validated", "configured" or "stopped"
    given,     \* [Variable -> Setting]: the process environment and .env
    environ,   \* [Variable -> Spelling or Unset]: process.env
    config     \* [Variable -> Value or Unset]: what config.yml says at the
               \* place of the variable, if that is known

vars == <<phase, given, environ, config>>

\* EnvironmentVariables, by decorator: @IsString and @IsNotEmpty, @IsInt and
\* @IsOptional, @IsBoolean and @IsOptional.
Text == {"POSTGRES_HOST", "POSTGRES_DATABASE", "POSTGRES_USERNAME",
         "POSTGRES_PASSWORD", "JWT_ACCESS_SECRET", "JWT_REFRESH_SECRET",
         "JWT_TEMP_SECRET", "JWT_MFA_SECRET"}

Int == {"APP_PORT", "POSTGRES_PORT", "JWT_ACCESS_TIMEOUT_MS",
        "JWT_REFRESH_TIMEOUT_MS", "JWT_TEMP_TIMEOUT_MS", "JWT_MFA_TIMEOUT_MS",
        "USER_LOCK_TIMEOUT_MS", "USER_MAX_FAILED_LOGINS", "USER_MAX_SESSIONS",
        "MAX_SORT_FIELDS", "OUTBOX_MAX_ATTEMPTS", "OUTBOX_BASE_DELAY",
        "OUTBOX_MAX_DELAY", "OUTBOX_MAX_JITTER"}

Bool == {"POSTGRES_SYNC", "POSTGRES_AUTOLOAD"}

Variable == {"NODE_ENV"} \cup Text \cup Int \cup Bool

\* The placeholders of config.yml that stand between quotes.
Quoted == {"POSTGRES_HOST", "POSTGRES_PASSWORD", "JWT_ACCESS_SECRET",
           "JWT_REFRESH_SECRET", "JWT_TEMP_SECRET", "JWT_MFA_SECRET"}

\* The defaults of the integers are all decimal: that of APP_PORT for each.
Default == [v \in Int \cup Bool |-> IF v \in Bool THEN "true" ELSE "8000"]

\* Where a variable is set, if it is: in the environment of the process, or in
\* the file .env alone.
Setting == {[in |-> "nowhere", as |-> Unset]}
             \cup [in : {"process", "file"}, as : Spelling]

-----------------------------------------------------------------------------
(* The two readings, and the validation of the first. *)

\* normalizeBool.
NormalizeBool(s) == IF ToLowerCase[s] \in {"true", "false"}
                    THEN <<"boolean", ToLowerCase[s]>> ELSE <<"string", s>>

\* plainToInstance.
Validated(v, s) ==
    CASE v \in Int -> <<"number", ToNumber[s]>>
      [] v \in Bool -> NormalizeBool(s)
      [] OTHER -> <<"string", s>>

\* yaml.load, where v stands in config.yml.
Read(v, s) == IF v \in Quoted THEN QuotedScalar[s] ELSE PlainScalar[s]

IsNotEmpty(s) == s # ""

\* Faulty variant: any number will do.
ValidAnyNumber(v, s) ==
    CASE v \in Int -> TRUE
      [] v \in Bool -> NormalizeBool(s)[1] = "boolean"
      [] v \in Text -> IsNotEmpty(s)
      [] OTHER -> s \in Environment

\* The decorators of the variables.
Valid(v, s) ==
    CASE v \in Int -> ToNumber[s] # "NaN"
      [] v \in Bool -> NormalizeBool(s)[1] = "boolean"
      [] v \in Text -> IsNotEmpty(s)
      [] OTHER -> s \in Environment

\* Faulty variant: no secret is needed for the feature that is not there yet.
OptionalMfa == Int \cup Bool \cup {"JWT_MFA_SECRET"}

\* IsOptional.
Optional == Int \cup Bool

-----------------------------------------------------------------------------
(* The steps. *)

\* validateSync.
Accepts(v, s) == IF s = Unset THEN v \in Optional ELSE Valid(v, s)

\* ConfigModule.forRoot: what it validated goes into process.env, but not over
\* a variable that is there.
Validate ==
    /\ phase = "start"
    /\ IF \A v \in Variable : Accepts(v, given[v].as)
       THEN /\ phase' = "validated"
            /\ environ' = [v \in Variable |->
                  IF given[v].in = "file" THEN Validated(v, given[v].as)[2]
                                          ELSE given[v].as]
       ELSE phase' = "stopped" /\ UNCHANGED environ
    /\ UNCHANGED <<given, config>>

\* Faulty variant: the default goes first.
InterpolateDefault(v, s) ==
    IF v \in DOMAIN Default THEN Default[v] ELSE s

\* interpolate: a variable that is set, even to "", goes before the default.
Interpolate(v, s) ==
    IF s = Unset /\ v \in DOMAIN Default THEN Default[v] ELSE s

Load(v) == Read(v, Interpolate(v, environ[v]))

\* configuration: stops at a variable that is not defined, and where the text
\* is no YAML.  Where a spelling reaches into other lines that is not known, nor
\* is the configuration, if there is one.
Configure ==
    /\ phase = "validated"
    /\ IF \E v \in Variable : Interpolate(v, environ[v]) = Unset
       THEN phase' = "stopped" /\ UNCHANGED config
       ELSE IF \E v \in Variable : Load(v) = Open
       THEN phase' \in {"stopped", "configured"} /\ UNCHANGED config
       ELSE IF \E v \in Variable : Load(v) = Error
       THEN phase' = "stopped" /\ UNCHANGED config
       ELSE /\ phase' = "configured"
            /\ config' = [v \in Variable |-> Load(v)]
    /\ UNCHANGED <<given, environ>>

Init ==
    /\ phase = "start"
    /\ given \in [Variable -> Setting]
    /\ environ = [v \in Variable |->
                     IF given[v].in = "process" THEN given[v].as ELSE Unset]
    /\ config = [v \in Variable |-> Unset]

Next == Validate \/ Configure

Spec == Init /\ [][Next]_vars
-----------------------------------------------------------------------------
TypeOK ==
    /\ phase \in {"start", "validated", "configured", "stopped"}
    /\ given \in [Variable -> Setting]
    /\ environ \in [Variable -> Spelling \cup {Unset}]
    /\ config \in [Variable -> Value \cup {Unset}]

\* Variables that YAML reads from their own spelling: integers and booleans are
\* rewritten when they come from .env, and the environment has one of its names.
ReadAsGiven(v) ==
    /\ given[v].as # Unset /\ v # "NODE_ENV"
    /\ v \in Int \cup Bool => given[v].in = "process"

\* Where the two readings of such a variable part.  An integer: blank is 0 for
\* the validation and null for YAML, and 0X10 a number only for the validation.
\* A boolean: in mixed case it is a string for YAML, and hence true.  A bare
\* name: what is null, a boolean, a number or a list for YAML becomes that, and
\* blanks around it, a comment or quotes are lost.  Between quotes: whatever
\* holds an escape, or a quote and a comment.
Misread(v) == ReadAsGiven(v) /\ Read(v, given[v].as) # Validated(v, given[v].as)

\* Where YAML cannot read a variable, or not without the lines around it.  A bare
\* name: "a: b", "[x".  Between quotes: most quotes, an unknown escape, or a
\* backslash at the end.  An integer: a control character Number() skips.  Never
\* a boolean.
Breaks(v, reading) == /\ ReadAsGiven(v) /\ v \notin Bool
                      /\ Read(v, given[v].as) = reading

NoneOpen == \A v \in Variable : ~Breaks(v, Open)

\* Whatever an integer or a boolean of .env and the name of the environment are
\* set to, the services are configured with what was validated, and with the
\* default of what is not set; of the others exactly those differ that the two
\* readings tell apart.
ConfiguredAsValidated ==
    phase = "configured" /\ NoneOpen =>
        \A v \in Variable :
            LET meant == IF given[v].as = Unset THEN PlainScalar[Default[v]]
                         ELSE Validated(v, given[v].as)
            IN config[v] = meant <=> ~Misread(v)

\* A process that passes validation is configured: config.yml asks for no
\* variable that may be missing, and no boolean, no integer of .env and no name
\* of the environment breaks it.  Only what Breaks names does, and then always,
\* but for what depends on other lines.
ValidatedStarts ==
    /\ phase = "stopped" =>
         \E v \in Variable : \/ ~Accepts(v, given[v].as)
                             \/ Breaks(v, Error) \/ Breaks(v, Open)
    /\ phase = "configured" /\ NoneOpen => \A v \in Variable : ~Breaks(v, Error)
=============================================================================
