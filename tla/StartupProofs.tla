---------------------------- MODULE StartupProofs ----------------------------
(***************************************************************************)
(* Proofs about Startup, for every environment: no variable is read        *)
(* together with another.                                                  *)
(***************************************************************************)
EXTENDS Startup, TLAPS

LEMMA Kinds ==
  ASSUME NEW v \in Variable
  PROVE  /\ v \in Int => v \notin Bool
         /\ v \in Quoted => v \in Text
         /\ v \in Text \cup {"NODE_ENV"} <=> v \notin Int \cup Bool
         /\ "NODE_ENV" \notin Text
<1>1. v \in Int => v \notin Bool
  BY DEF Int, Bool
<1>2. v \in Quoted => v \in Text
  BY DEF Quoted, Text
<1>3. "NODE_ENV" \notin Text
  BY DEF Text
<1>4. v \in Text \cup {"NODE_ENV"} => v \notin Int \cup Bool
  BY DEF Text, Int, Bool
<1>5. QED
  BY <1>1, <1>2, <1>3, <1>4 DEF Variable

\* What is in process.env when the configuration is read.
Written(v) == IF given[v].in = "file" THEN Validated(v, given[v].as)[2]
                                      ELSE given[v].as

\* What the services should be configured with.
Meant(v) == IF given[v].as = Unset THEN PlainScalar[Default[v]]
                                   ELSE Validated(v, given[v].as)

\* Values that YAML is known to read.
LEMMA ValuesOf ==
  /\ \A d \in Decimal : PlainScalar[d] = <<"number", d>> /\ PlainScalar[d] \in Value
  /\ \A b \in {"true", "false"} :
       PlainScalar[b] = <<"boolean", b>> /\ PlainScalar[b] \in Value
  /\ \A s \in Spelling : <<"string", s>> \in Value
<1>1. \A d \in Decimal : <<"number", d>> \in Value
  BY ReadingAssumption
<1>2. \A b \in {"true", "false"} : <<"boolean", b>> \in Value
  BY ReadingAssumption
<1>3. \A s \in Spelling : <<"string", s>> \in Value
  BY ReadingAssumption
<1>4. QED
  BY <1>1, <1>2, <1>3, ReadingAssumption

\* A default is read as what it stands for.
LEMMA Defaults ==
  ASSUME NEW v \in Int \cup Bool
  PROVE  /\ Default[v] \in Spelling /\ Read(v, Default[v]) = PlainScalar[Default[v]]
         /\ PlainScalar[Default[v]] \in Value
<1>1. v \notin Quoted
  BY DEF Quoted, Int, Bool
<1>2. Default[v] \in {"true", "8000"}
  BY DEF Default
<1>3. Default[v] \in Spelling /\ PlainScalar[Default[v]] \in Value
  BY <1>2, ValuesOf, ReadingAssumption
<1>4. QED
  BY <1>1, <1>3 DEF Read

\* What a reading gives.
LEMMA ReadType ==
  ASSUME NEW v \in Variable, NEW s \in Spelling
  PROVE  Read(v, s) \in Value \cup {Error, Open}
BY ReadingAssumption DEF Read

\* What the validation makes of a variable of .env that it accepts.
LEMMA Rewritten ==
  ASSUME NEW v \in Int \cup Bool, NEW s \in Spelling, Valid(v, s)
  PROVE  /\ Validated(v, s)[2] \in Spelling
         /\ Read(v, Validated(v, s)[2]) = Validated(v, s)
         /\ Validated(v, s) \in Value
<1>1. v \notin Quoted /\ v \in Variable
  BY DEF Quoted, Int, Bool, Variable
<1>2. CASE v \in Int
  <2>1. Validated(v, s) = <<"number", ToNumber[s]>>
    BY <1>1, <1>2, Kinds DEF Validated
  <2>2. ToNumber[s] \in Decimal
    BY <1>1, <1>2, Kinds, ReadingAssumption DEF Valid
  <2>3. QED
    BY <1>1, <2>1, <2>2, ValuesOf, ReadingAssumption DEF Read
<1>3. CASE v \in Bool
  <2>1. Validated(v, s) = NormalizeBool(s) /\ NormalizeBool(s)[1] = "boolean"
    BY <1>1, <1>3, Kinds DEF Validated, Valid
  <2>2. ToLowerCase[s] \in {"true", "false"}
    BY <2>1 DEF NormalizeBool
  <2>3. Validated(v, s) = <<"boolean", ToLowerCase[s]>>
    BY <2>1, <2>2 DEF NormalizeBool
  <2>4. QED
    BY <1>1, <2>2, <2>3, ValuesOf, ReadingAssumption DEF Read
<1>4. QED
  BY <1>2, <1>3

\* A variable that is accepted is defined, and what YAML makes of it is what was
\* meant unless it is misread, and a value unless it breaks the text.
LEMMA Reading ==
  ASSUME NEW v \in Variable, given[v] \in Setting, Accepts(v, given[v].as),
         environ[v] = Written(v)
  PROVE  /\ environ[v] \in Spelling \cup {Unset}
         /\ Interpolate(v, environ[v]) # Unset
         /\ Load(v) \in Value \cup {Error, Open}
         /\ Load(v) = Error <=> Breaks(v, Error)
         /\ Load(v) = Open <=> Breaks(v, Open)
         /\ Load(v) = Meant(v) <=> ~Misread(v)
<1> DEFINE s == given[v].as
<1> USE ReadingAssumption
<1>1. CASE given[v] = [in |-> "nowhere", as |-> Unset]
  <2>1. environ[v] = Unset /\ s = Unset /\ v \in Int \cup Bool
    BY <1>1 DEF Written, Accepts, Optional
  <2>2. ~ReadAsGiven(v)
    BY <2>1 DEF ReadAsGiven
  <2>3. Interpolate(v, environ[v]) = Default[v]
    BY <2>1 DEF Interpolate, Default
  <2>4. Load(v) = PlainScalar[Default[v]] /\ Load(v) \in Value /\ Default[v] # Unset
    BY <2>1, <2>3, Defaults DEF Load
  <2>5. QED
    BY <2>1, <2>2, <2>3, <2>4 DEF Meant, Misread, Breaks
<1>2. CASE given[v].in \in {"process", "file"} /\ s \in Spelling
  <2>1. s # Unset /\ Meant(v) = Validated(v, s) /\ Valid(v, s)
    BY <1>2 DEF Meant, Accepts
  <2>2. CASE given[v].in = "file" /\ v \in Int \cup Bool
    <3>1. environ[v] = Validated(v, s)[2] /\ environ[v] \in Spelling
      BY <1>2, <2>1, <2>2, Rewritten DEF Written
    <3>2. Interpolate(v, environ[v]) = environ[v] /\ environ[v] # Unset
      BY <3>1 DEF Interpolate
    <3>3. Load(v) = Meant(v) /\ Load(v) \in Value
      BY <1>2, <2>1, <2>2, <3>1, <3>2, Rewritten DEF Load
    <3>4. ~ReadAsGiven(v)
      BY <2>2 DEF ReadAsGiven
    <3>5. QED
      BY <3>1, <3>2, <3>3, <3>4 DEF Misread, Breaks
  <2>3. CASE ~(given[v].in = "file" /\ v \in Int \cup Bool)
    <3>1. environ[v] = s
      BY <2>3 DEF Written, Validated
    <3>2. Interpolate(v, environ[v]) = s
      BY <2>1, <3>1 DEF Interpolate
    <3>3. Load(v) = Read(v, s) /\ Load(v) \in Value \cup {Error, Open}
      BY <1>2, <3>2, ReadType DEF Load
    <3>4. CASE v = "NODE_ENV"
      <4>1. v \notin Int \cup Bool \cup Text \cup Quoted
        BY <3>4, Kinds
      <4>2. s \in Environment /\ Validated(v, s) = <<"string", s>>
        BY <2>1, <4>1 DEF Valid, Validated
      <4>3. Load(v) = <<"string", s>> /\ Load(v) \in Value /\ ~ReadAsGiven(v)
        BY <1>2, <3>3, <3>4, <4>1, <4>2 DEF Read, ReadAsGiven
      <4>4. QED
        BY <1>2, <2>1, <3>1, <3>2, <4>2, <4>3 DEF Misread, Breaks
    <3>5. CASE v \in Bool
      <4>1. NormalizeBool(s)[1] = "boolean" /\ v \notin Quoted
        BY <2>1, <3>5, Kinds DEF Valid
      <4>2. ToLowerCase[s] \in {"true", "false"}
        BY <4>1 DEF NormalizeBool
      <4>3. Load(v) \in {<<"boolean", ToLowerCase[s]>>, <<"string", s>>}
        BY <1>2, <3>3, <4>1, <4>2 DEF Read
      <4>4. Load(v) \in Value
        BY <1>2, <4>2, <4>3
      <4>5. ReadAsGiven(v)
        BY <1>2, <2>1, <2>3, <3>5, Kinds DEF ReadAsGiven
      <4>6. QED
        BY <1>2, <2>1, <3>1, <3>2, <3>3, <3>5, <4>4, <4>5 DEF Misread, Breaks
    <3>6. CASE v # "NODE_ENV" /\ v \notin Bool
      <4>1. ReadAsGiven(v)
        BY <1>2, <2>1, <2>3, <3>6 DEF ReadAsGiven
      <4>2. QED
        BY <1>2, <2>1, <3>1, <3>2, <3>3, <3>6, <4>1 DEF Misread, Breaks
    <3>7. QED
      BY <3>4, <3>5, <3>6
  <2>4. QED
    BY <2>2, <2>3
<1>3. QED
  BY <1>1, <1>2 DEF Setting

-----------------------------------------------------------------------------
\* Inductive.
Inv ==
    /\ TypeOK
    /\ phase \in {"validated", "configured"} =>
         \A v \in Variable : Accepts(v, given[v].as) /\ environ[v] = Written(v)
    /\ phase = "configured" /\ NoneOpen =>
         \A v \in Variable : config[v] = Load(v) /\ Load(v) # Error
    /\ ValidatedStarts

LEMMA InitInv == Init => Inv
BY ReadingAssumption DEF Init, Inv, TypeOK, ValidatedStarts, Setting

LEMMA NextInv == Inv /\ [Next]_vars => Inv'
<1> SUFFICES ASSUME Inv, [Next]_vars PROVE Inv'
  OBVIOUS
<1>1. CASE UNCHANGED vars
  BY <1>1 DEF vars, Inv, TypeOK, Written, ValidatedStarts, NoneOpen, Breaks, ReadAsGiven,
              Load, Interpolate
<1>2. CASE Validate
  <2>1. phase = "start" /\ UNCHANGED <<given, config>>
    BY <1>2 DEF Validate
  <2>2. CASE phase' = "stopped" /\ ~(\A v \in Variable : Accepts(v, given[v].as))
    <3>1. UNCHANGED environ
      BY <1>2, <2>2 DEF Validate
    <3>2. QED
      BY <2>1, <2>2, <3>1 DEF Inv, TypeOK, ValidatedStarts
  <2>3. CASE phase' = "validated" /\ \A v \in Variable : Accepts(v, given[v].as)
    <3>1. environ' = [v \in Variable |-> Written(v)]
      BY <1>2, <2>3 DEF Validate, Written
    <3>2. ASSUME NEW v \in Variable PROVE Written(v) \in Spelling \cup {Unset}
      <4>1. given[v] \in Setting /\ Accepts(v, given[v].as)
        BY <2>3 DEF Inv, TypeOK
      <4>2. CASE given[v].in = "file" /\ v \in Int \cup Bool
        <5>1. given[v].as \in Spelling /\ Valid(v, given[v].as)
          BY <4>1, <4>2, ReadingAssumption DEF Setting, Accepts
        <5>2. QED
          BY <4>2, <5>1, Rewritten DEF Written
      <4>3. CASE ~(given[v].in = "file" /\ v \in Int \cup Bool)
        BY <4>1, <4>3 DEF Written, Validated, Setting
      <4>4. QED
        BY <4>2, <4>3
    <3>3. QED
      BY <2>1, <2>3, <3>1, <3>2 DEF Inv, TypeOK, Written, ValidatedStarts
  <2>4. QED
    BY <1>2, <2>2, <2>3 DEF Validate
<1>3. CASE Configure
  <2>1. phase = "validated" /\ UNCHANGED <<given, environ>>
    BY <1>3 DEF Configure
  <2>2. ASSUME NEW v \in Variable
        PROVE  /\ Interpolate(v, environ[v]) # Unset
               /\ Load(v) \in Value \cup {Error, Open}
               /\ Load(v) = Error <=> Breaks(v, Error)
               /\ Load(v) = Open <=> Breaks(v, Open)
    BY <2>1, Reading DEF Inv, TypeOK
  <2>3. CASE phase' = "stopped" /\ UNCHANGED config
    <3>1. \E v \in Variable : Breaks(v, Error) \/ Breaks(v, Open)
      BY <1>3, <2>2, <2>3 DEF Configure
    <3>2. (\E v \in Variable : Breaks(v, Error) \/ Breaks(v, Open))'
      BY <2>1, <3>1 DEF Breaks, ReadAsGiven
    <3>3. QED
      BY <2>1, <2>3, <3>2 DEF Inv, TypeOK, ValidatedStarts
  <2>4. CASE phase' = "configured" /\ \E v \in Variable : Load(v) = Open
    <3>1. UNCHANGED config /\ ~NoneOpen
      BY <1>3, <2>2, <2>4 DEF Configure, NoneOpen
    <3>2. ~NoneOpen'
      BY <2>1, <3>1 DEF NoneOpen, Breaks, ReadAsGiven
    <3>3. QED
      BY <2>1, <2>4, <3>1, <3>2 DEF Inv, TypeOK, ValidatedStarts, Written
  <2>5. CASE /\ phase' = "configured" /\ config' = [v \in Variable |-> Load(v)]
             /\ \A v \in Variable : Load(v) \notin {Error, Open}
    <3>1. \A v \in Variable : Load(v) \in Value /\ ~Breaks(v, Error)
      BY <2>2, <2>5
    <3>2. \A v \in Variable : Load(v)' = Load(v) /\ ~Breaks(v, Error)'
      BY <2>1, <3>1 DEF Load, Interpolate, Breaks, ReadAsGiven
    <3>3. TypeOK'
      BY <2>1, <2>5, <3>1 DEF Inv, TypeOK
    <3>4. QED
      BY <2>1, <2>5, <3>2, <3>3 DEF Inv, Written, ValidatedStarts
  <2>6. QED
    BY <1>3, <2>2, <2>3, <2>4, <2>5 DEF Configure
<1>4. QED
  BY <1>1, <1>2, <1>3 DEF Next

-----------------------------------------------------------------------------
\* The variables and what they become keep their types.
THEOREM TypeCorrect == Spec => []TypeOK
<1>1. Inv => TypeOK
  BY DEF Inv
<1>2. QED
  BY <1>1, InitInv, NextInv, PTL DEF Spec

\* Whatever Number() and YAML make of spellings beyond ReadingAssumption, what
\* configuration.ts configures is what env.validation.ts accepted, or the default,
\* for each integer and boolean of .env and for the environment, and for the
\* others exactly if YAML reads them as the validation does.
THEOREM AsValidated == Spec => []ConfiguredAsValidated
<1>1. Inv => ConfiguredAsValidated
  BY Reading DEF Inv, TypeOK, ConfiguredAsValidated, Meant
<1>2. QED
  BY <1>1, InitInv, NextInv, PTL DEF Spec

\* Whatever the environment, a process that passes env.validation.ts is
\* configured by configuration.ts, unless YAML rejects what a secret, a name or
\* an integer of the process is set to, or reads it with the lines around it.
THEOREM Starts == Spec => []ValidatedStarts
<1>1. Inv => ValidatedStarts
  BY DEF Inv
<1>2. QED
  BY <1>1, InitInv, NextInv, PTL DEF Spec
=============================================================================
