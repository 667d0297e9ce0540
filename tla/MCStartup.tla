------------------------------ MODULE MCStartup ------------------------------
(* An instance of Startup for TLC. *)
EXTENDS Startup

Decimals == {"0", "12", "16", "1000", "8000"}

Words == Environment \cup {"true", "false"}

\* One or two spellings of each class that the readings tell apart.
Others == {"", " ", " 12 ", "0x10", "0X10", "1e3", "1.5", "~", "TRUE", "FAlsE",
           "svc #1", "[x]", "a: b", "[x", "\f12", "quo\"te", "cut\" #", "a\\b",
           "a\\qb", "a\\"}

Spellings == Decimals \cup Words \cup Others

\* Lists and what has an escape in it go by their spelling.
Values == {<<"null", "">>, <<"list", "[x]">>, <<"string", "escaped">>,
           <<"number", "1.5">>, <<"string", "svc">>, <<"string", "cut">>}
            \cup ({"number"} \X Decimals) \cup ({"boolean"} \X {"true", "false"})
            \cup ({"string"} \X Spellings)

Numbers == [s \in Spellings |->
    CASE s \in Decimals -> s
      [] s \in {"", " "} -> "0"
      [] s \in {" 12 ", "\f12"} -> "12"
      [] s \in {"0x10", "0X10"} -> "16"
      [] s = "1e3" -> "1000"
      [] OTHER -> "NaN"]

LowerCase == [s \in Spellings |->
    CASE s = "TRUE" -> "true"
      [] s = "FAlsE" -> "false"
      [] s = "0X10" -> "0x10"
      [] OTHER -> s]

Plain == [s \in Spellings |->
    CASE s \in Decimals -> <<"number", s>>
      [] s \in {"", " ", "~"} -> <<"null", "">>
      [] s = " 12 " -> <<"number", "12">>
      [] s = "0x10" -> <<"number", "16">>
      [] s = "1e3" -> <<"number", "1000">>
      [] s = "1.5" -> <<"number", "1.5">>
      [] s \in {"true", "TRUE"} -> <<"boolean", "true">>
      [] s = "false" -> <<"boolean", "false">>
      [] s = "svc #1" -> <<"string", "svc">>
      [] s = "cut\" #" -> <<"string", "cut\" #">>
      [] s = "[x]" -> <<"list", "[x]">>
      [] s \in {"a: b", "\f12"} -> Error
      [] s = "[x" -> Open
      [] OTHER -> <<"string", s>>]

InQuotes == [s \in Spellings |->
    CASE s \in {"quo\"te", "a\\qb", "\f12"} -> Error
      [] s = "a\\" -> Open
      [] s = "a\\b" -> <<"string", "escaped">>
      [] s = "cut\" #" -> <<"string", "cut">>
      [] OTHER -> <<"string", s>>]

\* Bound: a usual environment with any two variables changed, one of them of
\* these, two of each kind.
Some == {"NODE_ENV", "APP_PORT", "USER_MAX_SESSIONS", "POSTGRES_SYNC",
         "POSTGRES_USERNAME", "POSTGRES_PASSWORD", "JWT_MFA_SECRET"}

Usual == [v \in Variable |->
             IF v \in Optional THEN [in |-> "nowhere", as |-> Unset]
                               ELSE [in |-> "process", as |-> "test"]]

TwoUnusual ==
    /\ \E v \in Variable, w \in Some : \E a, b \in Setting :
         given = [Usual EXCEPT ![v] = a, ![w] = b]
    /\ Init

MCSpec == TwoUnusual /\ [][Next]_vars
=============================================================================
