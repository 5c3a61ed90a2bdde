------------------------------ MODULE Settings ------------------------------
(***************************************************************************)
(* The environment of a process and the configuration it reads from it     *)
(* once, at boot (framework/src/config.rs), with the places of lib.rs that *)
(* read a variable on their own.                                           *)
(*                                                                         *)
(* A raw value is None or a record of its text and whether white space     *)
(* surrounds it; the empty text is a variable that is set to nothing.      *)
(***************************************************************************)
EXTENDS Integers, Sequences, FiniteSets, SequencesExt

CONSTANTS None,
          Numbers,      \* the texts that are numbers, and the number
          HostPorts,    \* the hosts written with a colon, and what follows it
          Addresses,    \* the texts with an @
          OriginLists,  \* lists of origins, each [origin, scheme, path: BOOLEAN]
          Codes         \* the texts of three letters

\* The lookup of from_source: trimmed, and empty is unset.
Var(e, k) == IF e[k] = None \/ e[k].text = "" THEN None ELSE e[k].text
IsSet(e, k) == Var(e, k) # None
\* env::var(..).ok(): neither.
Untrimmed(e, k) ==
  IF e[k] = None THEN None ELSE IF e[k].padded THEN "padded" ELSE e[k].text

Needed == {"DOMAIN", "PROTOCOL", "DATABASE_URL", "JWT_SECRET"}

Number(t) == IF t \in DOMAIN Numbers THEN Numbers[t] ELSE 0 - 1
\* What a u16 holds.
PortNumbers == 0..65535
IsPort(t) == Number(t) \in 1..65535
\* parse_positive: a type of 32 or 64 bits, never exceeded here.
IsPositive(t) == Number(t) > 0

\* parse_smtp: all three or none, a numeric port, and a user that is an address.
Smtp == {"SMTP_HOST", "SMTP_USER", "SMTP_PASS"}
SmtpProblem(e) ==
  LET given == {k \in Smtp : IsSet(e, k)}
      host == Var(e, "SMTP_HOST")
  IN  \/ given \notin {{}, Smtp}
      \/ /\ given = Smtp
         /\ \/ host \in DOMAIN HostPorts /\ Number(HostPorts[host]) \notin PortNumbers
            \/ Var(e, "SMTP_USER") \notin Addresses
HasMailer(e) == ~SmtpProblem(e) /\ IsSet(e, "SMTP_HOST")

\* parse_cors: nothing, any origin, or a list of scheme, host and port only.
Listed(e) == OriginLists[Var(e, "CORS_ALLOWED_ORIGINS")]
CorsProblem(e) ==
  /\ Var(e, "CORS_ALLOWED_ORIGINS") \notin {None, "*"}
  /\ \E o \in ToSet(Listed(e)) : o.scheme = None \/ o.path
CorsOf(e) ==
  CASE ~IsSet(e, "CORS_ALLOWED_ORIGINS") -> {}
    [] Var(e, "CORS_ALLOWED_ORIGINS") = "*" -> {"any"}
    [] OTHER -> {o.origin : o \in ToSet(Listed(e))}

Verifies(e) == Var(e, "EMAIL_VERIFICATION_ENABLED") = "true"

\* from_source: every problem, not only the first.
Problems(e) ==
  {k \in Needed : ~IsSet(e, k)}
  \cup {k \in {"PROTOCOL"} : Var(e, k) \notin {None, "http", "https"}}
  \cup {k \in {"JWT_SECRET"} : Var(e, k) = "short"}
  \cup {k \in {"PORT"} : IsSet(e, k) /\ ~IsPort(Var(e, k))}
  \cup {k \in {"SMTP"} : SmtpProblem(e)}
  \cup {k \in {"EMAIL_VERIFICATION_ENABLED"} : Verifies(e) /\ ~HasMailer(e)}
  \cup {k \in {"GLOBAL_RATE_LIMIT_PER_SECOND", "GLOBAL_RATE_LIMIT_BURST"} :
          IsSet(e, k) /\ ~IsPositive(Var(e, k))}
  \cup {k \in {"CORS_ALLOWED_ORIGINS"} : CorsProblem(e)}
  \cup {k \in {"CURRENCY"} : IsSet(e, k) /\ Var(e, k) \notin Codes}

\* Only an explicit dev opts into dev mode.
ParseEnv(value) == IF value = "dev" THEN "dev" ELSE "prod"

OrElse(value, default) == IF value = None THEN default ELSE value
Config(e) ==
  [env |-> ParseEnv(Var(e, "ENV")),
   port |-> IF IsSet(e, "PORT") THEN Number(Var(e, "PORT")) ELSE 8080,
   database |-> Var(e, "DATABASE_URL"),
   migrations |-> OrElse(Var(e, "MIGRATIONS_DIR"), "./migrations"),
   theme |-> Var(e, "THEME"),
   burst |-> Number(OrElse(Var(e, "GLOBAL_RATE_LIMIT_BURST"), "500")),
   mailer |-> HasMailer(e), verifies |-> Verifies(e), cors |-> CorsOf(e)]

\* run: the builder's policy stands where the environment gives none.
CorsInForce(e, builder) == IF CorsOf(e) = {} THEN builder ELSE CorsOf(e)

\* What run binds: PORT as it stands, and 8080 only where it is not set.
BoundPort(e) ==
  LET raw == Untrimmed(e, "PORT") IN IF raw = None THEN 8080 ELSE Number(raw)
\* What run_healthcheck asks: PORT as it stands where it is a number.
ProbedPort(e) ==
  LET raw == Untrimmed(e, "PORT") IN
    IF raw # None /\ Number(raw) \in PortNumbers THEN Number(raw) ELSE 8080
=============================================================================
