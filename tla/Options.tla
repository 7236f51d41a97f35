------------------------------ MODULE Options ------------------------------
(***************************************************************************)
(* The provider's options (pkg/operator/options): AddFlags gives every     *)
(* flag its default from an environment variable, Parse parses the command *)
(* line and runs Validate.  Texts are model values or strings; what        *)
(* strconv.ParseFloat makes of a text is the table FloatText, in           *)
(* thousandths (0.075 is 75).  Only the emptiness of the four string       *)
(* options matters to the code.                                            *)
(***************************************************************************)
EXTENDS Integers, TLC

CONSTANTS
    NoEnv,      \* what os.LookupEnv reports for an unset variable
    FloatText   \* FloatText[t]: strconv.ParseFloat(t, 64) as [ok, val]

StringFlags == {"region", "cluster-id", "secret-id", "secret-key"}
OverheadFlag == "vm-memory-overhead-percent"

\* The environment variable each flag defaults from.
EnvOf == ("region" :> "REGION") @@ ("cluster-id" :> "CLUSTER_ID")
         @@ ("secret-id" :> "SECRET_ID") @@ ("secret-key" :> "SECRET_KEY")
         @@ (OverheadFlag :> "VM_MEMORY_OVERHEAD_PERCENT")

\* karpenter's env.WithDefaultString: the variable's text if it is set.
WithDefaultString(env, key, def) ==
    IF key \in DOMAIN env /\ env[key] # NoEnv THEN env[key] ELSE def

(* util.WithDefaultFloat64: the default when the variable is unset or      *)
(* ParseFloat fails on it (the error is dropped), its value otherwise.     *)
WithDefaultFloat64(env, key, def) ==
    IF key \in DOMAIN env /\ env[key] # NoEnv /\ FloatText[env[key]].ok
    THEN FloatText[env[key]].val ELSE def

\* AddFlags: the value of every option before the command line is parsed.
AddFlags(env) ==
    [f \in StringFlags |-> WithDefaultString(env, EnvOf[f], "")]
    @@ (OverheadFlag :> WithDefaultFloat64(env, EnvOf[OverheadFlag], 75))

\* validateRequiredFields: "missing field" for the first empty one of the four.
validateRequiredFields(o) ==
    LET order == <<"region", "cluster-id", "secret-id", "secret-key">>
        empty == {i \in 1..4 : o[order[i]] = ""}
    IN  IF empty = {} THEN {}
        ELSE {order[CHOOSE i \in empty : \A j \in empty : i <= j]}

validateVMMemoryOverheadPercent(o) ==
    IF o[OverheadFlag] < 0 THEN {OverheadFlag} ELSE {}

\* Validate: multierr.Combine of both checks, so both errors are reported.
Validate(o) == validateVMMemoryOverheadPercent(o) \cup validateRequiredFields(o)

(* Parse: fs.Parse sets each flag given in args (a function from flag      *)
(* names to texts) over its default; a float flag ParseFloat refuses fails *)
(* the parse.  Then Validate.  The result is [ok, opts], or [ok, errs]     *)
(* with the flags an error names.                                          *)
Parse(env, args) ==
    LET o == [f \in DOMAIN AddFlags(env) |->
                 IF f \notin DOMAIN args THEN AddFlags(env)[f]
                 ELSE IF f = OverheadFlag THEN FloatText[args[f]].val
                 ELSE args[f]]
    IN  IF OverheadFlag \in DOMAIN args /\ ~FloatText[args[OverheadFlag]].ok
        THEN [ok |-> FALSE, errs |-> {OverheadFlag}]
        ELSE IF Validate(o) = {} THEN [ok |-> TRUE, opts |-> o]
        ELSE [ok |-> FALSE, errs |-> Validate(o)]

=============================================================================
