---------------------------- MODULE CallbackCodec ----------------------------
(***************************************************************************)
(* Typed callback data of vitrine (callbacks.py): a payload is packed into *)
(* the string of a button, and unpacked when the button is pressed, which  *)
(* may be after the model has changed.                                     *)
(*                                                                         *)
(* A model is [prefix, keyed, fields], a field [name, type, default,       *)
(* nullable]; a payload maps the names of the fields to values.  A value   *)
(* is [is, text]: what it is, and the text of its content.  A text stands  *)
(* for the bytes of its percent-encoded form, which holds no separator and *)
(* which unquote gives back; texts differ in length, and 0 is the empty    *)
(* one.                                                                    *)
(*                                                                         *)
(* The types of fields:                                                    *)
(*   str          texts                                                    *)
(*   int          numbers                                                  *)
(*   member       a bool, written 0 or 1, a Literal of texts, an Enum of   *)
(*                texts or an IntEnum, written as their value              *)
(*   int_or_str   numbers and texts                                        *)
(*   bytes        written as Python shows them                             *)
(*   opaque       what is read from no text: a list, a model, an Enum or a *)
(*                Literal of numbers                                       *)
(***************************************************************************)
EXTENDS Integers, Sequences, SequencesExt

CONSTANTS
    MaxLen,           \* MAX_LEN, in bytes
    Numerals,         \* the texts that int() reads,
    Members           \* and those of the values of an Enum

ASSUME CodecAssumption == MaxLen \in Nat /\ Numerals \subseteq Nat /\ Members \subseteq Nat

Value(is, text) == [is |-> is, text |-> text]
None == Value("none", 0)          \* Python's None
Required == Value("required", 0)  \* the default of a field that has none
Invalid == Value("invalid", 0)    \* what pydantic refuses

\* How long prefixes and names are, and what stands between the parts.
PrefixLen == 1
NameLen == 1

\* What str() writes around the content of bytes or of a list: quotes and brackets.
Around == 2

Names(model) == {f.name : f \in ToSet(model.fields)}

\* _encode_value: nothing for None, the value of an Enum, the number of a bool; and str()
\* of it, quoted.
Encoded(value) == IF value.is \in {"bytes", "opaque"} THEN value.text + Around ELSE value.text

\* Mutant: the empty string is let through.
PackableAnything(values) == TRUE

\* _encode_field: it would come back as an omitted value.
Packable(values) == \A v \in values : v # None => Encoded(v) # 0

\* What of a payload goes on the wire: all of it, or what is not a default.
Sent(model, payload) ==
    LET f == model.fields
        sent[n \in 0 .. Len(f)] ==
            IF n = 0 THEN <<>>
            ELSE IF model.keyed /\ payload[f[n].name] = f[n].default THEN sent[n - 1]
            ELSE Append(sent[n - 1], f[n])
    IN sent[Len(f)]

\* pack: [ok, wire]; a wire is [prefix, keyed, parts], a part [name, value],
\* and the name is only written in a keyed one.
Pack(model, payload) ==
    LET sent == Sent(model, payload)
        parts == [i \in DOMAIN sent |-> [name |-> sent[i].name,
                                         value |-> Encoded(payload[sent[i].name])]]
        overhead == IF model.keyed THEN NameLen + 2 ELSE 1
        size == FoldLeft(LAMBDA n, part : n + overhead + part.value, PrefixLen, parts)
    IN [ok |-> Packable({payload[f.name] : f \in ToSet(sent)}) /\ size <= MaxLen,
        wire |-> [prefix |-> model.prefix, keyed |-> model.keyed, parts |-> parts]]

\* matches: everything before the first separator is the prefix.
Matches(model, wire) == wire.prefix = model.prefix

\* _parse_positional: by place; an empty part is an omitted value.
ParsePositional(model, parts) ==
    LET given == {i \in DOMAIN parts : i <= Len(model.fields) /\ parts[i].value # 0}
        place(n) == CHOOSE i \in given : model.fields[i].name = n
    IN [ok |-> Len(parts) <= Len(model.fields) \/ (Len(parts) = 1 /\ given = {}),
        values |-> [n \in {model.fields[i].name : i \in given} |->
                       Value("str", parts[place(n)].value)]]

\* _parse_keyed: by name; what the model does not know is passed over.
ParseKeyed(model, parts) ==
    [ok |-> TRUE,
     values |-> [n \in {p.name : p \in ToSet(parts)} \cap Names(model) |->
        LET part == CHOOSE p \in ToSet(parts) : p.name = n
        IN IF part.value = 0 THEN None ELSE Value("str", part.value)]]

\* What pydantic makes of a text for a field (external).  Of a number or a text it makes
\* a text, as that is what it is given; and it reads no quotes around bytes.
Read(type, text) ==
    CASE type \in {"str", "int_or_str"}               -> Value("str", text)
      [] type = "int" /\ text \in Numerals            -> Value("int", text)
      [] type = "member" /\ text \in Members          -> Value("member", text)
      [] type = "bytes"                               -> Value("bytes", text)
      [] OTHER                                        -> Invalid

\* The value of a field, of the string or the None that was parsed for it.
Validated(f, value) ==
    IF value # None THEN Read(f.type, value.text)
    ELSE IF f.nullable THEN None ELSE Invalid

\* model_validate: what the values are read as, and a default for what is missing.
ModelValidate(model, values) ==
    LET result(f) == IF f.name \in DOMAIN values THEN Validated(f, values[f.name]) ELSE f.default
        field(n) == CHOOSE f \in ToSet(model.fields) : f.name = n
    IN [ok |-> \A f \in ToSet(model.fields) : result(f) \notin {Invalid, Required},
        payload |-> [n \in Names(model) |-> result(field(n))]]

\* unpack: the format is read off the data, whatever the model writes now.
Unpack(model, wire) ==
    LET parsed == IF wire.keyed /\ wire.parts # <<>>
                  THEN ParseKeyed(model, wire.parts)
                  ELSE ParsePositional(model, wire.parts)
        valid == ModelValidate(model, parsed.values)
    IN [ok |-> Matches(model, wire) /\ parsed.ok /\ valid.ok, payload |-> valid.payload]
=============================================================================
