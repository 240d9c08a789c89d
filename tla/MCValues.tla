------------------------------- MODULE MCValues -------------------------------
(***************************************************************************)
(* Inputs for the operators that have no state, and for the declarations   *)
(* that a build turns into handlers.  The first state holds one input of   *)
(* one kind; nothing happens afterwards.                                   *)
(***************************************************************************)
EXTENDS InputProperties, RoutingProperties, DeclarationProperties, BuildProperties

MCSorted == <<"admin", "default", "staff">>

MCSubclasses == {<<"Dog", "Animal">>, <<"int", "float">>}

Numbered(n) == [i \in 1 .. n |-> i]

APage == \E c, f \in 0 .. 5, perPage \in 1 .. 3, number \in -1 .. 7 :
    input = [kind |-> "page", counted |-> Numbered(c), fetched |-> Numbered(f),
             perPage |-> perPage, number |-> number]

\* A key has one throttle, or one key serves two.
OwnKeys == {[key |-> 1, limit |-> 2, per |-> 3], [key |-> 2, limit |-> 1, per |-> 5]}
OneKey == {[key |-> 1, limit |-> 1, per |-> 2], [key |-> 1, limit |-> 2, per |-> 4]}
Calls(throttles, waits) ==
    {[key |-> t.key, limit |-> t.limit, per |-> t.per, wait |-> w] :
        t \in throttles, w \in waits}

ASchedule == \E throttles \in {OwnKeys, OneKey} :
    \E schedule \in [1 .. 5 -> Calls(throttles, {0, 1, 2})] :
        input = [kind |-> "schedule", calls |-> schedule]

Params == [arg : BOOLEAN, greedy : {FALSE}, required : BOOLEAN, type : {"text", "number"}]
          \cup [arg : {TRUE}, greedy : {TRUE}, required : BOOLEAN, type : {"text"}]

\* What is typed after the word of the command, which ends at a separator.
ALine == \E n \in 0 .. 2 : \E params \in [1 .. n -> Params] :
    \E m \in 0 .. 6 : \E rest \in [1 .. m -> Words \cup {Space}] :
        /\ m > 0 => rest[1] = Space
        /\ Apart(rest)
        /\ input = [kind |-> "line", params |-> params, rest |-> rest]

Field(name, type, default, nullable) ==
    [name |-> name, type |-> type, default |-> default, nullable |-> nullable]
Contents(type) ==
    CASE type = "str"        -> {Value("str", t) : t \in {0, 1, 3}}
      [] type = "int"        -> {Value("int", 1)}
      [] type = "member"     -> {Value("member", t) : t \in {0, 3}}
      [] type = "int_or_str" -> {Value("int", 1), Value("str", 1), Value("str", 3)}
      [] OTHER               -> {Value(type, t) : t \in {0, 1}}
ValuesOf(f) == Contents(f.type) \cup (IF f.nullable THEN {None} ELSE {})
FieldsOf(name, type) ==
    {Field(name, type, d, b) : d \in {Required} \cup Contents(type), b \in BOOLEAN}
    \cup {Field(name, type, None, TRUE)}
Fields(name) ==
    UNION {FieldsOf(name, t) : t \in {"str", "int", "member", "int_or_str", "bytes", "opaque"}}
Model(keyed, fields) == [prefix |-> "p", keyed |-> keyed, fields |-> fields]

AButton == \E keyed \in BOOLEAN, f \in Fields("a"),
              g \in FieldsOf("b", "str") \cup FieldsOf("b", "bytes") :
    \E x \in ValuesOf(f), y \in ValuesOf(g), two \in BOOLEAN :
        input = [kind |-> "button",
                 model |-> Model(keyed, IF two THEN <<f, g>> ELSE <<f>>),
                 payload |-> IF two THEN [n \in {"a", "b"} |-> IF n = "a" THEN x ELSE y]
                             ELSE [n \in {"a"} |-> x]]

\* A model and what it is changed into: fields go, come and move.
AnOldButton ==
    \E keyed, now \in BOOLEAN,
       f \in UNION {{Field("a", t, Required, FALSE), Field("a", t, None, TRUE)} :
                       t \in {"str", "int_or_str", "opaque"}},
       g \in {Field("b", "member", Required, FALSE), Field("b", "str", Value("str", 1), TRUE)} :
    \E x \in ValuesOf(f), y \in ValuesOf(g),
       h \in {Field("c", "bytes", Value("bytes", 1), FALSE)},
       fields \in {<<f, g>>, <<g, f>>, <<f>>, <<g>>, <<>>}, added \in {1, 2, 3} :
        input = [kind |-> "old button", old |-> Model(keyed, <<f, g>>),
                 new |-> Model(now, CASE added = 1 -> fields
                                      [] added = 2 -> fields \o <<h>>
                                      [] added = 3 -> <<h>> \o fields),
                 payload |-> [n \in {"a", "b"} |-> IF n = "a" THEN x ELSE y]]

Reg(id, kind, on, when, group, reply, edits) ==
    [id |-> id, kind |-> kind, on |-> on, when |-> when, group |-> group, reply |-> reply,
     edits |-> edits]
CommandReg(id, group, edits) == Reg(id, "command", "c", Everything, group, FALSE, edits)
CallbackReg(id, when, group) == Reg(id, "callback", "m", when, group, FALSE, FALSE)
MessageReg(id, on, edits) == Reg(id, "message", on, Everything, 0, FALSE, edits)
ReplyReg(id) == Reg(id, "message", {"t"}, Everything, 0, TRUE, FALSE)
Whens == {{p} : p \in Payloads} \cup {Everything}
TextOnly == {"t"}
FilteredAll == {"t", "c"}
Flat(id) ==
    {CommandReg(id, g, e) : g \in {0, -100}, e \in BOOLEAN}
    \cup {CallbackReg(id, w, g) : w \in Whens, g \in {0, 1, -100, -101}}
    \cup {MessageReg(id, on, e) : on \in {TextOnly, FilteredAll}, e \in BOOLEAN}
    \cup {ReplyReg(id)}
EntrySet(id) ==
    {CommandReg(id, 0, e) : e \in BOOLEAN} \cup {CallbackReg(id, w, 0) : w \in Whens}
    \cup {MessageReg(id, TextOnly, FALSE)} \cup {MessageReg(id, FilteredAll, e) : e \in BOOLEAN}
Raws == {<<>>, <<CallbackReg(31, Everything, 0)>>}

\* Bots of up to two handlers and an entry, of every kind.
ABot == \E hasAuth \in BOOLEAN, raws \in Raws, run \in {{}, Messages \cup Commands, Presses} :
    \E flat \in {<<>>} \cup {<<r>> : r \in Flat(1)} \cup {<<r, s>> : r \in Flat(1), s \in Flat(2)},
       entries \in {<<>>} \cup {<<e>> : e \in EntrySet(21)} :
        input = [kind |-> "bot", run |-> run,
                 bot |-> [hasAuth |-> hasAuth, flat |-> flat, entries |-> entries,
                          raws |-> raws]]

\* A line of routers, one with two children, and one that includes a router that is
\* included again below.
ATree == \E botMws, m1, m2, m3 \in {<<>>, <<"log">>, <<"i18n", "log">>},
            children \in {<<<<2>>, <<3>>, <<>>, <<>>>>, <<<<2, 4>>, <<3>>, <<>>, <<>>>>,
                         <<<<2, 3>>, <<3>>, <<>>, <<>>>>} :
    input = [kind |-> "tree", botMws |-> botMws, root |-> 1,
             tree |-> [children |-> children, mws |-> <<m1, m2, m3, m3>>,
                       regs |-> <<<<[id |-> 1]>>, <<[id |-> 2]>>,
                                  <<[id |-> 3], [id |-> 4]>>, <<[id |-> 5]>>>>]]

CommandRegs(id) ==
    [id : {id}, kind : {"command"}, command : {1, 2}, scope : ToSet(Sorted), hidden : BOOLEAN]
ChatLists == {<<>>, <<1>>, <<2, 1, 2>>}
AMenu == \E a \in CommandRegs(1), b \in CommandRegs(2), c \in {<<>>} \cup {<<r>> : r \in {
             [id |-> 3, kind |-> "command", command |-> 3, scope |-> "admin", hidden |-> FALSE],
             [id |-> 3, kind |-> "message", command |-> 1, scope |-> DefaultScope, hidden |-> FALSE]}},
            scopes, member \in SUBSET {"admin", "staff"}, chat \in {1, 3} :
    \E scopeChats \in [scopes -> ChatLists] :
        /\ scopes # {} => member = {}
        /\ input = [kind |-> "menu", regs |-> <<a, b>> \o c, scopeChats |-> scopeChats,
                    chat |-> chat, member |-> member]

Param(name, kind, of, class) == [name |-> name, kind |-> kind, of |-> of, class |-> class]
ParamSet ==
    {Param(n, "required", "", Unknown) : n \in {"a", "b", "user", "x"}}
    \cup {Param(n, "plain", "", Unknown) : n \in {"a", "x"}}
    \cup {Param(n, "depends", "make_b", Unknown) : n \in {"b", "y"}}
Few(S) == {<<>>} \cup {<<p>> : p \in S}

Context(handler, pa, pb, pr, known, mw, values, ca, cb) ==
    [params |-> [f \in {"handler", "make_a", "make_b", "who"} |->
                    CASE f = "handler" -> handler
                      [] f = "make_a"  -> pa
                      [] f = "make_b"  -> pb
                      [] f = "who"     -> pr],
     reserved |-> {"update"}, known |-> known, extras |-> known \cup mw, values |-> values,
     factories |-> [n \in {"a", "b"} |-> IF n = "a" THEN "make_a" ELSE "make_b"],
     principal |-> "user", resolver |-> "who",
     classes |-> [n \in {"a", "make_a", "make_b"} |->
                    CASE n = "a" -> ca [] n = "make_a" -> "Animal" [] n = "make_b" -> cb]]

\* Providers of every shape.  A default is evaluated before its function exists:
\* make_b cannot depend on itself.
AHandler ==
    \E p \in ParamSet, pa, pr \in Few(ParamSet),
       pb \in Few({q \in ParamSet : q.kind # "depends"}), mw \in {{}, {"b"}}, values \in {{}, {"a"}} :
        input = [kind |-> "handler",
                 ctx |-> Context(<<p>>, pa, pb, pr, {}, mw, values, Unknown, Unknown)]

\* Annotations and sources of every kind.
AnAnnotation ==
    \E n \in {"a", "b", "user", "x", "update"}, c \in {Unknown, "Animal", "Dog", "float"},
       kind \in {"required", "depends"}, known \in {{}, {"x"}, {"a"}}, mw \in {{}, {"x"}},
       values \in {{}, {"a"}}, ca \in {Unknown, "Dog"}, cb \in {"Animal", "int"} :
        input = [kind |-> "handler",
                 ctx |-> Context(<<Param(n, kind, "make_b", c)>>, <<>>, <<>>, <<>>,
                                 known, mw, values, ca, cb)]

StepSet ==
    {[states |-> s, on |-> o, fallback |-> FALSE] :
        s \in {<<>>, <<"s1">>, <<"s2", "s1">>, <<AnyState>>}, o \in SUBSET {1, 2}}
    \cup {[states |-> <<>>, on |-> o, fallback |-> TRUE] : o \in (SUBSET {1, 2}) \ {{}}}
Others == <<[states |-> <<>>, on |-> {1}, fallback |-> FALSE],
            [states |-> <<"s1">>, on |-> {2}, fallback |-> FALSE]>>

AConversation == \E n \in 1 .. 3 : \E steps \in [1 .. n -> StepSet] :
    input = [kind |-> "conversation", flows |-> <<steps, Others>>]

Init ==
    \/ APage \/ ASchedule \/ ALine \/ AButton \/ AnOldButton
    \/ ABot \/ ATree \/ AMenu \/ AHandler \/ AnAnnotation
    \/ AConversation

Next == UNCHANGED input

Spec == Init /\ [][Next]_input
===============================================================================
