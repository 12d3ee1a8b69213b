------------------------------ MODULE Routing ------------------------------
(***************************************************************************)
(* Which backend a request's model name selects (route.rs), given the      *)
(* providers of a loaded configuration (config.rs), and the names the      *)
(* router offers for its models: the rows of /v1/models (catalog.rs), the  *)
(* choices added to the Agent tool (agent_schema.rs) and the picker's rows *)
(* (admin.rs).                                                             *)
(*                                                                         *)
(* A name is the sequence of the tokens that routing tells apart: the      *)
(* gateway prefix, the slash, the context marker and what lies between.    *)
(* Providers have distinct names, the keys of a table, of one such token.  *)
(***************************************************************************)
EXTENDS Naturals, FiniteSets, SequencesExt

CONSTANTS Token,        \* what routing tells apart in a name
          File,         \* configuration files: sequences of providers
          Requested,    \* model names that clients send
          None          \* no model name: a body without one, or not JSON

GatewayPrefix == "claude-routed-"
LargeContextMarker == "[1m]"

ASSUME TokenAssumption == {"/", GatewayPrefix, LargeContextMarker} \subseteq Token

Name == Seq(Token)
Model == [id : Name, upstream : Name, aliases : Seq(Name), large : BOOLEAN]
ProviderName == Token \ {"/", GatewayPrefix}

ASSUME NameAssumption == Requested \subseteq Name /\ None \notin Name
ASSUME FileAssumption == File \subseteq Seq([name : ProviderName, models : Seq(Model)])

VARIABLES config,   \* the providers of the configuration the worker loaded
          routed    \* the request routed last, and its backend

vars == <<config, routed>>

Qualified(provider, name) == <<provider, "/">> \o name

-----------------------------------------------------------------------------
(* config.rs: a file is refused if two models claim a name.                *)

Names(model) == <<model.id>> \o model.aliases

Matches(model, name) == Contains(Names(model), name)

ModelNames(provider) ==
  FlattenSeq([j \in DOMAIN provider.models |-> Names(provider.models[j])])

UniqueIds(providers) ==
  \A i, k \in DOMAIN providers :
    \A j \in DOMAIN providers[i].models, l \in DOMAIN providers[k].models :
      providers[i].models[j].id = providers[k].models[l].id => <<i, j>> = <<k, l>>

UniqueModels(providers) ==
  IsInjective(FlattenSeq([i \in DOMAIN providers |-> ModelNames(providers[i])]))

Init == /\ config \in {file \in File : UniqueModels(file)}
        /\ routed = [model |-> None, backend |-> [kind |-> "anthropic"]]

-----------------------------------------------------------------------------
(* route.rs.                                                               *)

StripMarker(name) ==
  IF name # <<>> /\ Last(name) = LargeContextMarker THEN Front(name) ELSE name

StripPrefix(name) ==
  IF name # <<>> /\ Head(name) = GatewayPrefix THEN Tail(name) ELSE name

Stripped(name) == StripPrefix(StripMarker(name))

Anthropic == [kind |-> "anthropic"]
UnknownAlias == [kind |-> "unknown"]
NotFound == [kind |-> "none"]
Provider(i, model) ==
  [kind |-> "provider", provider |-> i, realModel |-> model.upstream]

FindIn(wanted, name) ==
  LET isWanted(p) == p \in wanted /\ \E j \in DOMAIN p.models : Matches(p.models[j], name)
      i == SelectInSeq(config, isWanted)
      matches(model) == Matches(model, name)
  IN  IF i = 0 THEN NotFound
      ELSE Provider(i, config[i].models[SelectInSeq(config[i].models, matches)])

FindAnywhere(provider, name) == FindIn(ToSet(config), name)

\* The first model with the name, of the first provider asked for that has one.
Find(provider, name) ==
  FindIn({p \in ToSet(config) : provider \in {None, <<p.name>>}}, name)

ResolveQualified(provider, rest) ==
  LET found == Find(provider, rest)
  IN  IF found # NotFound THEN found
      ELSE IF \E i \in DOMAIN config : <<config[i].name>> = provider THEN UnknownAlias
      ELSE Anthropic

ResolveBare(name) ==
  LET found == Find(None, name)
  IN  IF found # NotFound THEN found ELSE Anthropic

Resolve(model) ==
  LET name == Stripped(model)
      isSlash(token) == token = "/"
      slash == SelectInSeq(name, isSlash)
  IN  IF slash = 0 THEN ResolveBare(name)
      ELSE ResolveQualified(SubSeq(name, 1, slash - 1),
                            SubSeq(name, slash + 1, Len(name)))

Route(model) ==
  routed' = [model |-> model,
             backend |-> IF model = None THEN Anthropic ELSE Resolve(model)]
  /\ UNCHANGED config

Next == \E model \in Requested \cup {None} : Route(model)

Spec == Init /\ [][Next]_vars

-----------------------------------------------------------------------------
(* The names offered for a model.                                          *)

WithMarker(model, name) == IF model.large THEN Append(name, LargeContextMarker) ELSE name

\* gateway_rows: with the marker only, if the model's context is that large.
GatewayId(provider, model) ==
  WithMarker(model, <<GatewayPrefix>> \o Qualified(provider.name, model.id))

\* model_choices: every name, with and without the marker.
ModelChoices(provider, model, name) ==
  LET qualified == Qualified(provider.name, name)
  IN  {qualified, WithMarker(model, qualified)}

\* picker: the first shorthand.
Shorthand(model) == Names(model)[IF model.aliases = <<>> THEN 1 ELSE 2]
PickerName(model) == WithMarker(model, Shorthand(model))

-----------------------------------------------------------------------------
\* Names that a qualified, and those that a bare reference can be made of.
Plain(name) == Last(name) # LargeContextMarker
Bare(name) == Plain(name) /\ ~Contains(name, "/") /\ Head(name) # GatewayPrefix

\* Every name the router offers for a model selects that model and no other,
\* whatever the ids and shorthands of the others are, as long as the file was
\* accepted (catalog.rs 61-64, agent_schema.rs 109-123, admin.rs 72-80). Names
\* that end with the marker cannot be told from marked ones, and bare ones with
\* a slash or the prefix not from qualified ones.
OfferedNamesRoute ==
  \A i \in DOMAIN config : \A j \in DOMAIN config[i].models :
    LET provider == config[i]
        model == provider.models[j]
        this == Provider(i, model)
    IN  /\ Plain(model.id) => Resolve(GatewayId(provider, model)) = this
        /\ \A name \in ToSet(Names(model)) :
             Plain(name) => \A choice \in ModelChoices(provider, model, name) :
                              Resolve(choice) = this
        /\ Bare(Shorthand(model)) => Resolve(PickerName(model)) = this

\* What a name means: every model that has it, alone or behind its provider's.
Meant(name) ==
  UNION {{<<i, n>> : n \in {n \in ToSet(ModelNames(config[i])) :
                              \/ name = Qualified(config[i].name, n)
                              \/ name = n /\ ~Contains(n, "/")}} : i \in DOMAIN config}

\* A request goes to a provider only for a name that means one of its models
\* and no other provider's; names that mean nothing are Anthropic's, unless they
\* carry the name of a configured provider (route.rs 33-76).
RequestsGoWhereMeant ==
  routed.model # None =>
    LET name == Stripped(routed.model)
        meant == Meant(name)
        ours == \E i \in DOMAIN config :
                  Len(name) > 1 /\ SubSeq(name, 1, 2) = <<config[i].name, "/">>
    IN  IF meant = {}
        THEN routed.backend = IF ours THEN UnknownAlias ELSE Anthropic
        ELSE \E m \in meant :
               /\ meant = {m}
               /\ routed.backend.kind = "provider" /\ routed.backend.provider = m[1]
               /\ \E j \in DOMAIN config[m[1]].models :
                    /\ Matches(config[m[1]].models[j], m[2])
                    /\ routed.backend.realModel = config[m[1]].models[j].upstream
=============================================================================
