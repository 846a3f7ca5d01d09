----------------------------- MODULE MCDiscovery -----------------------------
(***************************************************************************)
(* A small instance of Discovery for TLC.                                  *)
(***************************************************************************)
EXTENDS Discovery, TLC

CONSTANTS p1, p2

MCIds == {"hy3", "glm", "trial", "promo", "preview", "nes-1", "auto", "agent", "hy3-x",
          "abroad"}

Free(m) == [m EXCEPT !.price = "free"]
Billed(m) == [m EXCEPT !.price = "billed"]
Limited(m, input) == [m EXCEPT !.input = input]
Windowed(m, default, lengths) == [m EXCEPT !.window = {[default |-> default, lengths |-> lengths]}]

Hy3 == Free(Limited(Bare("hy3"), 3))
RichHy3 == Windowed([Hy3 EXCEPT !.named = TRUE, !.output = 1], 4, {2, 4, 1})
Glm == Billed(Windowed(Limited(Bare("glm"), 4), 2, {2, 4}))
Default == [Bare("promo") EXCEPT !.isDefault = TRUE]
Foreign == Free(Bare("hy3-x"))

MCMeasured == "preview" :> Billed(Windowed(Limited(Bare("preview"), 4), 2, {2, 4}))

Array(items) == [kind |-> "array", items |-> items]
Wrap(key, node) == [kind |-> "object", wraps |-> key :> node, specs |-> <<>>]
Specs(specs) == [kind |-> "object", wraps |-> <<>>, specs |-> specs]
Spec1(m) == [model |-> m, fields |-> {"name"}]
NotASpec == [model |-> Bare(NoId), fields |-> {}]

Payload(body, mentions) == [body |-> body, mentions |-> mentions]
Banner(id, target) == [id |-> id, target |-> target]

\* Both catalogs, one richer, with a service model, an alias and a blank id;
\* a banner on a model no catalog has; the other realm's banner on yet another.
Rich == [console |-> Payload(Wrap("data", Wrap("list",
                        Array(<<RichHy3, Bare("nes-1"), Bare(NoId), Default>>))), <<>>),
         v3      |-> Payload(Wrap("models", Array(<<Hy3, Glm, Bare("auto")>>)),
                             <<Banner("trial", NoId), Banner("hy3", NoId), Banner("trial", "hy3"),
                               Banner("auto", NoId)>>),
         cross   |-> Payload(Array(<<Foreign>>), <<Banner("abroad", NoId)>>)]

\* The console fails, the other catalog is a map with siblings that are no
\* models; the other realm prices the trial.
Mapped == [console |-> NoPayload,
           v3      |-> Payload(Specs("agent" :> NotASpec @@ "hy3" :> Spec1(Hy3)),
                               <<Banner("trial", "hy3")>>),
           cross   |-> Payload(Array(<<Foreign, Billed(Limited(Bare("trial"), 3))>>), <<>>)]

\* A banner and nothing else; promotions on a measured and an unknown id.
BannerOnly == [console |-> NoPayload,
               v3      |-> Payload(Wrap("models", Nothing),
                                   <<Banner("preview", NoId), Banner("promo", NoId)>>),
               cross   |-> NoPayload]

Silent == [console |-> NoPayload, v3 |-> Payload(Wrap("models", Nothing), <<>>),
           cross |-> NoPayload]

MCAnswers == p1 :> {Rich, Mapped, BannerOnly, Silent} @@ p2 :> {Rich}

\* The bodies and what is in them.
Bodies == UNION {{a.console.body, a.v3.body, a.cross.body} : a \in MCAnswers[p1] \cup MCAnswers[p2]}
MCNodes == Inside(Inside(Bodies))

\* Everything; a namespace; an explicit list.
Open == [prefix |-> FALSE, mode |-> "catalog", allow |-> {}, extra |-> <<Bare("preview")>>]
Named == [Open EXCEPT !.prefix = TRUE,
                      !.extra = <<Limited(Bare("hy3"), 2), Bare("hy3"), Bare("auto")>>]
Allow == [Open EXCEPT !.mode = "allow", !.allow = {"glm", "auto"},
                      !.extra = <<Windowed(Bare("hy3"), 1, {1, 5, 7})>>]
MCConfigs == <<Allow, Named, Open>>
MCLeakConfigs == <<Open, Named>>
=============================================================================
