---------------------------- MODULE MCInvocation ----------------------------
(* Instances of Invocation for TLC.                                          *)
EXTENDS Invocation

\* Words, and the lines of Tailorfiles and param files.
K(kind)        == [kind |-> kind, name |-> ""]
N(kind, name)  == [kind |-> kind, name |-> name]
L(label)       == [label |-> label]
P(key, value)  == [key |-> key, value |-> value]
Secret(key, value, b64, readable) ==
  [key |-> key, value |-> value, b64 |-> b64, readable |-> readable]

MCKindMapping == [k \in {"dc", "deploymentconfig"} |-> "DeploymentConfig"]
                   @@ ("route" :> "Route") @@ ("secret" :> "Secret")
MCKinds   == {"DeploymentConfig", "Route", "Secret"}
MCLowered == ("app=foo" :> "app=foo") @@ ("app=Foo" :> "app=foo")
               @@ ("route/app=foo" :> "route/app=foo") @@ ("acme.org/app=foo" :> "acme.org/app=foo")
MCSlashed == ("route/app=foo" :> N("route", "app=foo"))
               @@ ("acme.org/app=foo" :> N("acme.org", "app=foo"))
MCItems ==
  [kind : {"DeploymentConfig", "Route"}, name : {"web", "api"},
   labels : SUBSET {"app=foo", "app=Foo", "route/app=foo"}]

Call(command, flags, on) ==
  [command |-> command, flags |-> flags @@ DefaultFlags, switches |-> on]

ParamCalls ==
  { Call("apply", ("param" :> param) @@ ("param-file" :> file) @@ ("namespace" :> ns), {}) :
      param \in { <<>>, <<P("A", "flag")>>, <<P("C", "flag"), P("A", "flag")>> },
      file  \in { <<>>, << <<".", "extra">> >>, << <<".", "dev">>, <<".", "extra">> >> },
      ns    \in { <<>>, <<"dev">> } }

FilterCalls ==
  { Call(command, ("resource" :> resource) @@ ("exclude" :> exclude)
                    @@ ("selector" :> selector), {}) :
      command  \in { "diff", "export" },
      resource \in { <<>>, <<K("dc")>>, <<K("dc"), K("route")>>, <<N("dc", "web")>>,
                     <<N("dc", "web"), K("route")>>, <<K("foo")>>, <<N("foo", "web")>> },
      exclude  \in { <<>>, <<K("dc")>>, <<N("deploymentconfig", "web"), L("app=Foo")>>,
                     <<L("app=foo")>>, <<K("foo")>>, <<L("route/app=foo"), K("route")>>,
                   <<L("acme.org/app=foo")>> },
      selector \in { <<>>, <<"app=foo">> } }

OtherCalls ==
  { Call("diff", "file" :> <<"team">>, {}),
    Call("diff", "param-dir" :> <<"nowhere">>, {"force", "upsert-only"}),
    Call("apply", ("namespace" :> <<"gone">>) @@ ("ignore-path" :> <<"p">>), {}),
    Call("edit", [o \in {} |-> <<>>], {"debug"}),
    Call("re-encrypt", "oc-binary" :> <<"oc-4">>, {}) }

FileSystem(dirs, clear, encrypted) ==
  [dirs |-> dirs, clear |-> clear, encrypted |-> encrypted]

Web == <<".", "web">>
WebInDev == <<"dev", "web">>
Dev == <<".", "dev">>
Extra == <<".", "extra">>

MCFileSystems ==
  { FileSystem({}, Web :> <<P("A", "web"), P("B", "web")>>,
               Web :> <<Secret("B", "s", FALSE, TRUE), Secret("C", "s", TRUE, TRUE)>>),
    FileSystem({"dev"},
               (WebInDev :> <<P("A", "web"), P("C", "web")>>) @@ (Dev :> <<P("A", "dev")>>)
                 @@ (Extra :> <<P("A", "extra"), P("B", "extra")>>) @@ (Web :> <<P("A", "x")>>),
               (Dev :> <<Secret("B", "s", FALSE, TRUE)>>) @@ (Web :> <<>>)),
    FileSystem({}, Web :> <<P("A", "web")>>, Web :> <<Secret("A", "s", FALSE, FALSE)>>) }

NoTailorfile == [f \in {} |-> <<>>]

MCTailorfiles ==
  { NoTailorfile,
    (<<"Tailorfile">> :> <<P("param", <<P("A", "file")>>), P("param", <<P("B", "file")>>),
                        P("", <<K("route")>>), P("force", <<"true">>)>>)
      @@ (<<"Tailorfile", "dev">> :> <<P("param", <<P("C", "file")>>),
                                    P("exclude", <<K("route")>>)>>),
    <<"Tailorfile">> :> <<P("namespace", <<"dev">>), P("param", <<P("A", NoValue)>>),
                       P("passphrase", <<"pass">>)>> }

ParamDisks ==
  { [tailorfiles |-> tf, templates |-> <<"web", "api">>, broken |-> {}, fs |-> fs] :
      tf \in MCTailorfiles, fs \in MCFileSystems }

BrokenDisk ==
  [tailorfiles |-> NoTailorfile, templates |-> <<"web", "api">>, broken |-> {"api"},
   fs |-> FileSystem({}, Web :> <<>>, [f \in {} |-> <<>>])]

MCDisks == ParamDisks \cup {BrokenDisk}

Session(binaries, loggedIn, versions) ==
  [binaries |-> binaries, loggedIn |-> loggedIn, versions |-> versions,
   projects |-> {<<"dev">>, <<"test">>}, project |-> <<"test">>]

MCSessions ==
  { Session({<<"oc">>}, TRUE, "match"), Session({<<"oc">>}, TRUE, "mismatch"),
    Session({<<"oc">>}, FALSE, "incomplete"), Session({<<"oc-4">>}, TRUE, "match") }

MCCalls == ParamCalls \cup FilterCalls \cup OtherCalls

=============================================================================
