----------------------------- MODULE Templates -----------------------------
(***************************************************************************)
(* The templates of src/container/template, from which the containers of a *)
(* workflow are made: a container, a script, an HTTP call.  An option is a *)
(* pair <<field, value>>, applied in order.  Commands, environments, ports *)
(* and labels are copied as they are and are left out.                     *)
(***************************************************************************)
EXTENDS LoopInputs

(* The map options add to the map, the others replace the field. *)
ContainerOption(c, o) ==
  IF o[1] = "volumes" THEN [c EXCEPT !.volumes = @ \cup {o[2]}] ELSE Set(c, o[1], o[2])

WaitOption(type) == <<"wait", type>>

NewContainer(name, image, options) ==
  FoldLeft(ContainerOption,
           [name |-> name, image |-> image, volumes |-> {}, wait |-> "", autoRemove |-> TRUE],
           options)

(* RunTimeout and StartTimeout are never set. *)
ContainerToInput(c) == c @@ ContainerExecutionInput("", NoImage)

TemplateValid(c) == c.name # "" /\ c.image # NoImage

ScriptImage(language) ==
  CASE language \in {"python", "python3"}             -> "python:3.11-slim"
    [] language \in {"node", "nodejs", "javascript"}  -> "node:20-slim"
    [] language = "ruby"                              -> "ruby:3.2-slim"
    [] language \in {"go", "golang"}                  -> "golang:1.25"
    [] OTHER                                          -> "bash:5.2"

ScriptOption(s, o) == ContainerOption(s, o)

NewScript(name, language, options) ==
  FoldLeft(ScriptOption,
           [name |-> name, image |-> ScriptImage(language), volumes |-> {}, autoRemove |-> TRUE],
           options)

ScriptToInput(s) == s @@ ContainerExecutionInput("", NoImage)

NewBashScript(name, options) == NewScript(name, "bash", options)

(* The name, image and autoRemove of an HTTP call become the container's;  *)
(* url, method, body and expected status go into its command.              *)
HTTPOption(h, o) == Set(h, o[1], o[2])

NewHTTP(name, options) ==
  FoldLeft(HTTPOption,
           [name |-> name, image |-> "curlimages/curl:latest", autoRemove |-> TRUE,
            method |-> "GET", expected |-> 200],
           options)

HTTPToInput(h) ==
  [ContainerExecutionInput(h.name, h.image) EXCEPT !.autoRemove = h.autoRemove]

NewHTTPHealthCheck(name) == NewHTTP(name, <<<<"method", "GET">>, <<"expected", 200>>>>)

NewHTTPWebhook(name) == NewHTTP(name, <<<<"method", "POST">>, <<"expected", 200>>>>)
=============================================================================
