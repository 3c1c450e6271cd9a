------------------------------ MODULE MCDataPath ------------------------------
(* Routes of the examples, and routes between the kinds of endpoints, for      *)
(* module DataPath.                                                            *)
EXTENDS DataPath

CONSTANTS file, otherFile

To(kind, type) == [kind |-> kind, type |-> type]
ToFile(properties) == [kind |-> "file", type |-> "HelloWorld", properties |-> properties]
Set(n, v) == [name |-> n, value |-> v]
Route(kind, type, function, writers) ==
    [kind |-> kind, type |-> type, function |-> function, writers |-> writers]

\* The properties of helloworld_to_file/config.xml; none at all; another file,
\* set twice, with properties that lack a part and one that says not to append.
Appending == <<Set("filename", DefaultFile), Set("format", "txt"), Set("append", "true")>>
Resetting == <<Set("filename", DefaultFile), Set("filename", file), Set(Null, "true"),
               Set("append", Null), Set("append", "false")>>

MCConfigurations == {
    Route("generic", "HelloWorld", "none", <<ToFile(Appending)>>),
    Route("provided", "HelloWorld", "none", <<ToFile(<<>>), ToFile(Resetting)>>),
    Route("generic", "HelloWorld", "none",
          <<ToFile(Appending), To("generic", "HelloWorld"), ToFile(Appending)>>),
    Route("provided", "Text", "none", <<To("generic", "Text"), To("provided", "Text")>>),
    Route("provided", "ShapeType", "none", <<To("provided", "ShapeType")>>),
    Route("generic", "ShapeType", "none",
          <<To("generic", "ShapeType"), To("provided", "ShapeType")>>),
    Route("generic", "ShapeType", "none", <<To("dynamic", "ShapeType")>>),
    Route("provided", "HelloWorld", "HelloWorldToKey",
          <<To("provided", "sample"), To("generic", "sample")>>),
    Route("generic", "sample", "KeyToHelloWorld",
          <<To("provided", "HelloWorld"), To("dynamic", "HelloWorld"), ToFile(<<>>)>>),
    Route("provided", "HelloWorld", "none",
          <<To("dynamic", "HelloWorld"), To("provided", "HelloWorld")>>),
    Route("provided", "HelloWorld", "HelloWorldToKey", <<To("dynamic", "sample")>>),
    Route("dynamic", "sample", "KeyToHelloWorld",
          <<To("dynamic", "HelloWorld"), To("provided", "HelloWorld")>>),
    Route("dynamic", "HelloWorld", "HelloWorldToKey",
          <<To("dynamic", "sample"), To("dynamic", "sample")>>),
    Route("dynamic", "HelloWorld", "HelloWorldToKey",
          <<To("dynamic", "HelloWorld"), To("dynamic", "sample")>>),
    Route("dynamic", "sample", "KeyToHelloWorld", <<To("provided", "HelloWorld")>>),
    Route("dynamic", "HelloWorld", "none", <<To("dynamic", "HelloWorld"), ToFile(<<>>)>>),
    Route("dynamic", "HelloWorld", "none", <<To("provided", "HelloWorld")>>) }

\* Strings that fit, that just fit, and that do not.
MCInputs == [Text |-> {<<3>>, <<255>>, <<256>>},
             HelloWorld |-> {<<1, 3>>, <<258, 255>>, <<2, 300>>},
             sample |-> {<<1, 2>>, <<200, 7>>},
             ShapeType |-> {<<4, 1, 1, 1>>, <<255, 2, 2, 2>>, <<256, 3, 3, 3>>}]
===============================================================================
