------------------------------- MODULE MCKeys -------------------------------
(* Instances of Keys for TLC. *)
EXTENDS Keys

Chars == {97, 77, 65, 79, 90, 91, 126, 59, 48, 60, 233, 8364}
Letters == (97..122) \ {105, 109}

MCKeyEvents ==
    [code : {"Char"}, n : Chars, mods : {{}, {"SHIFT"}}]
    \cup [code : {"Char"}, n : Chars \ {79, 91}, mods : {{"ALT"}}]
    \cup [code : {"Char"}, n : Letters \cup {32} \cup 52..55,
          mods : {{"CONTROL"}}]
    \cup [code : {"Char"}, n : {97, 119}, mods : {{"CONTROL", "ALT"}}]
    \cup [code : {"Char"}, n : {65, 87, 97, 119}, mods : {{"CONTROL", "SHIFT"}}]
    \cup [code : {"F"}, n : 1..13, mods : {{}, {"ALT"}}]
    \cup [code : DOMAIN CursorLetter, n : {0}, mods : {{}, {"CONTROL"}}]
    \cup [code : DOMAIN Fixed \ {"Esc", "BackTab"}, n : {0}, mods : {{}, {"ALT"}}]
    \cup [code : {"BackTab"}, n : {0}, mods : {{"SHIFT"}}]

Kinds == {"MouseDown", "MouseUp", "MouseDrag"}
Buttons == {"Left", "Right", "Middle"}
MCMouseEvents ==
    [code : Kinds, button : Buttons, col : {0, 65534}, row : {9}, mods : {{}}]
    \cup [code : Kinds, button : {"Left"}, col : {94}, row : {0},
          mods : SUBSET {"SHIFT", "ALT", "CONTROL"}]
    \cup [code : {"ScrollUp", "ScrollDown", "ScrollLeft", "Moved"},
          button : {"none"}, col : {0}, row : {0}, mods : {{}}]

MCPastes == {<<>>, <<97, 59>>, <<8364, 126>>}
MCModes == {{}, {"APP_CURSOR"}, {"SGR_MOUSE", "ALT_SCREEN"}, {"SGR_MOUSE"},
            {"BRACKETED_PASTE", "APP_CURSOR"}}
=============================================================================
