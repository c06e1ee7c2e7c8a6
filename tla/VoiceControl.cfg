SPECIFICATION Spec
CONSTANTS
  Params = {"pitch", "formant"}
  Values = {0, 2}
  Default = 0
  Presets = {"Low", "Balanced"}
  Balanced = "Balanced"
  MaxCommands = 1
INVARIANTS TypeOK PublishSyncsAll AcceptedPresetPlays
PROPERTIES SliderTakesEffect PresetTakesEffect
