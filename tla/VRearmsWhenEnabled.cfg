SPECIFICATION Spec
CONSTANTS
  Windows = 3
  Levels = {0, 1, 2, 4}
PROPERTY RearmsWhenEnabled
